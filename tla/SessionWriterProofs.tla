-------------------------- MODULE SessionWriterProofs --------------------------
(***************************************************************************)
(* Proofs about SessionWriter for every number of pumps, every payload,    *)
(* capacity, batch size and reorder bound.                                 *)
(***************************************************************************)
EXTENDS SessionWriter, TLAPS, FiniteSetTheorems, WellFoundedInduction

\* The tracker operators keep to their types.
LEMMA TrackerType ==
    ASSUME NEW t \in Tracker, NEW m \in Frame
    PROVE  /\ ObserveTracker(t, m) \in Tracker
           /\ ObserveContext(t, m) \in Context
<1>1. PendingAt(t, m.seq) \in SUBSET (Direction \X Ids)
  BY DEF PendingAt, Tracker
<1>2. /\ m.dir \in Direction /\ Opposite(m.dir) \in Direction /\ m.id \in Ids
      /\ m.seq \in Int
  BY DEF Frame, Opposite, Direction
<1>3. ObserveContext(t, m) \in Context
  BY DEF ObserveContext, Context
<1>4. PendingAfter(t, m) \in SUBSET (Direction \X Ids)
  BY <1>1, <1>2 DEF PendingAfter, OthersPending
<1>5. (t.lost \/ Unrecorded(t, m)) \in BOOLEAN
  OBVIOUS
<1>6. ObserveTracker(t, m) \in Tracker
  BY <1>2, <1>4, <1>5, Zenon DEF ObserveTracker, Tracker
<1> QED BY <1>3, <1>6

\* Released records keep their type: the context is the tracker's.
LEMMA ReleaseType ==
    ASSUME NEW m \in Frame, tracker \in Tracker
    PROVE  [msg |-> m, context |-> ObserveContext(tracker, m)] \in Record
BY TrackerType DEF Record

\* A chunk never holds anything but released records.
LEMMA ChunkType == Chunk \subseteq messages
BY DEF Chunk

\* A failed chunk is counted, so the records in flight have to be countable.
Finite == IsFiniteSet(pending) /\ IsFiniteSet(messages)

\* The sets of records in flight stay finite, so the reorder buffer has a head.
LEMMA FiniteStep == Finite /\ [Next]_vars => Finite'
<1> SUFFICES ASSUME Finite, [Next]_vars PROVE Finite'
  OBVIOUS
<1> USE DEF Finite
<1>1. ASSUME Collect, UNCHANGED messages PROVE Finite'
  <2>1. CASE UNCHANGED pending
    BY <1>1, <2>1
  <2>2. CASE pending' = pending \cup {Head(channel).msg}
    BY <1>1, <2>2, FS_AddElement
  <2> QED BY <1>1, <2>1, <2>2, Zenon DEF Collect
<1>2. CASE RecvFirst \/ RecvMore
  BY <1>1, <1>2, Zenon DEF RecvFirst, RecvMore, CollectFrame
<1>3. CASE ReleaseNext
  <2>1. PICK m \in pending :
          /\ pending' = pending \ {m}
          /\ messages' = messages \cup {[msg |-> m, context |-> ObserveContext(tracker, m)]}
    BY <1>3, Zenon DEF ReleaseNext
  <2> QED BY <2>1, FS_AddElement, FS_RemoveElement
<1>4. CASE CommitChunk \/ ChunkFails
  <2>1. pending' = pending /\ messages' = messages \ Chunk
    BY <1>4, Zenon DEF CommitChunk, ChunkFails, ChunkTried
  <2> QED BY <2>1, FS_Difference
<1>5. CASE UNCHANGED <<pending, messages>>
  BY <1>5
<1>6. ASSUME NEW p \in Pumps, PumpStep(p) PROVE UNCHANGED <<pending, messages>>
  BY <1>6, Zenon DEF PumpStep, ReadFrame, PumpEnds, Forward, ForwardFails, LoadBudget,
                     CasBudget, TrySend, bufferVars
<1>7. CASE StopPumps \/ FinisherStep \/ Crash \/ UNCHANGED vars
  BY <1>5, <1>7, Zenon DEF StopPumps, FinisherStep, SendClose, AwaitResult, Crash, vars,
                           bufferVars
<1>8. CASE StopCollecting \/ StopReleasing \/ FreeReservation \/ AccountDrops \/ CloseSession
  BY <1>5, <1>8, Zenon DEF StopCollecting, StopReleasing, FreeReservation, AccountDrops,
                           CloseSession, bufferVars
<1> QED
  BY <1>2, <1>3, <1>4, <1>5, <1>6, <1>7, <1>8, Zenon DEF Next, WriterStep

\* Every variable keeps its type; the channel never exceeds its capacity and a
\* batch never exceeds BatchSize events.
THEOREM TypeCorrect == Spec => []TypeOK
<1>1. Init => TypeOK
  <2> SUFFICES ASSUME Init PROVE TypeOK
    OBVIOUS
  <2>1. NoFrame \in Frame
    BY DEF NoFrame, Frame, Shapes, Ids, Direction
  <2>2. EmptyTracker \in Tracker
    BY DEF EmptyTracker, Tracker, NoSeq
  <2>3. channel \in Seq(Event) /\ Len(channel) <= ChannelCapacity
    BY WriterAssumption DEF Init
  <2>4. taken \in 0..BatchSize
    BY WriterAssumption DEF Init
  <2>5. frame \in [Pumps -> Frame] /\ seen \in [Pumps -> Int]
    BY <2>1 DEF Init
  <2>6. /\ pc \in [Pumps -> {"idle", "forward", "load", "cas", "send", "ended"}]
        /\ wpc \in {"recv", "collect", "release", "write", "free", "account", "close", "done"}
        /\ finisher \in {"pumping", "send", "wait", "ok", "failed"}
    BY DEF Init
  <2>7. /\ nextStamp \in Nat /\ queuedBytes \in Int /\ dropped \in Nat
        /\ closeDropped \in Nat /\ nextSeq \in Nat /\ failed \in Nat /\ dbDropped \in Nat
    BY DEF Init
  <2>8. /\ closing \in BOOLEAN /\ failure \in BOOLEAN /\ reported \in BOOLEAN
        /\ dbClosed \in BOOLEAN /\ crashed \in BOOLEAN
        /\ pending \in SUBSET Frame /\ messages \in SUBSET Record
        /\ spent \in SUBSET Record /\ rows \in SUBSET Record /\ forwarded \in SUBSET Frame
        /\ tracker \in Tracker
    BY <2>2, Zenon DEF Init
  <2> QED BY <2>3, <2>4, <2>5, <2>6, <2>7, <2>8, Zenon DEF TypeOK
<1>2. TypeOK /\ Finite /\ [Next]_vars => TypeOK'
  <2> SUFFICES ASSUME TypeOK, Finite, [Next]_vars PROVE TypeOK'
    OBVIOUS
  <2>a. MaxBytes \in Nat /\ ChannelCapacity \in Nat \ {0} /\ BatchSize \in Nat \ {0}
    BY WriterAssumption
  <2> USE <2>a DEF TypeOK, pumpVars, bufferVars, writerVars, dbVars
  <2>1. ASSUME NEW p \in Pumps, ReadFrame(p) PROVE TypeOK'
    <3>1. PICK payload \in Payloads :
            frame' = [frame EXCEPT ![p] =
              [seq |-> nextStamp, dir |-> DirectionOf[p], json |-> payload.json,
               bytes |-> payload.bytes, shape |-> payload.shape, id |-> payload.id]]
      BY <2>1 DEF ReadFrame
    <3>2. /\ payload.json \in BOOLEAN /\ payload.bytes \in Nat
          /\ payload.shape \in Shapes /\ payload.id \in Ids
          /\ DirectionOf[p] \in Direction
      BY WriterAssumption DEF Ids
    <3>3. [seq |-> nextStamp, dir |-> DirectionOf[p], json |-> payload.json,
           bytes |-> payload.bytes, shape |-> payload.shape, id |-> payload.id] \in Frame
      BY <3>2 DEF Frame
    <3>4. frame' \in [Pumps -> Frame]
      BY <3>1, <3>3
    <3>5. nextStamp' \in Nat
      BY <2>1 DEF ReadFrame
    <3>6. pc' \in [Pumps -> {"idle", "forward", "load", "cas", "send", "ended"}]
      BY <2>1 DEF ReadFrame
    <3> QED BY <2>1, <3>4, <3>5, <3>6 DEF ReadFrame
  <2>2. ASSUME NEW p \in Pumps, PumpEnds(p) PROVE TypeOK'
    BY <2>2 DEF PumpEnds
  <2>3. ASSUME NEW p \in Pumps, Forward(p) PROVE TypeOK'
    <3>1. dropped' \in Nat
      BY <2>3 DEF Forward, ForwardCounted
    <3>2. pc' \in [Pumps -> {"idle", "forward", "load", "cas", "send", "ended"}]
      BY <2>3 DEF Forward
    <3> QED BY <2>3, <3>1, <3>2 DEF Forward
  <2>4. ASSUME NEW p \in Pumps, ForwardFails(p) PROVE TypeOK'
    BY <2>4 DEF ForwardFails
  <2>5. ASSUME NEW p \in Pumps, LoadBudget(p) PROVE TypeOK'
    <3>1. dropped' \in Nat /\ queuedBytes' \in Int /\ seen' \in [Pumps -> Int]
      BY <2>5 DEF LoadBudget, Refuse
    <3>2. pc' \in [Pumps -> {"idle", "forward", "load", "cas", "send", "ended"}]
      BY <2>5 DEF LoadBudget, Refuse
    <3> QED BY <2>5, <3>1, <3>2 DEF LoadBudget
  <2>6. ASSUME NEW p \in Pumps, CasBudget(p) PROVE TypeOK'
    <3>1. frame[p].bytes \in Nat
      BY DEF Frame
    <3>2. dropped' \in Nat /\ queuedBytes' \in Int /\ seen' \in [Pumps -> Int]
      BY <2>6, <3>1 DEF CasBudget, Refuse, Reserve
    <3>3. pc' \in [Pumps -> {"idle", "forward", "load", "cas", "send", "ended"}]
      BY <2>6 DEF CasBudget, Refuse, Reserve
    <3> QED BY <2>6, <3>2, <3>3 DEF CasBudget
  <2>7. ASSUME NEW p \in Pumps, TrySend(p) PROVE TypeOK'
    <3>1. /\ frame[p].bytes \in Nat
          /\ [kind |-> "message", msg |-> frame[p]] \in Event
      BY DEF Frame, Event
    <3>2. channel' \in Seq(Event) /\ Len(channel') <= ChannelCapacity
      <4> DEFINE event == [kind |-> "message", msg |-> frame[p]]
      <4>1. /\ Append(channel, event) \in Seq(Event)
            /\ Len(Append(channel, event)) = Len(channel) + 1
        <5> HIDE DEF event
        <5> QED BY <3>1 DEF event
      <4>2. Len(channel) \in Nat
        OBVIOUS
      <4>3. CASE ChannelHasRoom
        <5>1. channel' = Append(channel, event)
          BY <2>7, <4>3, Zenon DEF TrySend
        <5> QED BY <5>1, <4>1, <4>2, <4>3 DEF ChannelHasRoom
      <4>4. CASE ~ChannelHasRoom
        BY <2>7, <4>4 DEF TrySend
      <4> QED BY <4>3, <4>4
    <3>3. dropped' \in Nat /\ queuedBytes' \in Int
      BY <2>7, <3>1 DEF TrySend, SendFull
    <3>4. pc' \in [Pumps -> {"idle", "forward", "load", "cas", "send", "ended"}]
      BY <2>7 DEF TrySend
    <3> QED BY <2>7, <3>2, <3>3, <3>4 DEF TrySend
  <2>8. CASE StopPumps
    <3>1. InHandover \subseteq Frame
      BY DEF InHandover
    <3> QED BY <2>8, <3>1 DEF StopPumps
  <2>9. CASE SendClose
    <3>1. [kind |-> "close", dropped |-> dropped] \in Event
      BY DEF Event
    <3> QED BY <2>9, <3>1 DEF SendClose, ChannelHasRoom
  <2>10. CASE AwaitResult
    BY <2>10 DEF AwaitResult
  <2>11. ASSUME Collect
         PROVE  /\ channel' \in Seq(Event) /\ Len(channel') <= ChannelCapacity
                /\ pending' \in SUBSET Frame
                /\ closing' \in BOOLEAN /\ closeDropped' \in Nat
    <3>1. Head(channel) \in Event /\ Tail(channel) \in Seq(Event)
          /\ Len(Tail(channel)) <= ChannelCapacity
      BY <2>11 DEF Collect
    <3>2. CASE Head(channel).kind = "message"
      BY <2>11, <3>1, <3>2 DEF Collect, Event
    <3>3. CASE Head(channel).kind = "close"
      BY <2>11, <3>1, <3>3 DEF Collect, Event
    <3> QED BY <2>11, <3>2, <3>3 DEF Collect
  <2>12. CASE RecvFirst
    BY <2>11, <2>12 DEF RecvFirst, CollectFrame
  <2>13. CASE RecvMore
    BY <2>11, <2>13 DEF RecvMore, CollectFrame
  <2>14. CASE StopCollecting
    BY <2>14 DEF StopCollecting
  <2>15. CASE ReleaseNext
    <3>1. PICK m \in pending :
            /\ pending' = pending \ {m}
            /\ messages' = messages \cup {[msg |-> m, context |-> ObserveContext(tracker, m)]}
            /\ nextSeq' = IF m.seq + 1 > nextSeq THEN m.seq + 1 ELSE nextSeq
            /\ tracker' = ObserveTracker(tracker, m)
            /\ failed' = IF LosesContext(m) THEN failed + 1 ELSE failed
            /\ failure' = (failure \/ LosesContext(m))
            /\ reported' = (reported \/ LosesContext(m))
      BY <2>15, Zenon DEF ReleaseNext
    <3>2. m \in Frame /\ m.seq \in Nat
      BY DEF Frame
    <3>3. /\ tracker' \in Tracker
          /\ [msg |-> m, context |-> ObserveContext(tracker, m)] \in Record
      BY <3>1, <3>2, TrackerType, ReleaseType
    <3>4. failure' \in BOOLEAN /\ reported' \in BOOLEAN
      BY <3>1, Zenon
    <3>5. failed' \in Nat /\ nextSeq' \in Nat
      <4>1. failed' \in {failed, failed + 1} /\ nextSeq' \in {m.seq + 1, nextSeq}
        BY <3>1, Zenon
      <4> QED BY <3>2, <4>1
    <3>6. pending' \in SUBSET Frame /\ messages' \in SUBSET Record
      BY <3>1, <3>3
    <3>7. UNCHANGED <<pumpVars, queuedBytes, dropped, channel, wpc, taken, closing,
                      closeDropped, spent, dbVars, finisher, crashed>>
      BY <2>15, Zenon DEF ReleaseNext
    <3> QED BY <3>3, <3>4, <3>5, <3>6, <3>7
  <2>16. CASE StopReleasing
    BY <2>16 DEF StopReleasing, AfterBatch
  <2>17. CASE CommitChunk
    BY <2>17, ChunkType DEF CommitChunk, ChunkTried
  <2>18. CASE ChunkFails
    <3>1. IsFiniteSet(Chunk) /\ Cardinality(Chunk) \in Nat
      BY ChunkType, FS_Subset, FS_CardinalityType DEF Finite
    <3>2. failed' = failed + Cardinality(Chunk)
      BY <2>18, Zenon DEF ChunkFails, CountChunk
    <3>3. failed' \in Nat
      BY <3>1, <3>2
    <3> QED BY <2>18, <3>3, <3>1, ChunkType DEF ChunkFails, ChunkTried
  <2>19. CASE FreeReservation
    <3>1. \A r \in spent : r.msg.bytes \in Nat
      BY DEF Record, Frame
    <3> QED BY <2>19, <3>1 DEF FreeReservation, AfterBatch
  <2>20. CASE AccountDrops
    <3>1. TotalDropped \in Nat
      BY DEF TotalDropped
    <3>2. failure' \in BOOLEAN
      BY <2>20, Zenon DEF AccountDrops, AccountFailure
    <3> QED BY <2>20, <3>1, <3>2 DEF AccountDrops
  <2>21. CASE CloseSession
    BY <2>21 DEF CloseSession
  <2>22. CASE Crash
    BY <2>22 DEF Crash
  <2>23. CASE UNCHANGED vars
    BY <2>23 DEF vars
  <2> QED
    BY <2>1, <2>2, <2>3, <2>4, <2>5, <2>6, <2>7, <2>8, <2>9, <2>10, <2>12, <2>13,
       <2>14, <2>15, <2>16, <2>17, <2>18, <2>19, <2>20, <2>21, <2>22, <2>23, Zenon
    DEF Next, PumpStep, FinisherStep, WriterStep
<1>3. Init => Finite
  BY FS_EmptySet DEF Init, Finite
<1> QED BY <1>1, <1>2, <1>3, FiniteStep, PTL DEF Spec

-------------------------------------------------------------------------------
(* The byte budget.                                                          *)

\* A reservation only ever succeeds on the value the limit was checked against,
\* and a release only lowers it.
THEOREM BudgetNeverExceeded == Spec => []BudgetBounded
<1>1. Init => BudgetBounded
  BY WriterAssumption DEF Init, BudgetBounded
<1>2. TypeOK /\ BudgetBounded /\ [Next]_vars => BudgetBounded'
  <2> SUFFICES ASSUME TypeOK, BudgetBounded, [Next]_vars PROVE BudgetBounded'
    OBVIOUS
  <2> USE WriterAssumption DEF BudgetBounded
  <2>1. ASSUME NEW p \in Pumps, CasBudget(p) PROVE BudgetBounded'
    <3>1. frame[p].bytes \in Nat /\ seen[p] \in Int /\ queuedBytes \in Int
      BY DEF TypeOK, Frame
    <3>2. CASE seen[p] <= MaxBytes - frame[p].bytes /\ Reserve(p)
      BY <3>1, <3>2 DEF Reserve
    <3>3. CASE UNCHANGED queuedBytes
      BY <3>3
    <3> QED BY <2>1, <3>2, <3>3 DEF CasBudget, Refuse
  <2>2. ASSUME NEW p \in Pumps, TrySend(p) PROVE BudgetBounded'
    <3>1. frame[p].bytes \in Nat /\ queuedBytes \in Int
      BY DEF TypeOK, Frame
    <3> QED BY <2>2, <3>1 DEF TrySend, SendFull
  <2>3. CASE FreeReservation
    <3>1. PICK r \in spent : queuedBytes' = queuedBytes - r.msg.bytes
      BY <2>3, Zenon DEF FreeReservation
    <3>2. r.msg.bytes \in Nat /\ queuedBytes \in Int
      BY DEF TypeOK, Record, Frame
    <3> QED BY <3>1, <3>2
  <2>4. ASSUME NEW p \in Pumps,
               ReadFrame(p) \/ PumpEnds(p) \/ Forward(p) \/ ForwardFails(p) \/ LoadBudget(p)
        PROVE  UNCHANGED queuedBytes
    BY <2>4, Zenon DEF ReadFrame, PumpEnds, Forward, ForwardFails, LoadBudget, Refuse
  <2>5. CASE StopPumps \/ FinisherStep \/ Crash \/ UNCHANGED vars
    BY <2>5, Zenon DEF StopPumps, FinisherStep, SendClose, AwaitResult, Crash, vars
  <2>6. CASE RecvFirst \/ RecvMore \/ StopCollecting \/ ReleaseNext \/ StopReleasing
    BY <2>6, Zenon DEF RecvFirst, RecvMore, CollectFrame, StopCollecting, ReleaseNext,
                       StopReleasing
  <2>7. CASE CommitChunk \/ ChunkFails \/ AccountDrops \/ CloseSession
    BY <2>7, Zenon DEF CommitChunk, ChunkFails, ChunkTried, AccountDrops, CloseSession
  <2> QED
    BY <2>1, <2>2, <2>3, <2>4, <2>5, <2>6, <2>7, Zenon DEF Next, PumpStep, WriterStep
<1> QED BY <1>1, <1>2, TypeCorrect, PTL DEF Spec

-------------------------------------------------------------------------------
(* Completeness of accepted sessions.                                        *)

\* The induction principle the provers can use: a set of numbers has a least one.
LEMMA LeastNumber ==
    ASSUME NEW T \in SUBSET Nat, T # {}
    PROVE  \E n \in T : \A k \in T : n <= k
<1>1. PICK n \in T : \A k \in T : <<k, n>> \notin OpToRel(<, Nat)
  BY NatLessThanWellFounded, WFMin, Zenon
<1>2. ASSUME NEW k \in T PROVE n <= k
  <2> SUFFICES ASSUME k < n PROVE FALSE
    OBVIOUS
  <2>1. <<k, n>> \in OpToRel(<, Nat)
    BY Zenon DEF OpToRel
  <2> QED BY <1>1, <2>1
<1> QED BY <1>2

\* Every set of frames has an earliest one.
LEMMA EarliestExists ==
    ASSUME NEW S \in SUBSET Frame, S # {}
    PROVE  \E m \in S : \A other \in S : m.seq <= other.seq
<1> DEFINE T == {m.seq : m \in S}
<1>1. T \subseteq Nat /\ T # {}
  BY DEF Frame
<1>2. PICK x \in T : \A y \in T : x <= y
  <2> HIDE DEF T
  <2> QED BY <1>1, LeastNumber
<1> QED BY <1>2

\* The Close event is the last one, and carries the final loss count.
CloseLast ==
    /\ finisher # "pumping" => \A p \in Pumps : pc[p] = "ended"
    /\ \A i \in 1..Len(channel) :
         channel[i].kind = "close" =>
           /\ i = Len(channel) /\ channel[i].dropped = dropped
           /\ finisher \notin {"pumping", "send"}
    /\ closing =>
         channel = <<>> /\ closeDropped = dropped /\ finisher \notin {"pumping", "send"}

\* What the writer has emptied by the time it is at each point.
Drained ==
    /\ wpc \in {"recv", "collect", "free"} => messages = {}
    /\ closing /\ wpc \in {"write", "free"} => pending = {}
    /\ wpc \in {"account", "close", "done"} => closing /\ pending = {} /\ messages = {}

\* What the database says of the losses at each point.
Accounted ==
    /\ wpc \notin {"close", "done"} => dbDropped = 0
    /\ wpc \in {"close", "done"} =>
         /\ dbDropped \in {0, TotalDropped}
         /\ "dropped" \notin StoreFaults => dbDropped = TotalDropped
         /\ ~failure => TotalDropped = 0
    /\ dbClosed => wpc = "done"
    /\ wpc = "done" /\ ~failure => dbClosed
    /\ finisher = "ok" => wpc = "done" /\ ~failure

\* A forwarded frame is on its way, stored, or some loss has been counted.
OnItsWay(m) ==
    \/ \E p \in Pumps : pc[p] \in {"load", "cas", "send"} /\ frame[p] = m
    \/ \E i \in 1..Len(channel) : channel[i].kind = "message" /\ channel[i].msg = m
    \/ m \in pending
    \/ \E r \in messages : r.msg = m

Traced == \A m \in forwarded : OnItsWay(m) \/ m \in Recorded \/ dropped + failed > 0

Control == Finite /\ CloseLast /\ Drained /\ Accounted

\* Close is the last event: no frame follows it into the channel or the buffer.
LEMMA CloseLastStep == TypeOK /\ CloseLast /\ [Next]_vars => CloseLast'
<1> SUFFICES ASSUME TypeOK, CloseLast, [Next]_vars PROVE CloseLast'
  OBVIOUS
<1> USE DEF CloseLast
<1>1. ASSUME NEW p \in Pumps, PumpStep(p) PROVE CloseLast'
  <2>1. finisher = "pumping" /\ UNCHANGED <<finisher, closing, closeDropped>>
    BY <1>1, Zenon DEF PumpStep, ReadFrame, PumpEnds, Forward, ForwardFails, LoadBudget,
                       CasBudget, TrySend, writerVars
  <2>2. ~closing /\ \A i \in 1..Len(channel) : channel[i].kind # "close"
    BY <2>1
  <2>3. CASE UNCHANGED channel
    BY <2>1, <2>2, <2>3
  <2>4. CASE channel' = Append(channel, [kind |-> "message", msg |-> frame[p]])
    <3>1. \A i \in 1..Len(channel') : channel'[i].kind # "close"
      <4> DEFINE event == [kind |-> "message", msg |-> frame[p]]
      <4>1. event.kind # "close"
        OBVIOUS
      <4> HIDE DEF event
      <4>2. /\ Len(channel') = Len(channel) + 1
            /\ \A i \in 1..Len(channel) : channel'[i] = channel[i]
            /\ channel'[Len(channel) + 1] = event
        <5>1. channel' = Append(channel, event)
          BY <2>4 DEF event
        <5>2. channel \in Seq(Event)
          BY DEF TypeOK
        <5> QED BY <5>1, <5>2
      <4>3. Len(channel) \in Nat
        BY DEF TypeOK
      <4>4. ASSUME NEW i \in 1..Len(channel') PROVE channel'[i].kind # "close"
        <5>1. i \in 1..Len(channel) \/ i = Len(channel) + 1
          BY <4>2, <4>3
        <5> QED BY <5>1, <4>1, <4>2, <2>2
      <4> QED BY <4>4
    <3> QED BY <2>1, <2>2, <3>1
  <2> QED
    BY <1>1, <2>3, <2>4, Zenon DEF PumpStep, ReadFrame, PumpEnds, Forward, ForwardFails,
                                   LoadBudget, CasBudget, TrySend
<1>2. CASE StopPumps
  <2>1. /\ finisher = "pumping" /\ finisher' = "send"
        /\ pc' = [p \in Pumps |-> "ended"]
        /\ UNCHANGED <<channel, closing, closeDropped, dropped>>
    BY <1>2, Zenon DEF StopPumps, writerVars
  <2> QED BY <2>1
<1>3. CASE SendClose
  <2> DEFINE event == [kind |-> "close", dropped |-> dropped]
  <2>1. /\ finisher = "send" /\ finisher' = "wait" /\ channel' = Append(channel, event)
        /\ UNCHANGED <<pc, closing, closeDropped, dropped>>
    BY <1>3, Zenon DEF SendClose, pumpVars, writerVars
  <2>2. event.dropped = dropped
    OBVIOUS
  <2>3. ~closing /\ \A i \in 1..Len(channel) : channel[i].kind # "close"
    BY <2>1
  <2> HIDE DEF event
  <2>4. /\ Len(channel') = Len(channel) + 1
        /\ \A i \in 1..Len(channel) : channel'[i] = channel[i]
        /\ channel'[Len(channel) + 1] = event
    BY <2>1 DEF TypeOK
  <2>5. \A i \in 1..Len(channel') : channel'[i].kind = "close" => i = Len(channel')
    BY <2>3, <2>4 DEF TypeOK
  <2>6. \A i \in 1..Len(channel') :
          channel'[i].kind = "close" => channel'[i].dropped = dropped'
    BY <2>1, <2>2, <2>4, <2>5 DEF TypeOK
  <2> QED BY <2>1, <2>3, <2>5, <2>6
<1>4. CASE AwaitResult
  BY <1>4 DEF AwaitResult, pumpVars, writerVars
<1>5. ASSUME Collect, UNCHANGED <<finisher, pc, dropped>> PROVE CloseLast'
  <2>1. /\ channel # <<>> /\ channel \in Seq(Event) /\ Len(channel) > 0
        /\ Len(channel') = Len(channel) - 1
        /\ \A i \in 1..Len(channel') : channel'[i] = channel[i + 1]
        /\ Head(channel) = channel[1]
    BY <1>5 DEF Collect, TypeOK
  <2>2. ~closing
    BY <2>1
  <2>3. CASE Head(channel).kind = "message" /\ UNCHANGED <<closing, closeDropped>>
    BY <1>5, <2>1, <2>2, <2>3
  <2>4. CASE /\ Head(channel).kind = "close"
             /\ closing' = TRUE /\ closeDropped' = Head(channel).dropped
    <3>1. Len(channel) = 1 /\ Head(channel).dropped = dropped
          /\ finisher \notin {"pumping", "send"}
      BY <2>1, <2>4
    <3>2. channel' = <<>>
      BY <1>5, <2>1, <3>1 DEF Collect
    <3> QED BY <1>5, <2>4, <3>1, <3>2
  <2> QED BY <1>5, <2>3, <2>4, Zenon DEF Collect
<1>6. CASE RecvFirst \/ RecvMore
  BY <1>5, <1>6, Zenon DEF RecvFirst, RecvMore, CollectFrame, pumpVars
<1>7. CASE UNCHANGED <<finisher, pc, dropped, channel, closing, closeDropped>>
  BY <1>7
<1>8. CASE StopCollecting \/ ReleaseNext \/ StopReleasing
  BY <1>7, <1>8, Zenon DEF StopCollecting, ReleaseNext, StopReleasing, pumpVars
<1>9. CASE CommitChunk \/ ChunkFails \/ FreeReservation
  BY <1>7, <1>9, Zenon DEF CommitChunk, ChunkFails, ChunkTried, FreeReservation, pumpVars
<1>10. CASE AccountDrops \/ CloseSession \/ Crash \/ UNCHANGED vars
  BY <1>7, <1>10, Zenon DEF AccountDrops, CloseSession, Crash, vars, pumpVars, writerVars
<1> QED
  BY <1>1, <1>2, <1>3, <1>4, <1>6, <1>8, <1>9, <1>10, Zenon
  DEF Next, FinisherStep, WriterStep

\* Past its batch the writer holds no released record, and past its last batch
\* the reorder buffer is empty.
LEMMA DrainedStep == TypeOK /\ Drained /\ [Next]_vars => Drained'
<1> SUFFICES ASSUME TypeOK, Drained, [Next]_vars PROVE Drained'
  OBVIOUS
<1> USE DEF Drained
<1>1. CASE UNCHANGED <<wpc, closing, pending, messages>>
  BY <1>1
<1>2. ASSUME NEW p \in Pumps, PumpStep(p) PROVE Drained'
  BY <1>1, <1>2, Zenon DEF PumpStep, ReadFrame, PumpEnds, Forward, ForwardFails, LoadBudget,
                           CasBudget, TrySend, writerVars, bufferVars
<1>3. CASE StopPumps \/ FinisherStep \/ Crash \/ UNCHANGED vars
  BY <1>1, <1>3, Zenon DEF StopPumps, FinisherStep, SendClose, AwaitResult, Crash, vars,
                           writerVars, bufferVars
<1>4. CASE RecvFirst \/ RecvMore
  <2>1. wpc \in {"recv", "collect"} /\ wpc' = "collect" /\ UNCHANGED messages
    BY <1>4 DEF RecvFirst, RecvMore, CollectFrame
  <2> QED BY <2>1
<1>5. CASE StopCollecting
  BY <1>5 DEF StopCollecting, bufferVars
<1>6. CASE ReleaseNext
  BY <1>6 DEF ReleaseNext
<1>7. CASE StopReleasing
  <2>1. /\ wpc = "release" /\ wpc' = IF messages = {} THEN AfterBatch ELSE "write"
        /\ UNCHANGED <<closing, pending, messages>>
    BY <1>7, Zenon DEF StopReleasing, bufferVars
  <2>2. closing => pending = {}
    <3> SUFFICES ASSUME closing, pending # {} PROVE FALSE
      OBVIOUS
    <3>1. PICK m \in pending : \A other \in pending : m.seq <= other.seq
      BY EarliestExists DEF TypeOK
    <3> QED BY <1>7, <3>1, Zenon DEF StopReleasing, Releasable, Earliest
  <2> QED BY <2>1, <2>2 DEF AfterBatch
<1>8. CASE CommitChunk \/ ChunkFails
  <2>1. /\ wpc = "write" /\ wpc' = IF messages' = {} THEN "free" ELSE "write"
        /\ UNCHANGED <<closing, pending>>
    BY <1>8, Zenon DEF CommitChunk, ChunkFails, ChunkTried
  <2> QED BY <2>1
<1>9. CASE FreeReservation
  <2>1. /\ wpc = "free" /\ wpc' = IF spent' = {} THEN AfterBatch ELSE "free"
        /\ UNCHANGED <<closing, pending, messages>>
    BY <1>9, Zenon DEF FreeReservation
  <2> QED BY <2>1 DEF AfterBatch
<1>10. CASE AccountDrops \/ CloseSession
  BY <1>10 DEF AccountDrops, CloseSession, bufferVars
<1> QED
  BY <1>2, <1>3, <1>4, <1>5, <1>6, <1>7, <1>8, <1>9, <1>10, Zenon DEF Next, WriterStep

\* What the accounting statement publishes is the sum of both loss counters.
LEMMA AccountedStep == TypeOK /\ Accounted /\ [Next]_vars => Accounted'
<1> SUFFICES ASSUME TypeOK, Accounted, [Next]_vars PROVE Accounted'
  OBVIOUS
<1>1. CASE UNCHANGED <<wpc, dbDropped, closeDropped, failed, failure, dbClosed, finisher>>
  BY <1>1 DEF Accounted, TotalDropped
<1>2. ASSUME NEW p \in Pumps, PumpStep(p) PROVE Accounted'
  BY <1>1, <1>2, Zenon DEF PumpStep, ReadFrame, PumpEnds, Forward, ForwardFails, LoadBudget,
                           CasBudget, TrySend, writerVars, dbVars
<1>3. CASE Crash \/ UNCHANGED vars
  BY <1>1, <1>3, Zenon DEF Crash, vars, writerVars, dbVars
<1>4. CASE StopPumps \/ SendClose
  BY <1>4 DEF StopPumps, SendClose, writerVars, dbVars, Accounted, TotalDropped
<1>5. CASE AwaitResult
  BY <1>5 DEF AwaitResult, writerVars, dbVars, Accounted, TotalDropped
<1>6. ASSUME wpc \notin {"close", "done"}, wpc' \notin {"close", "done"}, UNCHANGED dbVars,
             UNCHANGED finisher
      PROVE  Accounted'
  BY <1>6 DEF Accounted, dbVars
<1>7. CASE RecvFirst \/ RecvMore
  BY <1>6, <1>7 DEF RecvFirst, RecvMore, CollectFrame
<1>8. CASE StopCollecting \/ ReleaseNext \/ StopReleasing
  BY <1>6, <1>8 DEF StopCollecting, ReleaseNext, StopReleasing, AfterBatch
<1>9. CASE CommitChunk \/ ChunkFails
  <2>1. /\ wpc = "write" /\ wpc' \in {"write", "free"}
        /\ UNCHANGED <<dbDropped, dbClosed, finisher>>
    BY <1>9 DEF CommitChunk, ChunkFails, ChunkTried
  <2> QED BY <2>1 DEF Accounted
<1>10. CASE FreeReservation
  BY <1>6, <1>10 DEF FreeReservation, AfterBatch
<1>11. CASE AccountDrops
  <2>1. /\ wpc = "account" /\ wpc' = "close"
        /\ UNCHANGED <<closeDropped, failed, dbClosed, finisher>>
        /\ \/ dbDropped' = dbDropped + TotalDropped
           \/ "dropped" \in StoreFaults /\ UNCHANGED dbDropped
        /\ failure' = (failure \/ TotalDropped > 0)
    BY <1>11, Zenon DEF AccountDrops, AccountFailure
  <2>2. dbDropped = 0 /\ TotalDropped \in Nat /\ TotalDropped' = TotalDropped
        /\ ~dbClosed /\ finisher # "ok"
    BY <2>1 DEF Accounted, TotalDropped, TypeOK
  <2>3. dbDropped' \in {0, TotalDropped}
    BY <2>1, <2>2
  <2>4. "dropped" \notin StoreFaults => dbDropped' = TotalDropped
    BY <2>1, <2>2
  <2>5. ~failure' => TotalDropped = 0
    <3> SUFFICES ASSUME ~failure' PROVE TotalDropped = 0
      OBVIOUS
    <3>1. ~(TotalDropped > 0)
      BY <2>1, Zenon
    <3> QED BY <2>2, <3>1
  <2> QED BY <2>1, <2>2, <2>3, <2>4, <2>5, Zenon DEF Accounted
<1>12. CASE CloseSession
  <2>1. /\ wpc = "close" /\ wpc' = "done"
        /\ UNCHANGED <<closeDropped, failed, dbDropped, finisher>>
        /\ \/ dbClosed' = TRUE /\ failure' = failure
           \/ failure' = TRUE /\ dbClosed' = dbClosed
    BY <1>12, Zenon DEF CloseSession
  <2>2. TotalDropped' = TotalDropped /\ finisher # "ok"
    BY <2>1 DEF TotalDropped, Accounted
  <2> QED BY <2>1, <2>2, Zenon DEF Accounted
<1> QED
  BY <1>2, <1>3, <1>4, <1>5, <1>7, <1>8, <1>9, <1>10, <1>11, <1>12, Zenon
  DEF Next, FinisherStep, WriterStep

\* Every relayed frame is in a pump, in the channel, in the writer, in the
\* database or counted, as long as nothing is dropped between these places.
LEMMA TracedStep ==
    ASSUME CancelMidForward = FALSE
    PROVE  TypeOK /\ Finite /\ Traced /\ [Next]_vars => Traced'
<1> SUFFICES ASSUME TypeOK, Finite, Traced, [Next]_vars PROVE Traced'
  OBVIOUS
<1> DEFINE Safe(m) == OnItsWay(m) \/ m \in Recorded \/ dropped + failed > 0
           InPump(m) == \E p \in Pumps : pc[p] \in {"load", "cas", "send"} /\ frame[p] = m
           InChannel(m) ==
             \E i \in 1..Len(channel) : channel[i].kind = "message" /\ channel[i].msg = m
           InMessages(m) == \E r \in messages : r.msg = m
<1>1. ASSUME UNCHANGED <<pc, frame, channel, pending, messages, rows, dropped, failed, forwarded>>
      PROVE  Traced'
  BY <1>1 DEF Traced, OnItsWay, Recorded
<1>2. ASSUME NEW p \in Pumps, PumpStep(p) PROVE Traced'
  <2>1. UNCHANGED <<pending, messages, rows, failed>>
    BY <1>2, Zenon DEF PumpStep, ReadFrame, PumpEnds, Forward, ForwardFails, LoadBudget,
                       CasBudget, TrySend, bufferVars, writerVars, dbVars
  <2>2. CASE dropped' = dropped + 1
    BY <2>1, <2>2 DEF Traced, TypeOK
  <2>3. CASE ReadFrame(p) \/ PumpEnds(p) \/ ForwardFails(p)
    <3>1. /\ pc[p] \in {"idle", "forward"} /\ UNCHANGED <<channel, dropped, forwarded>>
          /\ \A q \in Pumps \ {p} : pc'[q] = pc[q] /\ frame'[q] = frame[q]
      BY <2>3 DEF ReadFrame, PumpEnds, ForwardFails, TypeOK
    <3>2. \A m : InPump(m) => InPump(m)'
      BY <3>1
    <3> QED BY <2>1, <3>1, <3>2 DEF Traced, OnItsWay, Recorded
  <2>4. CASE Forward(p) /\ dropped' = dropped
    <3>1. /\ pc[p] = "forward" /\ frame[p].json
          /\ forwarded' = forwarded \cup {frame[p]}
          /\ pc' = [pc EXCEPT ![p] = "load"]
          /\ UNCHANGED <<frame, channel, dropped>>
      <4>1. ASSUME ~frame[p].json PROVE FALSE
        BY <2>4, <4>1 DEF Forward, ForwardCounted, TypeOK
      <4>2. frame[p].json
        BY <4>1
      <4> QED BY <2>4, <4>2, Zenon DEF Forward
    <3>2. \A m : InPump(m) => InPump(m)'
      BY <3>1 DEF TypeOK
    <3>3. InPump(frame[p])'
      BY <3>1 DEF TypeOK
    <3> QED BY <2>1, <3>1, <3>2, <3>3 DEF Traced, OnItsWay, Recorded
  <2>5. CASE (LoadBudget(p) \/ CasBudget(p)) /\ UNCHANGED dropped
    <3>1. /\ UNCHANGED <<frame, channel, forwarded>>
          /\ pc' = pc \/ pc' = [pc EXCEPT ![p] = "cas"] \/ pc' = [pc EXCEPT ![p] = "send"]
      BY <2>5 DEF LoadBudget, CasBudget, Refuse, Reserve, TypeOK
    <3>2. \A m : InPump(m) => InPump(m)'
      BY <3>1 DEF TypeOK
    <3> QED BY <2>1, <2>5, <3>1, <3>2 DEF Traced, OnItsWay, Recorded
  <2>6. CASE TrySend(p) /\ UNCHANGED dropped
    <3> DEFINE event == [kind |-> "message", msg |-> frame[p]]
    <3>1. /\ pc' = [pc EXCEPT ![p] = "idle"] /\ UNCHANGED <<frame, forwarded>>
          /\ channel' = Append(channel, event)
      BY <2>6 DEF TrySend, SendFull, TypeOK
    <3>2. event.kind = "message" /\ event.msg = frame[p]
      OBVIOUS
    <3> HIDE DEF event
    <3>3. /\ Len(channel') = Len(channel) + 1 /\ Len(channel) \in Nat
          /\ \A i \in 1..Len(channel) : channel'[i] = channel[i]
          /\ channel'[Len(channel) + 1] = event
      BY <3>1 DEF TypeOK
    <3>4. \A m : InChannel(m) => InChannel(m)'
      BY <3>3
    <3>5. InChannel(frame[p])'
      BY <3>1, <3>2, <3>3
    <3>6. \A m : InPump(m) => InPump(m)' \/ m = frame[p]
      BY <3>1 DEF TypeOK
    <3> QED BY <2>1, <2>6, <3>1, <3>4, <3>5, <3>6 DEF Traced, OnItsWay, Recorded
  <2> QED
    <3>1. Forward(p) => dropped' = dropped \/ dropped' = dropped + 1
      BY DEF Forward, ForwardCounted, TypeOK
    <3>2. LoadBudget(p) \/ CasBudget(p) \/ TrySend(p) =>
            UNCHANGED dropped \/ dropped' = dropped + 1
      BY DEF LoadBudget, CasBudget, TrySend, Refuse, Reserve, SendFull
    <3> QED BY <1>2, <2>2, <2>3, <2>4, <2>5, <2>6, <3>1, <3>2, Zenon DEF PumpStep
<1>3. CASE StopPumps
  <2>1. /\ \A p \in Pumps : pc[p] \in {"idle", "forward", "ended"}
        /\ InHandover = {}
    BY <1>3, Zenon DEF StopPumps, InHandover
  <2>2. /\ forwarded' = forwarded
        /\ UNCHANGED <<channel, pending, messages, rows, dropped, failed>>
    BY <1>3, <2>1 DEF StopPumps, bufferVars, dbVars, writerVars
  <2>3. \A m : ~InPump(m)
    BY <2>1
  <2> QED BY <2>2, <2>3 DEF Traced, OnItsWay, Recorded
<1>4. CASE SendClose
  <2> DEFINE event == [kind |-> "close", dropped |-> dropped]
  <2>1. /\ channel' = Append(channel, event)
        /\ UNCHANGED <<pc, frame, pending, messages, rows, dropped, failed, forwarded>>
    BY <1>4, Zenon DEF SendClose, pumpVars, bufferVars, dbVars, writerVars
  <2> HIDE DEF event
  <2>2. /\ Len(channel') = Len(channel) + 1 /\ Len(channel) \in Nat
        /\ \A i \in 1..Len(channel) : channel'[i] = channel[i]
    BY <2>1 DEF TypeOK
  <2>3. \A m : InChannel(m) => InChannel(m)'
    BY <2>2
  <2> QED BY <2>1, <2>3 DEF Traced, OnItsWay, Recorded
<1>5. CASE AwaitResult \/ Crash \/ UNCHANGED vars
  BY <1>1, <1>5, Zenon DEF AwaitResult, Crash, vars, pumpVars, bufferVars, dbVars, writerVars
<1>6. CASE RecvFirst \/ RecvMore
  <2>1. Collect /\ UNCHANGED <<pc, frame, messages, rows, dropped, failed, forwarded>>
    BY <1>6, Zenon DEF RecvFirst, RecvMore, CollectFrame, pumpVars, dbVars
  <2>2. /\ channel # <<>> /\ channel \in Seq(Event) /\ Len(channel) > 0
        /\ Len(channel') = Len(channel) - 1
        /\ \A i \in 1..Len(channel') : channel'[i] = channel[i + 1]
        /\ Head(channel) = channel[1]
    BY <2>1 DEF Collect, TypeOK
  <2>3. \A m : InChannel(m) =>
          InChannel(m)' \/ (Head(channel).kind = "message" /\ m = Head(channel).msg)
    <3> SUFFICES ASSUME NEW m, NEW i \in 1..Len(channel),
                        channel[i].kind = "message", channel[i].msg = m, i # 1
                 PROVE  InChannel(m)'
      BY <2>2
    <3>1. i - 1 \in 1..Len(channel') /\ channel'[i - 1] = channel[i]
      BY <2>2
    <3> QED BY <3>1
  <2>4. \/ Head(channel).kind = "message" /\ pending' = pending \cup {Head(channel).msg}
        \/ Head(channel).kind = "close" /\ pending' = pending
    BY <2>1, Zenon DEF Collect
  <2> QED BY <2>1, <2>3, <2>4 DEF Traced, OnItsWay, Recorded
<1>7. CASE StopCollecting \/ StopReleasing \/ FreeReservation
  BY <1>1, <1>7, Zenon DEF StopCollecting, StopReleasing, FreeReservation, pumpVars,
                           bufferVars, dbVars
<1>8. CASE ReleaseNext
  <2>1. PICK m \in pending :
          /\ pending' = pending \ {m}
          /\ messages' = messages \cup {[msg |-> m, context |-> ObserveContext(tracker, m)]}
          /\ failed' = IF LosesContext(m) THEN failed + 1 ELSE failed
    BY <1>8, Zenon DEF ReleaseNext
  <2>2. UNCHANGED <<pc, frame, channel, rows, dropped, forwarded>>
    BY <1>8, Zenon DEF ReleaseNext, pumpVars, dbVars
  <2>3. failed' \in Nat /\ failed' >= failed
    BY <2>1 DEF TypeOK
  <2>4. dropped + failed > 0 => dropped' + failed' > 0
    <3>1. dropped \in Nat /\ failed \in Nat /\ dropped' = dropped
      BY <2>2 DEF TypeOK
    <3>2. \A a, b, c \in Nat : a + b > 0 /\ c >= b => a + c > 0
      OBVIOUS
    <3> QED BY <2>3, <3>1, <3>2
  <2>5. InMessages(m)'
    <3> DEFINE released == [msg |-> m, context |-> ObserveContext(tracker, m)]
    <3>1. released.msg = m
      OBVIOUS
    <3>2. released \in messages'
      BY <2>1
    <3> HIDE DEF released
    <3> QED BY <3>1, <3>2
  <2>6. \A k : InMessages(k) => InMessages(k)'
    BY <2>1
  <2> QED BY <2>1, <2>2, <2>4, <2>5, <2>6 DEF Traced, OnItsWay, Recorded
<1>9. CASE CommitChunk
  <2>1. /\ messages' = messages \ Chunk /\ rows' = rows \cup Chunk
        /\ UNCHANGED <<pc, frame, channel, pending, dropped, failed, forwarded>>
    BY <1>9, Zenon DEF CommitChunk, ChunkTried, pumpVars
  <2>2. \A m : InMessages(m) => InMessages(m)' \/ m \in Recorded'
    BY <2>1 DEF Recorded
  <2>3. Recorded \subseteq Recorded'
    BY <2>1 DEF Recorded
  <2> QED BY <2>1, <2>2, <2>3 DEF Traced, OnItsWay
<1>10. CASE ChunkFails
  <2>1. /\ messages' = messages \ Chunk /\ failed' = failed + Cardinality(Chunk)
        /\ UNCHANGED <<pc, frame, channel, pending, rows, dropped, forwarded>>
    BY <1>10, Zenon DEF ChunkFails, ChunkTried, CountChunk, pumpVars
  <2>2. IsFiniteSet(Chunk) /\ Cardinality(Chunk) \in Nat
    BY ChunkType, FS_Subset, FS_CardinalityType DEF Finite
  <2>3. CASE Chunk = {}
    <3>1. messages' = messages /\ Cardinality(Chunk) = 0
      BY <2>1, <2>3, FS_EmptySet
    <3> QED BY <1>1, <2>1, <3>1 DEF TypeOK
  <2>4. CASE Chunk # {}
    <3>1. Cardinality(Chunk) > 0
      BY <2>2, <2>4, FS_EmptySet
    <3> QED BY <2>1, <2>2, <3>1 DEF Traced, TypeOK
  <2> QED BY <2>3, <2>4
<1>11. CASE AccountDrops \/ CloseSession
  BY <1>1, <1>11, Zenon DEF AccountDrops, CloseSession, pumpVars, bufferVars
<1> QED
  BY <1>2, <1>3, <1>4, <1>5, <1>6, <1>7, <1>8, <1>9, <1>10, <1>11, Zenon
  DEF Next, FinisherStep, WriterStep

\* The shutdown protocol starts in its invariant.
LEMMA ControlInit == Init => Control
<1> SUFFICES ASSUME Init PROVE Control
  OBVIOUS
<1>1. Finite
  BY FS_EmptySet DEF Init, Finite
<1>2. CloseLast
  BY DEF Init, CloseLast
<1>3. Drained
  BY DEF Init, Drained
<1>4. Accounted
  BY DEF Init, Accounted
<1> QED BY <1>1, <1>2, <1>3, <1>4 DEF Control

\* The control invariant of the pipeline: what is empty, final and published at
\* each point of the shutdown protocol.
THEOREM ControlInvariant == Spec => []Control
<1>1. TypeOK /\ Control /\ [Next]_vars => Control'
  BY FiniteStep, CloseLastStep, DrainedStep, AccountedStep, Zenon DEF Control
<1> QED BY ControlInit, TypeCorrect, <1>1, PTL DEF Spec

\* A session the health check accepts holds every frame that was relayed: for any
\* number of pumps and any capacity, budget, batch size, crash or failing batch,
\* as long as the accounting statement itself does not fail and no pump is
\* dropped between handing over bytes and recording them.
THEOREM HealthyCompleteness ==
    ASSUME CancelMidForward = FALSE, "dropped" \notin StoreFaults
    PROVE  Spec => []HealthyIsComplete
<1>1. Init => Traced
  BY DEF Init, Traced
<1>2. TypeOK /\ Control /\ Traced => HealthyIsComplete
  <2> SUFFICES ASSUME TypeOK, Control, Traced, CountsAsComplete, NEW m \in forwarded
               PROVE  m \in Recorded
    BY DEF HealthyIsComplete
  <2>1. wpc = "done" /\ TotalDropped = 0
    BY DEF CountsAsComplete, Control, Accounted
  <2>2. closing /\ pending = {} /\ messages = {}
    BY <2>1 DEF Control, Drained
  <2>3. /\ channel = <<>> /\ closeDropped = dropped /\ \A p \in Pumps : pc[p] = "ended"
    BY <2>2 DEF Control, CloseLast
  <2>4. ~OnItsWay(m)
    BY <2>2, <2>3 DEF OnItsWay
  <2>5. ~(dropped + failed > 0)
    BY <2>1, <2>3 DEF TotalDropped, TypeOK
  <2> QED BY <2>4, <2>5 DEF Traced
<1>3. TypeOK /\ Control /\ Traced /\ [Next]_vars => Traced'
  BY TracedStep, Zenon DEF Control
<1> QED BY <1>1, <1>2, <1>3, TypeCorrect, ControlInvariant, PTL DEF Spec

\* When finish_storage_writer returns Ok the session is closed, declares no loss
\* and holds every relayed frame, whichever SQLite statements may fail.
THEOREM CleanExitCompleteness ==
    ASSUME CancelMidForward = FALSE
    PROVE  Spec => []CleanExitIsComplete
<1>1. Init => Traced
  BY DEF Init, Traced
<1>2. TypeOK /\ Control /\ Traced => CleanExitIsComplete
  <2> SUFFICES ASSUME TypeOK, Control, Traced, finisher = "ok"
               PROVE  dbClosed /\ dbDropped = 0 /\ forwarded \subseteq Recorded
    BY DEF CleanExitIsComplete
  <2>1. wpc = "done" /\ TotalDropped = 0 /\ dbDropped = 0 /\ dbClosed
    BY DEF Control, Accounted
  <2>2. closing /\ pending = {} /\ messages = {}
    BY <2>1 DEF Control, Drained
  <2>3. /\ channel = <<>> /\ closeDropped = dropped /\ \A p \in Pumps : pc[p] = "ended"
    BY <2>2 DEF Control, CloseLast
  <2>4. \A m \in forwarded : ~OnItsWay(m)
    BY <2>2, <2>3 DEF OnItsWay
  <2>5. ~(dropped + failed > 0)
    BY <2>1, <2>3 DEF TotalDropped, TypeOK
  <2> QED BY <2>1, <2>4, <2>5 DEF Traced
<1>3. TypeOK /\ Control /\ Traced /\ [Next]_vars => Traced'
  BY TracedStep, Zenon DEF Control
<1> QED BY <1>1, <1>2, <1>3, TypeCorrect, ControlInvariant, PTL DEF Spec

-------------------------------------------------------------------------------
(* The refinement of CaptureLog: only what was relayed is on its way.        *)

Carried == {i \in 1 .. Len(channel) : channel[i].kind = "message"}

Honest ==
    /\ \A p \in Pumps : pc[p] \in {"load", "cas", "send"} => frame[p] \in forwarded
    /\ \A i \in Carried : channel[i].msg \in forwarded
    /\ pending \subseteq forwarded
    /\ \A r \in messages \cup rows : r.msg \in forwarded

\* What an append does to the channel.
LEMMA Enqueued ==
    ASSUME TypeOK, NEW e, channel' = Append(channel, e)
    PROVE  /\ Carried \subseteq Carried' /\ Carried' \subseteq Carried \cup {Len(channel) + 1}
           /\ Len(channel) \in Nat /\ channel'[Len(channel) + 1] = e
           /\ Len(channel) + 1 \in Carried' => e.kind = "message"
           /\ \A i \in 1 .. Len(channel) : channel'[i] = channel[i]
<1>1. /\ Len(channel') = Len(channel) + 1 /\ Len(channel) \in Nat
      /\ \A i \in 1..Len(channel) : channel'[i] = channel[i]
      /\ channel'[Len(channel) + 1] = e
  BY DEF TypeOK
<1>2. Carried \subseteq Carried'
  BY <1>1 DEF Carried
<1>3. Carried' \subseteq Carried \cup {Len(channel) + 1}
  BY <1>1 DEF Carried
<1> QED BY <1>1, <1>2, <1>3 DEF Carried

\* What taking the head does to the channel and the buffer.
LEMMA Taken ==
    ASSUME TypeOK, Collect
    PROVE  /\ Len(channel) \in Nat /\ 1 \in 1 .. Len(channel)
           /\ \A i \in Carried' : i + 1 \in Carried /\ i + 1 # 1 /\ channel'[i] = channel[i + 1]
           /\ \/ 1 \in Carried /\ pending' = pending \cup {channel[1].msg}
              \/ pending' = pending
<1>1. /\ channel # <<>> /\ channel \in Seq(Event) /\ Len(channel) > 0 /\ Len(channel) \in Nat
      /\ Len(channel') = Len(channel) - 1
      /\ \A i \in 1..Len(channel') : channel'[i] = channel[i + 1]
      /\ Head(channel) = channel[1]
  BY DEF Collect, TypeOK
<1>2. 1 \in 1 .. Len(channel)
  BY <1>1
<1>3. \A i \in Carried' : i + 1 \in Carried /\ i + 1 # 1 /\ channel'[i] = channel[i + 1]
  BY <1>1 DEF Carried
<1>4. \/ 1 \in Carried /\ pending' = pending \cup {channel[1].msg}
      \/ pending' = pending
  BY <1>1, <1>2 DEF Collect, Carried
<1> QED BY <1>1, <1>2, <1>3, <1>4

\* A pump step either leaves the channel alone or appends the frame it holds.
LEMMA PumpChannel ==
    ASSUME NEW p \in Pumps, PumpStep(p)
    PROVE  /\ \/ channel' = channel
              \/ pc[p] = "send" /\ channel' = Append(channel, [kind |-> "message", msg |-> frame[p]])
           /\ UNCHANGED <<pending, messages, rows, failure, reported, nextSeq>>
BY Zenon DEF PumpStep, ReadFrame, PumpEnds, Forward, ForwardFails, LoadBudget, CasBudget, TrySend,
             bufferVars, writerVars, dbVars

LEMMA HonestStep ==
    ASSUME CancelMidForward = FALSE
    PROVE  TypeOK /\ Honest /\ [Next]_vars => Honest' /\ forwarded \subseteq forwarded'
<1> SUFFICES ASSUME TypeOK, Honest, [Next]_vars PROVE Honest' /\ forwarded \subseteq forwarded'
  OBVIOUS
<1> USE DEF Honest
<1>1. ASSUME UNCHANGED <<pc, frame, channel, pending, messages, rows, forwarded>>
      PROVE  Honest' /\ forwarded \subseteq forwarded'
  BY <1>1 DEF Carried
<1>2. ASSUME NEW p \in Pumps, PumpStep(p) PROVE Honest' /\ forwarded \subseteq forwarded'
  <2>1. UNCHANGED <<pending, messages, rows>>
    BY <1>2, PumpChannel
  <2>2. forwarded \subseteq forwarded'
    BY <1>2, Zenon DEF PumpStep, ReadFrame, PumpEnds, Forward, ForwardFails, LoadBudget, CasBudget, TrySend
  <2>3. \A q \in Pumps : pc'[q] \in {"load", "cas", "send"} => frame'[q] \in forwarded'
    <3>1. \A q \in Pumps \ {p} : pc'[q] = pc[q] /\ frame'[q] = frame[q]
      BY <1>2 DEF PumpStep, ReadFrame, PumpEnds, Forward, ForwardFails, LoadBudget, CasBudget, TrySend,
                  Refuse, Reserve, TypeOK
    <3>2. pc'[p] \in {"load", "cas", "send"} => frame'[p] \in forwarded'
      <4>1. CASE ReadFrame(p) \/ PumpEnds(p) \/ ForwardFails(p) \/ TrySend(p)
        <5>1. pc'[p] \in {"forward", "ended", "idle"}
          BY <4>1 DEF ReadFrame, PumpEnds, ForwardFails, TrySend, TypeOK
        <5> QED BY <5>1
      <4>2. CASE Forward(p)
        BY <4>2 DEF Forward
      <4>3. CASE LoadBudget(p) \/ CasBudget(p)
        <5>1. pc[p] \in {"load", "cas"} /\ frame' = frame /\ forwarded' = forwarded
          BY <4>3 DEF LoadBudget, CasBudget
        <5> QED BY <5>1
      <4> QED BY <1>2, <4>1, <4>2, <4>3 DEF PumpStep
    <3> QED BY <2>2, <3>1, <3>2
  <2>4. \A i \in Carried' : channel'[i].msg \in forwarded'
    <3>1. CASE channel' = channel
      BY <2>2, <3>1 DEF Carried
    <3>2. CASE pc[p] = "send" /\ channel' = Append(channel, [kind |-> "message", msg |-> frame[p]])
      <4>1. PICK e : e = [kind |-> "message", msg |-> frame[p]]
        OBVIOUS
      <4>2. channel' = Append(channel, e) /\ e.msg \in forwarded
        BY <3>2, <4>1
      <4>3. \A i \in Carried' : i \in Carried \/ i = Len(channel) + 1
        BY <4>2, Enqueued
      <4>4. channel'[Len(channel) + 1] = e /\ \A i \in Carried : channel'[i] = channel[i]
        BY <4>2, Enqueued DEF Carried
      <4> QED BY <2>2, <4>2, <4>3, <4>4
    <3> QED BY <1>2, <3>1, <3>2, PumpChannel
  <2> QED BY <2>1, <2>2, <2>3, <2>4
<1>3. CASE StopPumps
  <2>1. InHandover = {}
    BY DEF InHandover
  <2>2. /\ forwarded' = forwarded /\ pc' = [p \in Pumps |-> "ended"]
        /\ UNCHANGED <<frame, channel, pending, messages, rows>>
    BY <1>3, <2>1 DEF StopPumps, bufferVars, dbVars, writerVars
  <2> QED BY <2>2 DEF Carried
<1>4. CASE SendClose
  <2>1. PICK e : e = [kind |-> "close", dropped |-> dropped]
    OBVIOUS
  <2>2. /\ channel' = Append(channel, e) /\ e.kind # "message"
        /\ UNCHANGED <<pc, frame, pending, messages, rows, forwarded>>
    BY <1>4, <2>1 DEF SendClose, pumpVars, bufferVars, dbVars
  <2>3. \A i \in Carried' : i \in Carried /\ channel'[i] = channel[i]
    BY <2>2, Enqueued DEF Carried
  <2> QED BY <2>2, <2>3
<1>5. CASE AwaitResult \/ Crash \/ UNCHANGED vars
  BY <1>1, <1>5, Zenon DEF AwaitResult, Crash, vars, pumpVars, bufferVars, dbVars, writerVars
<1>6. CASE RecvFirst \/ RecvMore
  <2>1. Collect /\ UNCHANGED <<pc, frame, messages, rows, forwarded>>
    BY <1>6, Zenon DEF RecvFirst, RecvMore, CollectFrame, pumpVars, dbVars
  <2>2. \A i \in Carried' : channel'[i].msg \in forwarded
    BY <2>1, Taken
  <2>3. pending' \subseteq forwarded
    BY <2>1, Taken
  <2> QED BY <2>1, <2>2, <2>3
<1>7. CASE StopCollecting \/ StopReleasing \/ FreeReservation
  BY <1>1, <1>7, Zenon DEF StopCollecting, StopReleasing, FreeReservation, pumpVars,
                           bufferVars, dbVars
<1>8. CASE ReleaseNext
  <2>1. PICK m \in pending :
          /\ pending' = pending \ {m}
          /\ messages' = messages \cup {[msg |-> m, context |-> ObserveContext(tracker, m)]}
    BY <1>8, Zenon DEF ReleaseNext
  <2>2. UNCHANGED <<pc, frame, channel, rows, forwarded>>
    BY <1>8, Zenon DEF ReleaseNext, pumpVars, dbVars
  <2> QED BY <2>1, <2>2 DEF Carried
<1>9. CASE CommitChunk \/ ChunkFails
  <2>1. /\ messages' = messages \ Chunk /\ rows' \subseteq rows \cup Chunk
        /\ UNCHANGED <<pc, frame, channel, pending, forwarded>>
    BY <1>9 DEF CommitChunk, ChunkFails, ChunkTried, pumpVars
  <2> QED BY <2>1, ChunkType DEF Carried
<1>10. CASE AccountDrops \/ CloseSession
  BY <1>1, <1>10, Zenon DEF AccountDrops, CloseSession, pumpVars, bufferVars
<1> QED
  BY <1>2, <1>3, <1>4, <1>5, <1>6, <1>7, <1>8, <1>9, <1>10, Zenon
  DEF Next, FinisherStep, WriterStep

\* Relaying, and nothing else, happens while frames are relayed: the session is
\* not closed before the pumps are gone.
LEMMA RelayStep ==
    ASSUME CancelMidForward = FALSE, TypeOK, Control, Honest, [Next]_vars,
           UNCHANGED <<rows, dbDropped, dbClosed>>
    PROVE  [Abstract!LogNext]_(Abstract!logVars)
<1>1. Recorded' = Recorded /\ (dbDropped > 0)' = (dbDropped > 0)
  BY DEF Recorded
<1>2. forwarded \subseteq forwarded'
  BY HonestStep
<1>3. CASE forwarded' = forwarded
  BY <1>1, <1>3 DEF Abstract!logVars
<1>4. CASE dbClosed = FALSE
  BY <1>1, <1>2, <1>4 DEF Abstract!LogNext, Abstract!Relay
<1>5. ASSUME dbClosed # FALSE PROVE forwarded' = forwarded
  <2>1. wpc = "done" /\ closing
    BY <1>5 DEF TypeOK, Control, Accounted, Drained
  <2>2. finisher # "pumping" /\ \A p \in Pumps : pc[p] = "ended"
    BY <2>1 DEF Control, CloseLast
  <2>3. \A p \in Pumps : ~Forward(p)
    BY <2>2 DEF Forward
  <2>4. ~StopPumps
    BY <2>2 DEF StopPumps
  <2> QED
    BY <2>3, <2>4, Zenon
    DEF Next, PumpStep, ReadFrame, PumpEnds, ForwardFails, LoadBudget, CasBudget, TrySend,
        FinisherStep, SendClose, AwaitResult, WriterStep, RecvFirst, RecvMore, CollectFrame,
        StopCollecting, ReleaseNext, StopReleasing, CommitChunk, ChunkFails, ChunkTried,
        FreeReservation, AccountDrops, CloseSession, Crash, vars, pumpVars
<1> QED BY <1>3, <1>4, <1>5

\* Every step of the pipeline is a step of CaptureLog or changes nothing it sees.
LEMMA LogStep ==
    ASSUME CancelMidForward = FALSE, "dropped" \notin StoreFaults,
           TypeOK, Control, Traced, Honest, [Next]_vars
    PROVE  [Abstract!LogNext]_(Abstract!logVars)
<1>1. CASE CommitChunk
  <2>1. /\ wpc = "write" /\ rows' = rows \cup Chunk /\ UNCHANGED <<forwarded, dbDropped, dbClosed>>
    BY <1>1 DEF CommitChunk, ChunkTried, pumpVars
  <2>2. ~dbClosed
    BY <2>1 DEF Control, Accounted
  <2>3. Recorded \subseteq Recorded' /\ Recorded' \subseteq forwarded
    BY <2>1, ChunkType DEF Recorded, Honest
  <2>4. Abstract!Store
    BY <2>1, <2>2, <2>3 DEF Abstract!Store
  <2> QED BY <2>4 DEF Abstract!LogNext
<1>2. CASE AccountDrops
  <2>1. wpc = "account" /\ dbDropped' = dbDropped + TotalDropped /\ UNCHANGED <<rows, dbClosed, forwarded>>
    BY <1>2 DEF AccountDrops, pumpVars
  <2>2. ~dbClosed /\ dbDropped = 0 /\ TotalDropped \in Nat /\ Recorded' = Recorded
    BY <2>1 DEF Control, Accounted, TotalDropped, TypeOK, Recorded
  <2>3. CASE TotalDropped = 0
    <3>1. dbDropped' = dbDropped
      BY <2>1, <2>2, <2>3
    <3> QED BY <2>1, <2>2, <3>1 DEF Abstract!logVars
  <2>4. CASE TotalDropped # 0
    <3>1. (dbDropped > 0)' = TRUE
      BY <2>1, <2>2, <2>4
    <3>2. Abstract!Declare
      BY <2>1, <2>2, <3>1 DEF Abstract!Declare
    <3> QED BY <3>2 DEF Abstract!LogNext
  <2> QED BY <2>3, <2>4
<1>3. CASE CloseSession
  <2>1. wpc = "close" /\ UNCHANGED <<rows, dbDropped, forwarded>> /\ Recorded' = Recorded
    BY <1>3 DEF CloseSession, pumpVars, Recorded
  <2>2. CASE dbClosed' = dbClosed
    BY <2>1, <2>2 DEF Abstract!logVars
  <2>3. CASE dbClosed' = TRUE
    <3>1. ~dbClosed /\ closing /\ pending = {} /\ messages = {} /\ dbDropped = TotalDropped
      BY <2>1 DEF Control, Accounted, Drained
    <3>2. /\ channel = <<>> /\ closeDropped = dropped /\ finisher # "pumping"
          /\ \A p \in Pumps : pc[p] = "ended"
      BY <3>1 DEF Control, CloseLast
    <3>3. ASSUME ~(dbDropped > 0), NEW m \in forwarded PROVE m \in Recorded
      <4>1. ~OnItsWay(m)
        BY <3>1, <3>2 DEF OnItsWay
      <4>2. ~(dropped + failed > 0)
        BY <3>1, <3>2, <3>3 DEF TotalDropped, TypeOK
      <4> QED BY <4>1, <4>2 DEF Traced
    <3>4. dbDropped > 0 \/ forwarded \subseteq Recorded
      BY <3>3
    <3>5. Abstract!Close
      BY <2>1, <2>3, <3>1, <3>4 DEF Abstract!Close
    <3> QED BY <3>5 DEF Abstract!LogNext
  <2> QED BY <1>3, <2>2, <2>3 DEF CloseSession
<1>4. CASE UNCHANGED <<rows, dbDropped, dbClosed>>
  BY <1>4, RelayStep
<1>5. CASE vars' = vars
  BY <1>4, <1>5 DEF vars, dbVars
<1>6. ASSUME NEW p \in Pumps, PumpStep(p) PROVE UNCHANGED <<rows, dbDropped, dbClosed>>
  BY <1>6, Zenon DEF PumpStep, ReadFrame, PumpEnds, Forward, ForwardFails, LoadBudget,
                     CasBudget, TrySend, dbVars
<1>7. CASE StopPumps \/ FinisherStep \/ Crash
  <2>1. UNCHANGED <<rows, dbDropped, dbClosed>>
    BY <1>7, Zenon DEF StopPumps, FinisherStep, SendClose, AwaitResult, Crash, dbVars
  <2> QED BY <1>4, <2>1
<1>8. CASE RecvFirst \/ RecvMore \/ StopCollecting \/ ReleaseNext \/ StopReleasing \/ ChunkFails
           \/ FreeReservation
  <2>1. UNCHANGED <<rows, dbDropped, dbClosed>>
    BY <1>8, Zenon DEF RecvFirst, RecvMore, CollectFrame, StopCollecting, ReleaseNext, StopReleasing,
                       ChunkFails, ChunkTried, FreeReservation, dbVars
  <2> QED BY <1>4, <2>1
<1> QED BY <1>1, <1>2, <1>3, <1>4, <1>5, <1>6, <1>7, <1>8, Zenon DEF Next, WriterStep

\* The pipeline implements CaptureLog: it stores only what was relayed, never
\* touches a closed session, and closes one without a declared loss only when it
\* holds everything.
THEOREM PipelineIsACaptureLog ==
    ASSUME CancelMidForward = FALSE, "dropped" \notin StoreFaults
    PROVE  Spec => ImplementsCaptureLog
<1>1. Init => Abstract!LogInit /\ Traced /\ Honest
  <2> SUFFICES ASSUME Init PROVE Abstract!LogInit /\ Traced /\ Honest
    OBVIOUS
  <2>1. Recorded = {} /\ ~(dbDropped > 0)
    BY DEF Init, Recorded
  <2>2. Abstract!LogInit
    BY <2>1 DEF Init, Abstract!LogInit
  <2>3. Traced /\ Honest
    BY DEF Init, Traced, Honest, Carried
  <2> QED BY <2>2, <2>3
<1>2. TypeOK /\ Control /\ Traced /\ [Next]_vars => Traced'
  BY TracedStep, Zenon DEF Control
<1>3. TypeOK /\ Honest /\ [Next]_vars => Honest'
  BY HonestStep
<1>4. TypeOK /\ Control /\ Traced /\ Honest /\ [Next]_vars => [Abstract!LogNext]_(Abstract!logVars)
  BY LogStep
<1> QED BY <1>1, <1>2, <1>3, <1>4, TypeCorrect, ControlInvariant, PTL
        DEF Spec, ImplementsCaptureLog, Abstract!LogSpec

-------------------------------------------------------------------------------
(* The order of the rows.                                                    *)

Active(p) == pc[p] \in {"forward", "load", "cas", "send"}

\* No two records on their way have the same number.
Numbered ==
    /\ \A p \in Pumps : Active(p) =>
          /\ frame[p].seq < nextStamp
          /\ \A q \in Pumps \ {p} : Active(q) => frame[q].seq # frame[p].seq
    /\ \A i \in Carried :
          /\ channel[i].msg.seq < nextStamp
          /\ \A p \in Pumps : Active(p) => frame[p].seq # channel[i].msg.seq
          /\ \A j \in Carried \ {i} : channel[j].msg.seq # channel[i].msg.seq
    /\ \A m \in pending :
          /\ m.seq < nextStamp
          /\ \A p \in Pumps : Active(p) => frame[p].seq # m.seq
          /\ \A i \in Carried : channel[i].msg.seq # m.seq
          /\ \A k \in pending \ {m} : k.seq # m.seq

\* Until a loss is noted everything on its way comes after what was released,
\* and what was released after what is stored.
Ahead == ~failure =>
    /\ ~reported /\ nextSeq <= nextStamp
    /\ \A p \in Pumps : Active(p) => nextSeq <= frame[p].seq
    /\ \A i \in Carried : nextSeq <= channel[i].msg.seq
    /\ \A m \in pending : nextSeq <= m.seq
    /\ \A r \in messages \cup rows : r.msg.seq < nextSeq
    /\ \A r \in rows, q \in messages : r.msg.seq < q.msg.seq

OrderInv == Numbered /\ Ahead

LEMMA SeqTypes ==
    ASSUME TypeOK
    PROVE  /\ nextStamp \in Nat /\ nextSeq \in Nat
           /\ \A p \in Pumps : frame[p].seq \in Nat
           /\ \A i \in Carried : channel[i].msg.seq \in Nat
           /\ \A m \in pending : m.seq \in Nat
           /\ \A r \in messages \cup rows : r.msg.seq \in Nat
<1>1. \A p \in Pumps : frame[p].seq \in Nat
  BY DEF TypeOK, Frame
<1>2. \A i \in Carried : channel[i].msg.seq \in Nat
  <2> SUFFICES ASSUME NEW i \in Carried PROVE channel[i].msg.seq \in Nat
    OBVIOUS
  <2>1. channel[i] \in Event /\ channel[i].kind = "message"
    BY DEF TypeOK, Carried
  <2> QED BY <2>1 DEF Event, Frame
<1>3. \A m \in pending : m.seq \in Nat
  BY DEF TypeOK, Frame
<1>4. \A r \in messages \cup rows : r.msg.seq \in Nat
  BY DEF TypeOK, Record, Frame
<1> QED BY <1>1, <1>2, <1>3, <1>4 DEF TypeOK

\* The lowest records of a batch are written first.
LEMMA ChunkLowest ==
    ASSUME TypeOK, Finite, NEW r \in Chunk, NEW q \in messages \ Chunk
    PROVE  r.msg.seq < q.msg.seq
<1>1. r \in messages /\ Cardinality({x \in messages : x.msg.seq < r.msg.seq}) < BatchSize
  BY DEF Chunk
<1>2. ~(Cardinality({x \in messages : x.msg.seq < q.msg.seq}) < BatchSize)
  BY DEF Chunk
<1>3. r.msg.seq \in Nat /\ q.msg.seq \in Nat /\ \A x \in messages : x.msg.seq \in Nat
  BY <1>1, SeqTypes
<1> SUFFICES ASSUME q.msg.seq <= r.msg.seq PROVE FALSE
  BY <1>3
<1>4. PICK A, B : A = {x \in messages : x.msg.seq < q.msg.seq} /\ B = {x \in messages : x.msg.seq < r.msg.seq}
  OBVIOUS
<1>5. A \subseteq B
  BY <1>3, <1>4
<1>6. B \subseteq messages
  BY <1>4
<1>7. IsFiniteSet(B)
  BY <1>6, FS_Subset DEF Finite
<1>8. Cardinality(A) <= Cardinality(B) /\ Cardinality(A) \in Nat /\ Cardinality(B) \in Nat
  BY <1>5, <1>7, FS_Subset, FS_CardinalityType
<1> QED BY <1>1, <1>2, <1>4, <1>8, WriterAssumption

\* Nothing that is numbered moves.
LEMMA OrderSame ==
    ASSUME OrderInv, \A p \in Pumps : Active(p)' => Active(p),
           UNCHANGED <<nextStamp, frame, channel, pending, messages, rows, nextSeq, reported>>,
           ~failure' => ~failure
    PROVE  OrderInv'
<1>1. Carried' = Carried
  BY DEF Carried
<1>2. Numbered'
  BY <1>1 DEF OrderInv, Numbered
<1>3. Ahead'
  BY <1>1 DEF OrderInv, Ahead
<1> QED BY <1>2, <1>3 DEF OrderInv

LEMMA OrderPump ==
    ASSUME TypeOK, OrderInv, NEW p \in Pumps, PumpStep(p)
    PROVE  OrderInv'
<1>1. UNCHANGED <<pending, messages, rows, failure, reported, nextSeq>>
  BY PumpChannel
<1>2. CASE ReadFrame(p)
  <2>1. PICK payload \in Payloads :
          frame' = [frame EXCEPT ![p] =
            [seq |-> nextStamp, dir |-> DirectionOf[p], json |-> payload.json,
             bytes |-> payload.bytes, shape |-> payload.shape, id |-> payload.id]]
    BY <1>2 DEF ReadFrame
  <2>2. frame'[p].seq = nextStamp
    BY <2>1 DEF TypeOK
  <2>3. \A q \in Pumps \ {p} : frame'[q] = frame[q] /\ (Active(q)' <=> Active(q))
    BY <1>2, <2>1 DEF ReadFrame, Active, TypeOK
  <2>4. nextStamp' = nextStamp + 1 /\ channel' = channel /\ Carried' = Carried
    BY <1>2 DEF ReadFrame, Carried
  <2>5. Numbered'
    <3>1. ASSUME NEW q \in Pumps, Active(q)'
          PROVE  frame'[q].seq < nextStamp' /\ \A o \in Pumps \ {q} : Active(o)' => frame'[o].seq # frame'[q].seq
      <4>1. \A o \in Pumps \ {p} : Active(o)' => frame'[o].seq < nextStamp
        BY <2>3 DEF OrderInv, Numbered
      <4>2. CASE q = p
        BY <2>2, <2>4, <4>1, <4>2, SeqTypes
      <4>3. CASE q # p
        <5>1. frame'[q] = frame[q] /\ Active(q) /\ frame[q].seq < nextStamp
          BY <2>3, <3>1, <4>3 DEF OrderInv, Numbered
        <5>2. frame'[q].seq # frame'[p].seq
          BY <2>2, <5>1, SeqTypes
        <5>3. \A o \in Pumps \ {q, p} : Active(o)' => frame'[o].seq # frame'[q].seq
          BY <2>3, <5>1 DEF OrderInv, Numbered
        <5> QED BY <2>4, <5>1, <5>2, <5>3, SeqTypes
      <4> QED BY <4>2, <4>3
    <3>2. ASSUME NEW i \in Carried
          PROVE  /\ channel[i].msg.seq < nextStamp'
                 /\ \A q \in Pumps : Active(q)' => frame'[q].seq # channel[i].msg.seq
      <4>1. channel[i].msg.seq < nextStamp
        BY DEF OrderInv, Numbered
      <4>2. frame'[p].seq # channel[i].msg.seq
        BY <2>2, <4>1, SeqTypes
      <4>3. \A q \in Pumps \ {p} : Active(q)' => frame'[q].seq # channel[i].msg.seq
        BY <2>3 DEF OrderInv, Numbered
      <4> QED BY <2>4, <4>1, <4>2, <4>3, SeqTypes
    <3>3. ASSUME NEW m \in pending
          PROVE  /\ m.seq < nextStamp'
                 /\ \A q \in Pumps : Active(q)' => frame'[q].seq # m.seq
      <4>1. m.seq < nextStamp
        BY DEF OrderInv, Numbered
      <4>2. frame'[p].seq # m.seq
        BY <2>2, <4>1, SeqTypes
      <4>3. \A q \in Pumps \ {p} : Active(q)' => frame'[q].seq # m.seq
        BY <2>3 DEF OrderInv, Numbered
      <4> QED BY <2>4, <4>1, <4>2, <4>3, SeqTypes
    <3> QED BY <1>1, <2>4, <3>1, <3>2, <3>3 DEF OrderInv, Numbered
  <2>6. Ahead'
    <3> SUFFICES ASSUME ~failure PROVE Ahead'
      BY <1>1 DEF Ahead
    <3>1. nextSeq <= nextStamp'
      BY <2>4, SeqTypes DEF OrderInv, Ahead
    <3>2. \A q \in Pumps : Active(q)' => nextSeq <= frame'[q].seq
      BY <2>2, <2>3 DEF OrderInv, Ahead
    <3> QED BY <1>1, <2>4, <3>1, <3>2 DEF OrderInv, Ahead
  <2> QED BY <2>5, <2>6 DEF OrderInv
<1>3. CASE PumpEnds(p) \/ ForwardFails(p) \/ Forward(p) \/ LoadBudget(p) \/ CasBudget(p)
  <2>1. UNCHANGED <<nextStamp, frame, channel>>
    BY <1>3, Zenon DEF PumpEnds, ForwardFails, Forward, LoadBudget, CasBudget
  <2>2. \A q \in Pumps : Active(q)' => Active(q)
    BY <1>3 DEF PumpEnds, ForwardFails, Forward, LoadBudget, CasBudget, Refuse, Reserve, Active, TypeOK
  <2> QED BY <1>1, <2>1, <2>2, OrderSame
<1>4. CASE TrySend(p)
  <2>1. Active(p) /\ ~Active(p)' /\ (\A q \in Pumps \ {p} : Active(q)' <=> Active(q))
        /\ UNCHANGED <<nextStamp, frame>>
    BY <1>4 DEF TrySend, Active, TypeOK
  <2>2. CASE channel' = channel
    <3>1. \A q \in Pumps : Active(q)' => Active(q)
      BY <2>1
    <3> QED BY <1>1, <2>1, <2>2, <3>1, OrderSame
  <2>3. CASE channel' = Append(channel, [kind |-> "message", msg |-> frame[p]])
    <3>1. PICK e : e = [kind |-> "message", msg |-> frame[p]]
      OBVIOUS
    <3>2. PICK last : last = Len(channel) + 1
      OBVIOUS
    <3>3. channel' = Append(channel, e) /\ e.msg = frame[p]
      BY <2>3, <3>1
    <3>4. /\ \A i \in Carried' : i \in Carried \/ i = last
          /\ channel'[last] = e /\ \A i \in Carried : channel'[i] = channel[i] /\ i # last
      <4>1. Carried' \subseteq Carried \cup {last} /\ channel'[last] = e /\ Len(channel) \in Nat
            /\ \A i \in 1 .. Len(channel) : channel'[i] = channel[i]
        BY <3>2, <3>3, Enqueued
      <4>2. \A i \in Carried : i \in 1 .. Len(channel) /\ i # last
        BY <3>2, <4>1 DEF Carried
      <4> QED BY <4>1, <4>2
    <3>a. channel'[last].msg = frame[p]
      BY <3>3, <3>4
    <3>b. /\ frame[p].seq < nextStamp
          /\ \A q \in Pumps : Active(q)' => frame[q].seq # frame[p].seq
          /\ \A i \in Carried : channel'[i].msg.seq # frame[p].seq
          /\ \A m \in pending : m.seq # frame[p].seq
      <4>1. frame[p].seq < nextStamp /\ \A q \in Pumps \ {p} : Active(q) => frame[q].seq # frame[p].seq
        BY <2>1 DEF OrderInv, Numbered
      <4>2. \A i \in Carried : channel[i].msg.seq # frame[p].seq
        BY <2>1 DEF OrderInv, Numbered
      <4>3. \A m \in pending : m.seq # frame[p].seq
        BY <2>1 DEF OrderInv, Numbered
      <4> QED BY <2>1, <3>4, <4>1, <4>2, <4>3
    <3>5. Numbered'
      <4>1. ASSUME NEW i \in Carried'
            PROVE  /\ channel'[i].msg.seq < nextStamp
                   /\ \A q \in Pumps : Active(q)' => frame[q].seq # channel'[i].msg.seq
                   /\ \A m \in pending : m.seq # channel'[i].msg.seq
        <5>1. CASE i = last
          BY <3>a, <3>b, <5>1
        <5>2. CASE i \in Carried
          BY <2>1, <3>4, <5>2 DEF OrderInv, Numbered
        <5> QED BY <3>4, <5>1, <5>2
      <4>2. ASSUME NEW i \in Carried', NEW j \in Carried' \ {i}
            PROVE  channel'[j].msg.seq # channel'[i].msg.seq
        <5>1. CASE i = last
          <6>1. j \in Carried
            BY <3>4, <4>2, <5>1
          <6> QED BY <3>a, <3>b, <5>1, <6>1
        <5>2. CASE i \in Carried /\ j = last
          BY <3>a, <3>b, <5>2
        <5>3. CASE i \in Carried /\ j \in Carried
          BY <3>4, <5>3 DEF OrderInv, Numbered
        <5> QED BY <3>4, <5>1, <5>2, <5>3
      <4>3. ASSUME NEW q \in Pumps, Active(q)'
            PROVE  frame[q].seq < nextStamp /\ \A o \in Pumps \ {q} : Active(o)' => frame[o].seq # frame[q].seq
        BY <2>1, <4>3 DEF OrderInv, Numbered
      <4>4. ASSUME NEW m \in pending
            PROVE  /\ m.seq < nextStamp /\ \A q \in Pumps : Active(q)' => frame[q].seq # m.seq
                   /\ \A k \in pending \ {m} : k.seq # m.seq
        BY <2>1 DEF OrderInv, Numbered
      <4> QED BY <1>1, <2>1, <4>1, <4>2, <4>3, <4>4 DEF Numbered
    <3>6. Ahead'
      <4> SUFFICES ASSUME ~failure PROVE Ahead'
        BY <1>1 DEF Ahead
      <4>1. \A i \in Carried' : nextSeq <= channel'[i].msg.seq
        BY <2>1, <3>3, <3>4 DEF OrderInv, Ahead
      <4>2. \A q \in Pumps : Active(q)' => nextSeq <= frame'[q].seq
        BY <2>1 DEF OrderInv, Ahead
      <4> QED BY <1>1, <2>1, <4>1, <4>2 DEF OrderInv, Ahead
    <3> QED BY <3>5, <3>6 DEF OrderInv
  <2> QED BY <1>4, <2>2, <2>3 DEF TrySend
<1> QED BY <1>2, <1>3, <1>4 DEF PumpStep

LEMMA OrderTaken ==
    ASSUME TypeOK, OrderInv, Collect, UNCHANGED <<nextStamp, pc, frame, messages, rows, failure, reported, nextSeq>>
    PROVE  OrderInv'
<1>1. /\ \A i \in Carried' : i + 1 \in Carried /\ i + 1 # 1 /\ channel'[i] = channel[i + 1]
      /\ \/ 1 \in Carried /\ pending' = pending \cup {channel[1].msg}
         \/ pending' = pending
  BY Taken
<1>2. \A p \in Pumps : Active(p)' <=> Active(p)
  BY DEF Active
<1>3. \A i, j \in Carried' : i # j => i + 1 # j + 1
  BY DEF Carried
<1>4. ASSUME NEW i \in Carried'
      PROVE  /\ channel'[i].msg.seq < nextStamp
             /\ \A p \in Pumps : Active(p) => frame[p].seq # channel'[i].msg.seq
             /\ \A j \in Carried' \ {i} : channel'[j].msg.seq # channel'[i].msg.seq
             /\ \A m \in pending' : channel'[i].msg.seq # m.seq
  <2>1. i + 1 \in Carried /\ i + 1 # 1 /\ channel'[i] = channel[i + 1]
    BY <1>1
  <2>2. \A j \in Carried' \ {i} : j + 1 \in Carried \ {i + 1} /\ channel'[j] = channel[j + 1]
    BY <1>1, <1>3
  <2>3. /\ channel[i + 1].msg.seq < nextStamp
        /\ \A p \in Pumps : Active(p) => frame[p].seq # channel[i + 1].msg.seq
        /\ \A j \in Carried \ {i + 1} : channel[j].msg.seq # channel[i + 1].msg.seq
        /\ \A m \in pending : channel[i + 1].msg.seq # m.seq
    BY <2>1 DEF OrderInv, Numbered
  <2> QED BY <1>1, <2>1, <2>2, <2>3
<1>5. ASSUME NEW m \in pending'
      PROVE  /\ m.seq < nextStamp
             /\ \A p \in Pumps : Active(p) => frame[p].seq # m.seq
             /\ \A k \in pending' \ {m} : k.seq # m.seq
  <2>1. CASE m \in pending /\ pending' = pending
    BY <2>1 DEF OrderInv, Numbered
  <2>2. CASE 1 \in Carried /\ pending' = pending \cup {channel[1].msg}
    <3>1. /\ channel[1].msg.seq < nextStamp
          /\ \A p \in Pumps : Active(p) => frame[p].seq # channel[1].msg.seq
          /\ \A k \in pending : channel[1].msg.seq # k.seq
      BY <2>2 DEF OrderInv, Numbered
    <3>2. CASE m = channel[1].msg
      BY <2>2, <3>1, <3>2
    <3>3. CASE m \in pending
      BY <2>2, <3>1, <3>3 DEF OrderInv, Numbered
    <3> QED BY <2>2, <3>2, <3>3
  <2> QED BY <1>1, <1>5, <2>1, <2>2
<1>6. Numbered'
  <2>1. ASSUME NEW p \in Pumps, Active(p)
        PROVE  frame[p].seq < nextStamp /\ \A q \in Pumps \ {p} : Active(q) => frame[q].seq # frame[p].seq
    BY <2>1 DEF OrderInv, Numbered
  <2> QED BY <1>2, <1>4, <1>5, <2>1 DEF Numbered
<1>7. Ahead'
  <2> SUFFICES ASSUME ~failure PROVE Ahead'
    BY DEF Ahead
  <2>1. \A i \in Carried' : nextSeq <= channel'[i].msg.seq
    BY <1>1 DEF OrderInv, Ahead
  <2>2. \A m \in pending' : nextSeq <= m.seq
    BY <1>1 DEF OrderInv, Ahead
  <2> QED BY <1>2, <2>1, <2>2 DEF OrderInv, Ahead
<1> QED BY <1>6, <1>7 DEF OrderInv

LEMMA OrderReleased ==
    ASSUME TypeOK, Control, OrderInv, ReleaseNext
    PROVE  OrderInv'
<1>1. PICK m \in pending :
          /\ Releasable(m)
          /\ pending' = pending \ {m}
          /\ messages' = messages \cup {[msg |-> m, context |-> ObserveContext(tracker, m)]}
          /\ nextSeq' = IF m.seq + 1 > nextSeq THEN m.seq + 1 ELSE nextSeq
          /\ failure' = (failure \/ LosesContext(m))
          /\ reported' = (reported \/ LosesContext(m))
  BY Zenon DEF ReleaseNext
<1>2. UNCHANGED <<nextStamp, pc, frame, channel, rows, closing>>
  BY DEF ReleaseNext, pumpVars, dbVars
<1>3. Carried' = Carried /\ \A p \in Pumps : Active(p)' <=> Active(p)
  BY <1>2 DEF Carried, Active
<1>4. Numbered'
  BY <1>1, <1>2, <1>3 DEF OrderInv, Numbered
<1>5. ASSUME ~failure' PROVE Ahead'
  <2>1. ~failure /\ ~LosesContext(m)
    BY <1>1, <1>5
  <2>2. ~reported /\ ~reported'
    BY <1>1, <2>1 DEF OrderInv, Ahead
  <2>3. nextSeq <= m.seq /\ m.seq < nextStamp /\ m.seq \in Nat /\ nextSeq \in Nat /\ nextStamp \in Nat
    BY <2>1, SeqTypes DEF OrderInv, Ahead, Numbered
  <2>4. nextSeq' = m.seq + 1
    BY <1>1, <2>3
  <2>5. m.seq = nextSeq \/ closing
    BY <1>1, <2>1, <2>2, <2>3 DEF Releasable, LosesContext
  <2>6. \A k \in pending' : m.seq + 1 <= k.seq
    <3> SUFFICES ASSUME NEW k \in pending \ {m} PROVE m.seq + 1 <= k.seq
      BY <1>1
    <3>1. k.seq # m.seq /\ k.seq \in Nat
      BY SeqTypes DEF OrderInv, Numbered
    <3>2. m.seq <= k.seq
      BY <1>1 DEF Releasable, Earliest
    <3> QED BY <2>3, <3>1, <3>2
  <2>7. \A p \in Pumps : Active(p) => m.seq + 1 <= frame[p].seq
    <3> SUFFICES ASSUME NEW p \in Pumps, Active(p) PROVE m.seq + 1 <= frame[p].seq
      OBVIOUS
    <3>1. ~closing
      BY DEF Control, CloseLast, Active
    <3>2. frame[p].seq # m.seq /\ nextSeq <= frame[p].seq /\ frame[p].seq \in Nat
      BY <2>1, SeqTypes DEF OrderInv, Numbered, Ahead
    <3> QED BY <2>3, <2>5, <3>1, <3>2
  <2>8. \A i \in Carried : m.seq + 1 <= channel[i].msg.seq
    <3> SUFFICES ASSUME NEW i \in Carried PROVE m.seq + 1 <= channel[i].msg.seq
      OBVIOUS
    <3>1. ~closing
      <4>1. channel # <<>>
        BY DEF Carried
      <4> QED BY <4>1 DEF Control, CloseLast
    <3>2. channel[i].msg.seq # m.seq /\ nextSeq <= channel[i].msg.seq /\ channel[i].msg.seq \in Nat
      BY <2>1, SeqTypes DEF OrderInv, Numbered, Ahead
    <3> QED BY <2>3, <2>5, <3>1, <3>2
  <2>9. PICK r : r = [msg |-> m, context |-> ObserveContext(tracker, m)]
    OBVIOUS
  <2>10. messages' = messages \cup {r} /\ r.msg = m
    BY <1>1, <2>9
  <2>11. \A q \in messages' \cup rows : q.msg.seq < m.seq + 1
    <3>1. \A q \in messages \cup rows : q.msg.seq < nextSeq /\ q.msg.seq \in Nat
      BY <2>1, SeqTypes DEF OrderInv, Ahead
    <3> QED BY <2>3, <2>10, <3>1
  <2>12. \A q \in rows, k \in messages' : q.msg.seq < k.msg.seq
    <3>1. \A q \in rows : q.msg.seq < m.seq
      BY <2>1, <2>3, SeqTypes DEF OrderInv, Ahead
    <3> QED BY <2>1, <2>10, <3>1 DEF OrderInv, Ahead
  <2>13. nextSeq' <= nextStamp
    BY <2>3, <2>4
  <2> QED BY <1>2, <1>3, <2>2, <2>4, <2>6, <2>7, <2>8, <2>11, <2>12, <2>13 DEF Ahead
<1> QED BY <1>4, <1>5 DEF OrderInv, Ahead

LEMMA OrderStep ==
    TypeOK /\ Control /\ OrderInv /\ [Next]_vars => OrderInv'
<1> SUFFICES ASSUME TypeOK, Control, OrderInv, [Next]_vars PROVE OrderInv'
  OBVIOUS
<1>1. ASSUME NEW p \in Pumps, PumpStep(p) PROVE OrderInv'
  BY <1>1, OrderPump
<1>2. CASE StopPumps
  <2>1. \A p \in Pumps : Active(p)' => Active(p)
    BY <1>2 DEF StopPumps, Active
  <2>2. UNCHANGED <<nextStamp, frame, channel, pending, messages, rows, nextSeq, reported, failure>>
    BY <1>2 DEF StopPumps, bufferVars, dbVars, writerVars
  <2> QED BY <2>1, <2>2, OrderSame
<1>3. CASE SendClose
  <2>1. PICK e : e = [kind |-> "close", dropped |-> dropped]
    OBVIOUS
  <2>2. /\ channel' = Append(channel, e) /\ e.kind # "message"
        /\ UNCHANGED <<nextStamp, pc, frame, pending, messages, rows, nextSeq, reported, failure>>
    BY <1>3, <2>1 DEF SendClose, pumpVars, bufferVars, dbVars, writerVars
  <2>3. Carried' = Carried /\ \A i \in Carried : channel'[i] = channel[i]
    BY <2>2, Enqueued DEF Carried
  <2>4. \A p \in Pumps : Active(p)' <=> Active(p)
    BY <2>2 DEF Active
  <2>5. UNCHANGED <<nextStamp, frame, pending, messages, rows, nextSeq, reported, failure>>
    BY <2>2
  <2>6. Numbered'
    <3>1. \A p \in Pumps : Active(p)' =>
             /\ frame'[p].seq < nextStamp'
             /\ \A q \in Pumps \ {p} : Active(q)' => frame'[q].seq # frame'[p].seq
      BY <2>4, <2>5 DEF OrderInv, Numbered
    <3>2. \A i \in Carried' :
             /\ channel'[i].msg.seq < nextStamp'
             /\ \A p \in Pumps : Active(p)' => frame'[p].seq # channel'[i].msg.seq
      BY <2>3, <2>4, <2>5 DEF OrderInv, Numbered
    <3>3. \A i \in Carried' : \A j \in Carried' \ {i} : channel'[j].msg.seq # channel'[i].msg.seq
      BY <2>3 DEF OrderInv, Numbered
    <3>4. \A m \in pending' :
             /\ m.seq < nextStamp'
             /\ \A p \in Pumps : Active(p)' => frame'[p].seq # m.seq
             /\ \A i \in Carried' : channel'[i].msg.seq # m.seq
             /\ \A k \in pending' \ {m} : k.seq # m.seq
      BY <2>3, <2>4, <2>5 DEF OrderInv, Numbered
    <3> QED BY <3>1, <3>2, <3>3, <3>4 DEF Numbered
  <2>7. Ahead'
    BY <2>3, <2>4, <2>5 DEF OrderInv, Ahead
  <2> QED BY <2>6, <2>7 DEF OrderInv
<1>4. CASE RecvFirst \/ RecvMore
  <2>1. Collect /\ UNCHANGED <<nextStamp, pc, frame, messages, rows, failure, reported, nextSeq>>
    BY <1>4, Zenon DEF RecvFirst, RecvMore, CollectFrame, pumpVars, dbVars
  <2> QED BY <2>1, OrderTaken
<1>5. CASE ReleaseNext
  BY <1>5, OrderReleased
<1>6. CASE AwaitResult \/ Crash \/ UNCHANGED vars \/ StopCollecting \/ StopReleasing \/ FreeReservation
  <2>1. UNCHANGED <<nextStamp, pc, frame, channel, pending, messages, rows, nextSeq, reported, failure>>
    BY <1>6, Zenon DEF AwaitResult, Crash, vars, StopCollecting, StopReleasing, FreeReservation,
                       pumpVars, bufferVars, dbVars, writerVars
  <2>2. \A p \in Pumps : Active(p)' => Active(p)
    BY <2>1 DEF Active
  <2> QED BY <2>1, <2>2, OrderSame
<1>7. CASE AccountDrops \/ CloseSession
  <2>1. UNCHANGED <<nextStamp, pc, frame, channel, pending, messages, rows, nextSeq, reported>>
    BY <1>7, Zenon DEF AccountDrops, CloseSession, pumpVars, bufferVars
  <2>2. \A p \in Pumps : Active(p)' => Active(p)
    BY <2>1 DEF Active
  <2>3. ~failure' => ~failure
    BY <1>7, Zenon DEF AccountDrops, CloseSession, AccountFailure
  <2> QED BY <2>1, <2>2, <2>3, OrderSame
<1>8. CASE CommitChunk \/ ChunkFails
  <2>1. /\ messages' = messages \ Chunk
        /\ UNCHANGED <<nextStamp, pc, frame, channel, pending, nextSeq, reported>>
    BY <1>8, Zenon DEF CommitChunk, ChunkFails, ChunkTried, pumpVars
  <2>2. Carried' = Carried /\ \A p \in Pumps : Active(p)' <=> Active(p)
    BY <2>1 DEF Carried, Active
  <2>3. Numbered'
    BY <2>1, <2>2 DEF OrderInv, Numbered
  <2>4. CASE ChunkFails
    <3>1. failure' = TRUE
      BY <2>4, Zenon DEF ChunkFails
    <3> QED BY <2>3, <3>1 DEF OrderInv, Ahead
  <2>5. CASE CommitChunk
    <3>1. rows' = rows \cup Chunk /\ failure' = failure
      BY <2>5, Zenon DEF CommitChunk
    <3>2. \A r \in Chunk, q \in messages \ Chunk : r.msg.seq < q.msg.seq
      BY ChunkLowest DEF Control
    <3>3. ASSUME ~failure PROVE \A r \in rows', q \in messages' : r.msg.seq < q.msg.seq
      BY <2>1, <3>1, <3>2, <3>3 DEF OrderInv, Ahead
    <3>4. messages' \cup rows' = messages \cup rows
      BY <2>1, <3>1, ChunkType
    <3>5. Ahead'
      BY <2>1, <2>2, <3>1, <3>3, <3>4 DEF OrderInv, Ahead
    <3> QED BY <2>3, <3>5 DEF OrderInv
  <2> QED BY <1>8, <2>4, <2>5
<1> QED
  BY <1>1, <1>2, <1>3, <1>4, <1>5, <1>6, <1>7, <1>8, Zenon DEF Next, FinisherStep, WriterStep

\* The order invariant, which later theorems use again.
THEOREM NumbersStayApart == Spec => []OrderInv
<1>1. Init => OrderInv
  BY DEF Init, OrderInv, Numbered, Ahead, Active, Carried
<1> QED BY <1>1, OrderStep, TypeCorrect, ControlInvariant, PTL DEF Spec

\* Rows are committed in capture order for as long as no loss was noted, however
\* the pumps, the channel and the reorder buffer shuffle the records.
THEOREM RowsAreInOrder == Spec => InOrderUntilLoss
<1>1. TypeOK /\ OrderInv /\ [Next]_vars
        => [\A r \in rows' \ rows : (\E q \in rows : q.msg.seq > r.msg.seq) => failure]_vars
  <2> SUFFICES ASSUME TypeOK, OrderInv, [Next]_vars, NEW r \in rows' \ rows, NEW q \in rows,
                      q.msg.seq > r.msg.seq, ~failure
               PROVE  FALSE
    BY Zenon
  <2>1. CASE CommitChunk
    <3>1. r \in messages
      BY <2>1, ChunkType DEF CommitChunk
    <3>2. q.msg.seq < r.msg.seq
      BY <3>1 DEF OrderInv, Ahead
    <3>3. q.msg.seq \in Nat /\ r.msg.seq \in Nat
      BY <3>1, SeqTypes
    <3> QED BY <3>2, <3>3
  <2>2. CASE ~CommitChunk
    <3>1. rows' = rows
      BY <2>2, Zenon DEF Next, PumpStep, ReadFrame, PumpEnds, Forward, ForwardFails, LoadBudget, CasBudget,
        TrySend, FinisherStep, SendClose, AwaitResult, StopPumps, WriterStep, RecvFirst, RecvMore, CollectFrame,
        StopCollecting, ReleaseNext, StopReleasing, ChunkFails, FreeReservation, AccountDrops, CloseSession,
        Crash, vars, dbVars
    <3> QED BY <3>1
  <2> QED BY <2>1, <2>2
<1> QED BY <1>1, NumbersStayApart, TypeCorrect, PTL DEF Spec, InOrderUntilLoss

-------------------------------------------------------------------------------
(* The byte budget: sums over finite sets of records.                        *)

ByteSum(S) == MapThenSumSet(LAMBDA m : m.bytes, S)

Picked(S) == CHOOSE m \in S : TRUE

\* g adds up the bytes of every subset of S in the domain, one picked record after another.
Sums(g, D) == \A s \in D : g[s] = IF s = {} THEN 0 ELSE Picked(s).bytes + g[s \ {Picked(s)}]

Adds(g, D) == g \in [D -> Int] /\ Sums(g, D)

LEMMA SumExists ==
    ASSUME NEW S, IsFiniteSet(S), \A m \in S : m.bytes \in Int
    PROVE  \E g : Adds(g, SUBSET S)
<1> DEFINE Upto(n) == {s \in SUBSET S : Cardinality(s) <= n}
           Missing == {n \in Nat : ~ \E g : Adds(g, Upto(n))}
<1>1. ASSUME NEW s \in SUBSET S
      PROVE  /\ IsFiniteSet(s) /\ Cardinality(s) \in Nat /\ Cardinality(s) <= Cardinality(S)
             /\ s # {} => /\ Picked(s) \in s
                          /\ s \ {Picked(s)} \in SUBSET S
                          /\ Cardinality(s \ {Picked(s)}) = Cardinality(s) - 1
  <2>1. IsFiniteSet(s) /\ Cardinality(s) \in Nat /\ Cardinality(s) <= Cardinality(S)
    BY FS_Subset, FS_CardinalityType
  <2>2. s # {} => Picked(s) \in s
    BY DEF Picked
  <2> QED BY <2>1, <2>2, FS_RemoveElement
<1>2. Missing = {}
  <2> SUFFICES ASSUME Missing # {} PROVE FALSE
    OBVIOUS
  <2>1. PICK n \in Missing : \A k \in Missing : n <= k
    <3> HIDE DEF Missing
    <3>1. Missing \in SUBSET Nat
      BY DEF Missing
    <3> QED BY <3>1, LeastNumber
  <2>2. n # 0
    <3> SUFFICES ASSUME n = 0 PROVE FALSE
      OBVIOUS
    <3> DEFINE g == [s \in Upto(0) |-> 0]
    <3>1. \A s \in Upto(0) : s = {}
      <4> SUFFICES ASSUME NEW s \in Upto(0) PROVE s = {}
        OBVIOUS
      <4>1. s \in SUBSET S /\ Cardinality(s) <= 0
        OBVIOUS
      <4>2. IsFiniteSet(s) /\ Cardinality(s) \in Nat
        BY <1>1, <4>1
      <4>3. Cardinality(s) = 0
        BY <4>1, <4>2
      <4> QED BY <4>2, <4>3, FS_EmptySet
    <3>2. g \in [Upto(0) -> Int] /\ \A s \in Upto(0) : g[s] = 0
      OBVIOUS
    <3>3. Adds(g, Upto(0))
      <4> HIDE DEF g, Upto
      <4> QED BY <3>1, <3>2 DEF Adds, Sums
    <3>4. n \in Missing /\ n = 0
      OBVIOUS
    <3> QED BY <3>3, <3>4
  <2>3. n - 1 \in Nat /\ n - 1 \notin Missing
    <3>1. n \in Nat
      OBVIOUS
    <3>2. n - 1 \in Nat /\ ~(n <= n - 1)
      BY <2>2, <3>1
    <3> HIDE DEF Missing
    <3> QED BY <2>1, <3>2
  <2>4. PICK h : Adds(h, Upto(n - 1))
    BY <2>3
  <2> DEFINE g == [s \in Upto(n) |-> IF s = {} THEN 0 ELSE Picked(s).bytes + h[s \ {Picked(s)}]]
  <2>5. ASSUME NEW s \in Upto(n), s # {}
        PROVE  s \ {Picked(s)} \in Upto(n - 1) /\ Picked(s).bytes \in Int
    BY <1>1, <2>5
  <2>6. ASSUME NEW s \in Upto(n - 1)
        PROVE  s \in Upto(n) /\ h[s] = g[s]
    <3>1. s \in Upto(n)
      <4>1. s \in SUBSET S /\ Cardinality(s) <= n - 1 /\ Cardinality(s) \in Nat /\ n \in Nat
        BY <1>1
      <4>2. Cardinality(s) <= n
        BY <4>1
      <4> QED BY <4>1, <4>2
    <3> QED BY <2>4, <3>1 DEF Adds, Sums
  <2>7. Adds(g, Upto(n))
    <3> HIDE DEF Upto
    <3>1. \A s \in Upto(n) : g[s] \in Int
      <4> SUFFICES ASSUME NEW s \in Upto(n) PROVE g[s] \in Int
        OBVIOUS
      <4>1. s # {} => h[s \ {Picked(s)}] \in Int /\ Picked(s).bytes \in Int
        BY <2>4, <2>5 DEF Adds, Sums
      <4>2. g[s] = IF s = {} THEN 0 ELSE Picked(s).bytes + h[s \ {Picked(s)}]
        OBVIOUS
      <4> HIDE DEF g
      <4> QED BY <4>1, <4>2
    <3>2. g \in [Upto(n) -> Int]
      BY <3>1
    <3>3. \A s \in Upto(n) : s # {} => g[s \ {Picked(s)}] = h[s \ {Picked(s)}]
      BY <2>5, <2>6
    <3> QED BY <3>2, <3>3 DEF Adds, Sums
  <2> QED BY <2>7
<1>3. Cardinality(S) \in Nat /\ Upto(Cardinality(S)) = SUBSET S
  BY <1>1
<1> QED BY <1>2, <1>3

\* Two functions that add up the same sets agree.
LEMMA SumUnique ==
    ASSUME NEW S, IsFiniteSet(S), NEW g, NEW h,
           Sums(g, SUBSET S), Sums(h, SUBSET S)
    PROVE  \A s \in SUBSET S : g[s] = h[s]
<1> DEFINE Sizes == {Cardinality(s) : s \in {x \in SUBSET S : g[x] # h[x]}}
<1> SUFFICES ASSUME NEW x \in SUBSET S, g[x] # h[x] PROVE FALSE
  OBVIOUS
<1>1. Sizes \in SUBSET Nat /\ Sizes # {}
  BY FS_Subset, FS_CardinalityType
<1>2. PICK s \in SUBSET S : g[s] # h[s] /\ \A y \in SUBSET S : g[y] # h[y] => Cardinality(s) <= Cardinality(y)
  <2>1. PICK n \in Sizes : \A k \in Sizes : n <= k
    <3> HIDE DEF Sizes
    <3> QED BY <1>1, LeastNumber
  <2> QED BY <2>1
<1>3. s # {}
  BY <1>2 DEF Sums
<1>4. Picked(s) \in s
  BY <1>3 DEF Picked
<1>5. s \ {Picked(s)} \in SUBSET S /\ Cardinality(s \ {Picked(s)}) = Cardinality(s) - 1 /\ Cardinality(s) \in Nat
  BY <1>4, FS_Subset, FS_RemoveElement, FS_CardinalityType
<1>6. g[s \ {Picked(s)}] = h[s \ {Picked(s)}]
  BY <1>2, <1>5
<1> QED BY <1>2, <1>3, <1>6 DEF Sums

\* MapThenSumSet adds up, whatever is picked first.
LEMMA SumAdds ==
    ASSUME NEW S, IsFiniteSet(S), \A m \in S : m.bytes \in Int
    PROVE  \E g : Adds(g, SUBSET S) /\ \A T \in SUBSET S : ByteSum(T) = g[T]
<1> DEFINE Satisfies(T, g) == g = [s \in SUBSET T |-> IF s = {} THEN 0 ELSE Picked(s).bytes + g[s \ {Picked(s)}]]
<1>1. \A T : ByteSum(T) = (CHOOSE g : Satisfies(T, g))[T]
  BY DEF ByteSum, MapThenSumSet, MapThenFoldSet, Picked
<1>2. PICK h : Adds(h, SUBSET S)
  BY SumExists
<1>3. ASSUME NEW T \in SUBSET S PROVE ByteSum(T) = h[T]
  <2>1. IsFiniteSet(T) /\ \A m \in T : m.bytes \in Int
    BY FS_Subset
  <2>2. PICK g : Adds(g, SUBSET T)
    BY <2>1, SumExists
  <2>3. Satisfies(T, g)
    BY <2>2 DEF Adds, Sums
  <2>4. PICK c : c = CHOOSE f : Satisfies(T, f)
    OBVIOUS
  <2>5. Satisfies(T, c)
    BY <2>3, <2>4
  <2>6. Sums(c, SUBSET T)
    BY <2>5 DEF Sums
  <2>7. Sums(h, SUBSET T)
    BY <1>2 DEF Adds, Sums
  <2>8. c[T] = h[T]
    <3> HIDE DEF Satisfies
    <3>1. \A s \in SUBSET T : c[s] = h[s]
      BY <2>1, <2>6, <2>7, SumUnique
    <3> QED BY <3>1
  <2> HIDE DEF Satisfies
  <2> QED BY <1>1, <2>4, <2>8
<1> QED BY <1>2, <1>3

\* Taking a record out takes its bytes off the sum.
LEMMA SumWithout ==
    ASSUME NEW S, IsFiniteSet(S), \A m \in S : m.bytes \in Int, NEW x \in S
    PROVE  ByteSum(S) = x.bytes + ByteSum(S \ {x}) /\ ByteSum(S \ {x}) \in Int
<1>1. PICK g : Adds(g, SUBSET S) /\ \A T \in SUBSET S : ByteSum(T) = g[T]
  BY SumAdds
<1> DEFINE Bad == {s \in SUBSET S : \E y \in s : g[s] # y.bytes + g[s \ {y}]}
           Sizes == {Cardinality(s) : s \in Bad}
<1>2. Bad = {}
  <2> SUFFICES ASSUME Bad # {} PROVE FALSE
    OBVIOUS
  <2>1. Sizes \in SUBSET Nat /\ Sizes # {}
    <3>1. \A s \in SUBSET S : Cardinality(s) \in Nat
      BY FS_Subset, FS_CardinalityType
    <3>2. Bad \subseteq SUBSET S
      OBVIOUS
    <3> HIDE DEF Bad
    <3> QED BY <3>1, <3>2
  <2>2. PICK s \in Bad : \A t \in Bad : Cardinality(s) <= Cardinality(t)
    <3>1. PICK n \in Sizes : \A k \in Sizes : n <= k
      <4> HIDE DEF Sizes
      <4> QED BY <2>1, LeastNumber
    <3> QED BY <3>1
  <2>3. PICK y \in s : g[s] # y.bytes + g[s \ {y}]
    OBVIOUS
  <2>4. PICK z : z = Picked(s)
    OBVIOUS
  <2>5. z \in s /\ g[s] = z.bytes + g[s \ {z}]
    BY <1>1, <2>4 DEF Adds, Sums, Picked
  <2>6. z # y
    BY <2>3, <2>5
  <2>7. /\ \A t \in SUBSET S : IsFiniteSet(t) /\ Cardinality(t) \in Nat
        /\ Cardinality(s \ {z}) = Cardinality(s) - 1 /\ Cardinality(s \ {y}) = Cardinality(s) - 1
    BY <2>5, FS_Subset, FS_RemoveElement, FS_CardinalityType
  <2>8. s \ {z} \in SUBSET S /\ s \ {y} \in SUBSET S /\ s \ {z} \notin Bad /\ s \ {y} \notin Bad
    <3>1. s \in SUBSET S
      OBVIOUS
    <3> HIDE DEF Bad
    <3> QED BY <2>2, <2>7, <3>1
  <2>9. g[s \ {z}] = y.bytes + g[(s \ {z}) \ {y}] /\ g[s \ {y}] = z.bytes + g[(s \ {y}) \ {z}]
    BY <2>5, <2>6, <2>8
  <2>10. PICK r : r = (s \ {z}) \ {y} /\ r = (s \ {y}) \ {z} /\ r \in SUBSET S
    <3>1. (s \ {z}) \ {y} = (s \ {y}) \ {z} /\ (s \ {z}) \ {y} \in SUBSET S
      BY <2>8
    <3> QED BY <3>1
  <2>11. g[r] \in Int /\ y.bytes \in Int /\ z.bytes \in Int
    BY <1>1, <2>5, <2>10 DEF Adds, Sums
  <2>12. /\ g[s] = z.bytes + g[s \ {z}] /\ g[s \ {z}] = y.bytes + g[r]
         /\ g[s \ {y}] = z.bytes + g[r] /\ g[s] # y.bytes + g[s \ {y}]
    <3> HIDE DEF Bad
    <3> QED BY <2>3, <2>5, <2>9, <2>10
  <2> HIDE DEF Bad
  <2> QED BY <2>11, <2>12
<1>3. g[S] = x.bytes + g[S \ {x}]
  BY <1>2
<1>4. S \in SUBSET S /\ S \ {x} \in SUBSET S
  OBVIOUS
<1>5. g[S \ {x}] \in Int
  BY <1>1, <1>4 DEF Adds, Sums
<1> HIDE DEF Bad
<1> QED BY <1>1, <1>3, <1>4, <1>5

LEMMA SumNothing == ByteSum({}) = 0
<1>1. PICK g : Adds(g, SUBSET {}) /\ \A T \in SUBSET {} : ByteSum(T) = g[T]
  BY SumAdds, FS_EmptySet
<1> QED BY <1>1 DEF Adds, Sums

\* Adding one adds its bytes.
LEMMA SumWith ==
    ASSUME NEW S, IsFiniteSet(S), \A m \in S : m.bytes \in Int, NEW x, x \notin S, x.bytes \in Int
    PROVE  ByteSum(S \cup {x}) = x.bytes + ByteSum(S)
<1>1. IsFiniteSet(S \cup {x}) /\ (S \cup {x}) \ {x} = S
  BY FS_AddElement
<1> QED BY <1>1, SumWithout

\* Frames that are not yet released, in a pump, the channel or the buffer.
Moving ==
    {frame[p] : p \in {q \in Pumps : Active(q)}} \cup {channel[i].msg : i \in Carried} \cup pending

\* The batch and the written records are numbered apart from each other and
\* from everything that is still moving.
Distinct ==
    /\ \A r \in messages \cup spent :
         /\ r.msg.seq < nextStamp
         /\ \A m \in Moving : m.seq # r.msg.seq
         /\ \A q \in messages \cup spent : q.msg.seq = r.msg.seq => q = r
    /\ messages \cap spent = {}

\* What moves is moved on or newly stamped.
LEMMA MovingStep ==
    ASSUME TypeOK, [Next]_vars
    PROVE  /\ nextStamp' \in {nextStamp, nextStamp + 1}
           /\ \A m \in Moving' : m \in Moving \/ (m.seq = nextStamp /\ nextStamp' = nextStamp + 1)
<1>1. ASSUME UNCHANGED <<nextStamp, frame, channel, pending>>, \A p \in Pumps : Active(p)' => Active(p)
      PROVE  nextStamp' = nextStamp /\ Moving' \subseteq Moving
  BY <1>1 DEF Moving, Carried
<1>2. ASSUME NEW p \in Pumps, ReadFrame(p)
      PROVE  nextStamp' = nextStamp + 1 /\ \A m \in Moving' : m \in Moving \/ m.seq = nextStamp
  <2>1. /\ frame'[p].seq = nextStamp /\ UNCHANGED <<channel, pending>> /\ nextStamp' = nextStamp + 1
        /\ \A q \in Pumps \ {p} : frame'[q] = frame[q] /\ (Active(q)' <=> Active(q))
    BY <1>2 DEF ReadFrame, Active, TypeOK, bufferVars
  <2> QED BY <2>1 DEF Moving, Carried
<1>3. ASSUME NEW p \in Pumps, PumpEnds(p) \/ ForwardFails(p) \/ Forward(p) \/ LoadBudget(p) \/ CasBudget(p)
      PROVE  nextStamp' = nextStamp /\ Moving' \subseteq Moving
  <2>1. UNCHANGED <<nextStamp, frame, channel, pending>>
    BY <1>3, Zenon DEF PumpEnds, ForwardFails, Forward, LoadBudget, CasBudget, bufferVars
  <2>2. \A q \in Pumps : Active(q)' => Active(q)
    BY <1>3 DEF PumpEnds, ForwardFails, Forward, LoadBudget, CasBudget, Refuse, Reserve, Active, TypeOK
  <2> QED BY <1>1, <2>1, <2>2
<1>4. ASSUME NEW p \in Pumps, TrySend(p)
      PROVE  nextStamp' = nextStamp /\ Moving' \subseteq Moving
  <2>1. UNCHANGED <<nextStamp, frame, pending>> /\ Active(p)
    BY <1>4 DEF TrySend, bufferVars, Active
  <2>2. \A q \in Pumps : Active(q)' => Active(q)
    BY <1>4 DEF TrySend, Active, TypeOK
  <2>3. CASE channel' = channel
    BY <1>1, <2>1, <2>2, <2>3
  <2>4. CASE channel' = Append(channel, [kind |-> "message", msg |-> frame[p]])
    <3>1. PICK e : e = [kind |-> "message", msg |-> frame[p]]
      OBVIOUS
    <3>2. \A i \in Carried' : (i \in Carried /\ channel'[i] = channel[i]) \/ channel'[i] = e
      BY <2>4, <3>1, Enqueued DEF Carried
    <3>3. \A i \in Carried' : channel'[i].msg \in Moving
      BY <2>1, <3>1, <3>2 DEF Moving
    <3> QED BY <2>1, <2>2, <3>3 DEF Moving
  <2> QED BY <1>4, <2>3, <2>4 DEF TrySend
<1>5. CASE SendClose
  <2>1. PICK e : e = [kind |-> "close", dropped |-> dropped]
    OBVIOUS
  <2>2. channel' = Append(channel, e) /\ e.kind # "message" /\ UNCHANGED <<nextStamp, pc, frame, pending>>
    BY <1>5, <2>1 DEF SendClose, pumpVars, bufferVars
  <2>3. \A i \in Carried' : i \in Carried /\ channel'[i] = channel[i]
    BY <2>2, Enqueued DEF Carried
  <2> QED BY <2>2, <2>3 DEF Moving, Active
<1>6. CASE RecvFirst \/ RecvMore
  <2>1. Collect /\ UNCHANGED <<nextStamp, pc, frame>>
    BY <1>6, Zenon DEF RecvFirst, RecvMore, CollectFrame, pumpVars
  <2>2. /\ \A i \in Carried' : channel'[i].msg \in {channel[k].msg : k \in Carried}
        /\ pending' \subseteq pending \cup {channel[k].msg : k \in Carried}
    BY <2>1, Taken
  <2> QED BY <2>1, <2>2 DEF Moving, Active
<1>7. CASE ReleaseNext
  <2>1. UNCHANGED <<nextStamp, pc, frame, channel>> /\ pending' \subseteq pending
    BY <1>7 DEF ReleaseNext, pumpVars
  <2> QED BY <2>1 DEF Moving, Active, Carried
<1>8. CASE StopPumps
  <2>1. UNCHANGED <<nextStamp, frame, channel, pending>> /\ \A p \in Pumps : Active(p)' => Active(p)
    BY <1>8 DEF StopPumps, bufferVars, Active
  <2> QED BY <1>1, <2>1
<1>9. CASE AwaitResult \/ StopCollecting \/ StopReleasing \/ CommitChunk \/ ChunkFails \/ FreeReservation
           \/ AccountDrops \/ CloseSession \/ Crash \/ UNCHANGED vars
  <2>1. UNCHANGED <<nextStamp, pc, frame, channel, pending>>
    BY <1>9, Zenon DEF AwaitResult, StopCollecting, StopReleasing, CommitChunk, ChunkFails, ChunkTried,
                       FreeReservation, AccountDrops, CloseSession, Crash, vars, pumpVars, bufferVars
  <2> QED BY <1>1, <2>1 DEF Active
<1> QED
  BY <1>2, <1>3, <1>4, <1>5, <1>6, <1>7, <1>8, <1>9, Zenon DEF Next, PumpStep, FinisherStep, WriterStep

LEMMA HeldType ==
    ASSUME TypeOK
    PROVE  /\ \A r \in messages \cup spent : r.msg \in Frame /\ r.msg.seq \in Nat /\ r.msg.bytes \in Nat
           /\ \A m \in Moving : m \in Frame /\ m.seq \in Nat /\ m.bytes \in Nat
<1>1. \A r \in messages \cup spent : r.msg \in Frame
  BY DEF TypeOK, Record
<1>2. \A i \in Carried : channel[i].msg \in Frame
  <2> SUFFICES ASSUME NEW i \in Carried PROVE channel[i].msg \in Frame
    OBVIOUS
  <2>1. channel[i] \in Event /\ channel[i].kind = "message"
    BY DEF TypeOK, Carried
  <2> QED BY <2>1 DEF Event
<1>3. \A m \in Moving : m \in Frame
  BY <1>2 DEF TypeOK, Moving
<1>4. \A m \in Frame : m.seq \in Nat /\ m.bytes \in Nat
  BY DEF Frame
<1> QED BY <1>1, <1>3, <1>4

\* A released record takes the number its frame had.
LEMMA DistinctRelease ==
    ASSUME TypeOK, Numbered, Distinct, ReleaseNext
    PROVE  Distinct'
<1>1. PICK m \in pending :
          /\ pending' = pending \ {m}
          /\ messages' = messages \cup {[msg |-> m, context |-> ObserveContext(tracker, m)]}
  BY Zenon DEF ReleaseNext
<1>2. PICK new : new = [msg |-> m, context |-> ObserveContext(tracker, m)]
  OBVIOUS
<1>3. messages' = messages \cup {new} /\ new.msg = m
  BY <1>1, <1>2
<1>4. UNCHANGED <<nextStamp, pc, frame, channel, spent>>
  BY DEF ReleaseNext, pumpVars
<1>5. m \in Moving /\ Moving' \subseteq Moving
  BY <1>1, <1>4 DEF Moving, Active, Carried
<1>6. m.seq < nextStamp
  BY DEF Numbered
<1>7. \A k \in Moving' : k.seq # m.seq
  BY <1>1, <1>4 DEF Numbered, Moving, Active, Carried
<1>8. \A r \in messages \cup spent : r.msg.seq # m.seq
  BY <1>5 DEF Distinct
<1>9. new \notin spent
  BY <1>3, <1>8
<1>10. \A r \in messages' \cup spent' :
          /\ r.msg.seq < nextStamp'
          /\ \A k \in Moving' : k.seq # r.msg.seq
          /\ \A q \in messages' \cup spent' : q.msg.seq = r.msg.seq => q = r
  <2> SUFFICES ASSUME NEW r \in messages \cup spent \cup {new}
               PROVE  /\ r.msg.seq < nextStamp
                      /\ \A k \in Moving' : k.seq # r.msg.seq
                      /\ \A q \in messages \cup spent \cup {new} : q.msg.seq = r.msg.seq => q = r
    BY <1>3, <1>4
  <2>1. CASE r = new
    BY <1>3, <1>6, <1>7, <1>8, <2>1
  <2>2. CASE r \in messages \cup spent
    BY <1>3, <1>5, <1>8, <2>2 DEF Distinct
  <2> QED BY <2>1, <2>2
<1>11. messages' \cap spent' = {}
  BY <1>3, <1>4, <1>9 DEF Distinct
<1> QED BY <1>10, <1>11 DEF Distinct

LEMMA DistinctStep ==
    TypeOK /\ Numbered /\ Distinct /\ [Next]_vars => Distinct'
<1> SUFFICES ASSUME TypeOK, Numbered, Distinct, [Next]_vars PROVE Distinct'
  OBVIOUS
<1>1. ASSUME messages' \cup spent' \subseteq messages \cup spent, messages' \cap spent' = {}
      PROVE  Distinct'
  <2> SUFFICES ASSUME NEW r \in messages' \cup spent'
               PROVE  /\ r.msg.seq < nextStamp'
                      /\ \A m \in Moving' : m.seq # r.msg.seq
                      /\ \A q \in messages' \cup spent' : q.msg.seq = r.msg.seq => q = r
    BY <1>1 DEF Distinct
  <2>1. /\ r.msg.seq < nextStamp /\ r.msg.seq \in Nat /\ nextStamp \in Nat
        /\ \A m \in Moving : m.seq # r.msg.seq
        /\ \A q \in messages \cup spent : q.msg.seq = r.msg.seq => q = r
    BY <1>1, HeldType DEF Distinct, TypeOK
  <2>2. nextStamp' \in {nextStamp, nextStamp + 1}
        /\ \A m \in Moving' : m \in Moving \/ m.seq = nextStamp
    BY MovingStep
  <2>3. r.msg.seq < nextStamp' /\ r.msg.seq # nextStamp
    BY <2>1, <2>2
  <2> QED BY <1>1, <2>1, <2>2, <2>3
<1>2. CASE UNCHANGED <<messages, spent>>
  BY <1>1, <1>2 DEF Distinct
<1>3. ASSUME NEW p \in Pumps, PumpStep(p) PROVE Distinct'
  BY <1>2, <1>3, Zenon DEF PumpStep, ReadFrame, PumpEnds, Forward, ForwardFails, LoadBudget, CasBudget, TrySend,
                           bufferVars
<1>4. CASE ReleaseNext
  BY <1>4, DistinctRelease
<1>5. CASE CommitChunk \/ ChunkFails
  <2>1. messages' = messages \ Chunk /\ spent' = spent \cup Chunk
    BY <1>5, Zenon DEF CommitChunk, ChunkFails, ChunkTried
  <2>2. messages' \cup spent' \subseteq messages \cup spent /\ messages' \cap spent' = {}
    BY <2>1, ChunkType DEF Distinct
  <2> QED BY <1>1, <2>2
<1>6. CASE FreeReservation
  <2>1. messages' = messages /\ spent' \subseteq spent
    BY <1>6 DEF FreeReservation
  <2>2. messages' \cup spent' \subseteq messages \cup spent /\ messages' \cap spent' = {}
    BY <2>1 DEF Distinct
  <2> QED BY <1>1, <2>2
<1>7. CASE StopPumps \/ SendClose \/ AwaitResult \/ RecvFirst \/ RecvMore \/ StopCollecting \/ StopReleasing
           \/ AccountDrops \/ CloseSession \/ Crash \/ UNCHANGED vars
  BY <1>2, <1>7, Zenon DEF StopPumps, SendClose, AwaitResult, RecvFirst, RecvMore, CollectFrame, StopCollecting,
                           StopReleasing, AccountDrops, CloseSession, Crash, vars, bufferVars
<1> QED
  BY <1>3, <1>4, <1>5, <1>6, <1>7, Zenon DEF Next, FinisherStep, WriterStep

-------------------------------------------------------------------------------
(* The counter is the sum of the reservations.                               *)

Sending  == {frame[p] : p \in {q \in Pumps : pc[q] = "send"}}
Carrying == {channel[i].msg : i \in Carried}
Held     == {r.msg : r \in messages \cup spent}

LEMMA ReservedParts == TypeOK => Reserved = Sending \cup Carrying \cup pending \cup Held
BY DEF Reserved, Sending, Carrying, Held, Carried, TypeOK

LEMMA ReservedPartsNext == TypeOK' => Reserved' = (Sending \cup Carrying \cup pending \cup Held)'
BY DEF Reserved, Sending, Carrying, Held, Carried, TypeOK

LEMMA ReservedType == TypeOK => \A m \in Reserved : m \in Frame /\ m.bytes \in Int
<1> SUFFICES ASSUME TypeOK PROVE \A m \in Reserved : m \in Frame /\ m.bytes \in Int
  OBVIOUS
<1>1. Reserved \subseteq Moving \cup Held
  BY ReservedParts DEF Moving, Sending, Carrying, Held, Active
<1> QED BY <1>1, HeldType DEF Held

ExactInv == IsFiniteSet(Reserved) /\ queuedBytes = ByteSum(Reserved)

LEMMA ExactWith ==
    ASSUME TypeOK, ExactInv, NEW x \in Frame, x \notin Reserved, Reserved' = Reserved \cup {x},
           queuedBytes' = queuedBytes + x.bytes
    PROVE  ExactInv'
<1>1. \A m \in Reserved : m.bytes \in Int
  BY ReservedType
<1>2. IsFiniteSet(Reserved') /\ ByteSum(Reserved') = x.bytes + ByteSum(Reserved)
  BY <1>1, SumWith, FS_AddElement DEF ExactInv, Frame
<1>3. x.bytes \in Int /\ queuedBytes \in Int
  BY DEF TypeOK, Frame
<1> QED BY <1>2, <1>3 DEF ExactInv

LEMMA ExactWithout ==
    ASSUME TypeOK, ExactInv, NEW x \in Frame, x \in Reserved, Reserved' = Reserved \ {x},
           queuedBytes' = queuedBytes - x.bytes
    PROVE  ExactInv'
<1>1. \A m \in Reserved : m.bytes \in Int
  BY ReservedType
<1>2. IsFiniteSet(Reserved') /\ ByteSum(Reserved) = x.bytes + ByteSum(Reserved') /\ ByteSum(Reserved') \in Int
  BY <1>1, SumWithout, FS_RemoveElement DEF ExactInv
<1>3. x.bytes \in Int /\ queuedBytes \in Int
  BY DEF TypeOK, Frame
<1> QED BY <1>2, <1>3 DEF ExactInv

\* Steps that move reservations from one owner to the next, or none at all.
LEMMA ExactSame ==
    ASSUME ExactInv, Reserved' = Reserved, queuedBytes' = queuedBytes PROVE ExactInv'
BY DEF ExactInv

\* The frame of a pump that sends or is about to reserve has no other owner.
LEMMA OneOwner ==
    ASSUME TypeOK, Numbered, Distinct, NEW p \in Pumps, Active(p)
    PROVE  /\ frame[p] \notin {frame[q] : q \in {o \in Pumps \ {p} : pc[o] = "send"}}
           /\ frame[p] \notin Carrying \cup pending \cup Held
<1>1. \A q \in Pumps \ {p} : pc[q] = "send" => frame[q].seq # frame[p].seq
  BY DEF Numbered, Active
<1>2. \A i \in Carried : frame[p].seq # channel[i].msg.seq
  BY DEF Numbered
<1>3. \A m \in pending : frame[p].seq # m.seq
  BY DEF Numbered
<1>4. frame[p] \in Moving
  BY DEF Moving
<1>5. \A r \in messages \cup spent : frame[p].seq # r.msg.seq
  BY <1>4 DEF Distinct
<1> QED BY <1>1, <1>2, <1>3, <1>5 DEF Carrying, Held

LEMMA ExactPump ==
    ASSUME TypeOK, TypeOK', Numbered, Distinct, ExactInv, NEW p \in Pumps, PumpStep(p)
    PROVE  ExactInv'
<1>1. UNCHANGED <<pending, messages, spent>> /\ Held' = Held
  BY Zenon DEF PumpStep, ReadFrame, PumpEnds, Forward, ForwardFails, LoadBudget, CasBudget, TrySend,
               bufferVars, Held
<1>2. \A q \in Pumps \ {p} : frame'[q] = frame[q] /\ pc'[q] = pc[q]
  BY DEF PumpStep, ReadFrame, PumpEnds, Forward, ForwardFails, LoadBudget, CasBudget, TrySend, Refuse, Reserve,
         TypeOK
<1>3. ASSUME pc[p] # "send", pc'[p] # "send", UNCHANGED <<channel, queuedBytes>>
      PROVE  ExactInv'
  <2>1. Sending' = Sending
    BY <1>2, <1>3 DEF Sending
  <2>2. Carrying' = Carrying
    BY <1>3 DEF Carrying, Carried
  <2> QED BY <1>1, <1>3, <2>1, <2>2, ReservedParts, ReservedPartsNext, ExactSame
<1>4. CASE ReadFrame(p) \/ PumpEnds(p) \/ ForwardFails(p) \/ Forward(p) \/ LoadBudget(p)
  BY <1>3, <1>4 DEF ReadFrame, PumpEnds, ForwardFails, Forward, LoadBudget, Refuse, TypeOK
<1>5. CASE CasBudget(p)
  <2>1. CASE Reserve(p)
    <3>1. /\ pc[p] = "cas" /\ pc'[p] = "send" /\ UNCHANGED <<frame, channel>>
          /\ queuedBytes' = queuedBytes + frame[p].bytes
      BY <1>5, <2>1 DEF CasBudget, Reserve, TypeOK
    <3>2. Sending' = Sending \cup {frame[p]}
      BY <1>2, <3>1 DEF Sending
    <3>3. Carrying' = Carrying
      BY <3>1 DEF Carrying, Carried
    <3>4. frame[p] \notin Sending \cup Carrying \cup pending \cup Held
      BY <3>1, OneOwner DEF Active, Sending
    <3>5. Reserved' = Reserved \cup {frame[p]} /\ frame[p] \notin Reserved
      BY <1>1, <3>2, <3>3, <3>4, ReservedParts, ReservedPartsNext
    <3> QED BY <3>1, <3>5, ExactWith DEF TypeOK
  <2>2. CASE ~Reserve(p)
    <3>1. pc[p] # "send" /\ pc'[p] # "send" /\ UNCHANGED <<channel, queuedBytes>>
      BY <1>5, <2>2 DEF CasBudget, Refuse, TypeOK
    <3> QED BY <1>3, <3>1
  <2> QED BY <2>1, <2>2
<1>6. CASE TrySend(p)
  <2>1. /\ pc[p] = "send" /\ pc'[p] = "idle" /\ UNCHANGED frame
        /\ \/ channel' = Append(channel, [kind |-> "message", msg |-> frame[p]]) /\ queuedBytes' = queuedBytes
           \/ channel' = channel /\ queuedBytes' = queuedBytes - frame[p].bytes
    BY <1>6 DEF TrySend, SendFull, TypeOK
  <2>2. Sending' = Sending \ {frame[p]} /\ frame[p] \in Sending
    BY <1>2, <2>1, OneOwner DEF Sending, Active
  <2>3. CASE channel' = Append(channel, [kind |-> "message", msg |-> frame[p]]) /\ queuedBytes' = queuedBytes
    <3>1. PICK e : e = [kind |-> "message", msg |-> frame[p]]
      OBVIOUS
    <3>2. channel' = Append(channel, e) /\ e.msg = frame[p] /\ e.kind = "message"
      BY <2>3, <3>1
    <3>3. PICK last : last = Len(channel) + 1
      OBVIOUS
    <3>4. Carried' = Carried \cup {last} /\ channel'[last] = e /\ \A i \in Carried : channel'[i] = channel[i]
      <4>1. /\ Carried \subseteq Carried' /\ Carried' \subseteq Carried \cup {last} /\ channel'[last] = e
            /\ \A i \in 1 .. Len(channel) : channel'[i] = channel[i]
        BY <3>2, <3>3, Enqueued
      <4>2. last \in 1 .. Len(channel')
        BY <3>2, <3>3 DEF TypeOK
      <4>3. last \in Carried'
        BY <3>2, <4>1, <4>2 DEF Carried
      <4> QED BY <4>1, <4>3 DEF Carried
    <3>5. Carrying' = Carrying \cup {frame[p]}
      <4> HIDE DEF Carried
      <4>1. \A m : m \in Carrying' <=> \E i \in Carried' : m = channel'[i].msg
        BY DEF Carrying
      <4>2. \A m : m \in Carrying <=> \E i \in Carried : m = channel[i].msg
        BY DEF Carrying
      <4>3. \A m \in Carrying' : m \in Carrying \/ m = frame[p]
        BY <3>2, <3>4, <4>1, <4>2
      <4>4. frame[p] \in Carrying'
        BY <3>2, <3>4, <4>1
      <4>5. \A m \in Carrying : m \in Carrying'
        <5>1. \A i \in Carried : i \in Carried' /\ channel'[i].msg = channel[i].msg
          BY <3>4
        <5> QED BY <4>1, <4>2, <5>1
      <4> QED BY <4>3, <4>4, <4>5
    <3>6. Reserved' = Reserved
      BY <1>1, <2>2, <3>5, ReservedParts, ReservedPartsNext
    <3> QED BY <2>3, <3>6, ExactSame
  <2>4. CASE channel' = channel /\ queuedBytes' = queuedBytes - frame[p].bytes
    <3>1. Carrying' = Carrying
      BY <2>4 DEF Carrying, Carried
    <3>2. frame[p] \notin Carrying \cup pending \cup Held
      BY <2>1, OneOwner DEF Active
    <3>3. Reserved' = Reserved \ {frame[p]} /\ frame[p] \in Reserved
      BY <1>1, <2>2, <3>1, <3>2, ReservedParts, ReservedPartsNext
    <3> QED BY <2>4, <3>3, ExactWithout DEF TypeOK
  <2> QED BY <2>1, <2>3, <2>4
<1> QED BY <1>4, <1>5, <1>6 DEF PumpStep

\* Taking the head of the channel moves its reservation to the buffer.
LEMMA ExactTaken ==
    ASSUME TypeOK, TypeOK', ExactInv, Collect, UNCHANGED <<pc, frame, messages, spent, queuedBytes>>
    PROVE  ExactInv'
<1>1. /\ channel # <<>> /\ channel \in Seq(Event) /\ Len(channel) > 0 /\ Len(channel) \in Nat
      /\ Len(channel') = Len(channel) - 1
      /\ \A i \in 1..Len(channel') : channel'[i] = channel[i + 1]
      /\ Head(channel) = channel[1]
  BY DEF Collect, TypeOK
<1>2. \A i \in Carried : i # 1 => i - 1 \in Carried' /\ channel'[i - 1] = channel[i]
  BY <1>1 DEF Carried
<1>3. \A i \in Carried' : i + 1 \in Carried /\ channel'[i] = channel[i + 1]
  BY Taken
<1>4. \/ 1 \in Carried /\ pending' = pending \cup {channel[1].msg}
      \/ 1 \notin Carried /\ pending' = pending
  BY <1>1 DEF Collect, Carried
<1>5. Carrying' \cup pending' = Carrying \cup pending
  <2>1. \A m : m \in Carrying' <=> \E i \in Carried' : m = channel'[i].msg
    BY DEF Carrying
  <2>2. \A m : m \in Carrying <=> \E i \in Carried : m = channel[i].msg
    BY DEF Carrying
  <2>3. \A m \in Carrying : m \in Carrying' \/ m \in pending'
    BY <1>2, <1>4, <2>1, <2>2
  <2>4. \A m \in Carrying' : m \in Carrying
    BY <1>3, <2>1, <2>2
  <2>5. pending \subseteq pending' /\ pending' \subseteq Carrying \cup pending
    BY <1>4, <2>2
  <2> QED BY <2>3, <2>4, <2>5
<1>6. Sending' = Sending /\ Held' = Held
  BY DEF Sending, Held
<1> QED BY <1>5, <1>6, ReservedParts, ReservedPartsNext, ExactSame

LEMMA ExactStep ==
    TypeOK /\ TypeOK' /\ Numbered /\ Distinct /\ ExactInv /\ [Next]_vars => ExactInv'
<1> SUFFICES ASSUME TypeOK, TypeOK', Numbered, Distinct, ExactInv, [Next]_vars PROVE ExactInv'
  OBVIOUS
<1>1. ASSUME UNCHANGED <<pc, frame, channel, pending, queuedBytes>>, Held' = Held PROVE ExactInv'
  <2>1. Sending' = Sending /\ Carrying' = Carrying
    BY <1>1 DEF Sending, Carrying, Carried
  <2> QED BY <1>1, <2>1, ReservedParts, ReservedPartsNext, ExactSame
<1>2. ASSUME NEW p \in Pumps, PumpStep(p) PROVE ExactInv'
  BY <1>2, ExactPump
<1>3. CASE StopPumps
  <2>1. /\ \A p \in Pumps : pc[p] # "send" /\ pc'[p] # "send"
        /\ UNCHANGED <<channel, pending, messages, spent, queuedBytes>>
    BY <1>3 DEF StopPumps, bufferVars
  <2>2. Sending' = Sending /\ Carrying' = Carrying /\ Held' = Held
    BY <2>1 DEF Sending, Carrying, Carried, Held
  <2> QED BY <2>1, <2>2, ReservedParts, ReservedPartsNext, ExactSame
<1>4. CASE SendClose
  <2>1. PICK e : e = [kind |-> "close", dropped |-> dropped]
    OBVIOUS
  <2>2. /\ channel' = Append(channel, e) /\ e.kind # "message"
        /\ UNCHANGED <<pc, frame, pending, messages, spent, queuedBytes>>
    BY <1>4, <2>1 DEF SendClose, pumpVars, bufferVars
  <2>3. Carried' = Carried /\ \A i \in Carried : channel'[i] = channel[i]
    BY <2>2, Enqueued DEF Carried
  <2>4. Carrying' = Carrying
    <3> HIDE DEF Carried
    <3> QED BY <2>3 DEF Carrying
  <2>5. Sending' = Sending /\ Held' = Held
    BY <2>2 DEF Sending, Held
  <2> QED BY <2>2, <2>4, <2>5, ReservedParts, ReservedPartsNext, ExactSame
<1>5. CASE RecvFirst \/ RecvMore
  <2>1. Collect /\ UNCHANGED <<pc, frame, messages, spent, queuedBytes>>
    BY <1>5, Zenon DEF RecvFirst, RecvMore, CollectFrame, pumpVars
  <2> QED BY <2>1, ExactTaken
<1>6. CASE ReleaseNext
  <2>1. PICK m \in pending :
          /\ pending' = pending \ {m}
          /\ messages' = messages \cup {[msg |-> m, context |-> ObserveContext(tracker, m)]}
    BY <1>6, Zenon DEF ReleaseNext
  <2>2. UNCHANGED <<pc, frame, channel, spent, queuedBytes>>
    BY <1>6 DEF ReleaseNext, pumpVars
  <2>3. Held' = Held \cup {m}
    <3>1. PICK new : new = [msg |-> m, context |-> ObserveContext(tracker, m)]
      OBVIOUS
    <3>2. messages' = messages \cup {new} /\ new.msg = m
      BY <2>1, <3>1
    <3> QED BY <2>2, <3>2 DEF Held
  <2>4. Sending' = Sending /\ Carrying' = Carrying
    BY <2>2 DEF Sending, Carrying, Carried
  <2> QED BY <2>1, <2>2, <2>3, <2>4, ReservedParts, ReservedPartsNext, ExactSame
<1>7. CASE CommitChunk \/ ChunkFails
  <2>1. /\ messages' = messages \ Chunk /\ spent' = spent \cup Chunk
        /\ UNCHANGED <<pc, frame, channel, pending, queuedBytes>>
    BY <1>7, Zenon DEF CommitChunk, ChunkFails, ChunkTried, pumpVars
  <2>2. messages' \cup spent' = messages \cup spent
    BY <2>1, ChunkType
  <2> QED BY <1>1, <2>1, <2>2 DEF Held
<1>8. CASE FreeReservation
  <2>1. PICK r \in spent : spent' = spent \ {r} /\ queuedBytes' = queuedBytes - r.msg.bytes
    BY <1>8, Zenon DEF FreeReservation
  <2>2. UNCHANGED <<pc, frame, channel, pending, messages>>
    BY <1>8 DEF FreeReservation, pumpVars
  <2>3. \A q \in messages \cup spent : q.msg = r.msg => q = r
    BY DEF Distinct
  <2>4. r \notin messages
    BY DEF Distinct
  <2>5. Held' = Held \ {r.msg} /\ r.msg \in Held
    BY <2>1, <2>2, <2>3, <2>4 DEF Held
  <2>6. r.msg \notin Sending \cup Carrying \cup pending
    <3>1. Sending \cup Carrying \cup pending \subseteq Moving
      BY DEF Sending, Carrying, Moving, Active
    <3>2. r.msg \notin Moving
      BY DEF Distinct
    <3> QED BY <3>1, <3>2
  <2>7. Sending' = Sending /\ Carrying' = Carrying
    BY <2>2 DEF Sending, Carrying, Carried
  <2>8. Reserved' = Reserved \ {r.msg} /\ r.msg \in Reserved
    BY <2>2, <2>5, <2>6, <2>7, ReservedParts, ReservedPartsNext
  <2>9. r.msg \in Frame
    BY HeldType
  <2> QED BY <2>1, <2>8, <2>9, ExactWithout
<1>9. CASE AwaitResult \/ StopCollecting \/ StopReleasing \/ AccountDrops \/ CloseSession \/ Crash \/ UNCHANGED vars
  <2>1. UNCHANGED <<pc, frame, channel, pending, messages, spent, queuedBytes>>
    BY <1>9, Zenon DEF AwaitResult, StopCollecting, StopReleasing, AccountDrops, CloseSession, Crash, vars,
                       pumpVars, bufferVars
  <2> QED BY <1>1, <2>1 DEF Held
<1> QED
  BY <1>2, <1>3, <1>4, <1>5, <1>6, <1>7, <1>8, <1>9, Zenon DEF Next, FinisherStep, WriterStep

\* At every moment the lock-free counter is the sum of the reservations that
\* something still owns: none leaks when a record is refused, dropped, released,
\* written or rolled back, and none is returned twice.
THEOREM BudgetIsExact == Spec => []BudgetExact
<1>1. Init => Distinct /\ ExactInv
  <2> SUFFICES ASSUME Init PROVE Distinct /\ ExactInv
    OBVIOUS
  <2>1. Reserved = {} /\ messages = {} /\ spent = {} /\ queuedBytes = 0
    BY DEF Init, Reserved
  <2>2. ByteSum({}) = 0
    BY SumNothing
  <2> QED BY <2>1, <2>2, FS_EmptySet DEF Distinct, ExactInv
<1>2. TypeOK /\ OrderInv /\ Distinct /\ [Next]_vars => Distinct'
  BY DistinctStep DEF OrderInv
<1>3. TypeOK /\ TypeOK' /\ OrderInv /\ Distinct /\ ExactInv /\ [Next]_vars => ExactInv'
  BY ExactStep DEF OrderInv
<1>4. ExactInv => BudgetExact
  BY DEF ExactInv, BudgetExact, ByteSum
<1> QED BY <1>1, <1>2, <1>3, <1>4, TypeCorrect, NumbersStayApart, PTL DEF Spec

-------------------------------------------------------------------------------
(* The writer and every reader of an accepted session observe alike.         *)

\* A failure the writer remembers is one that a reader of the row can see.
LossCounted ==
    failure => \/ failed > 0
               \/ wpc \in {"close", "done"} /\ TotalDropped > 0
               \/ wpc = "done" /\ ~dbClosed

\* Every transaction tries at least one record.
LEMMA ChunkNotEmpty ==
    ASSUME TypeOK, Finite, messages # {}
    PROVE  IsFiniteSet(Chunk) /\ Cardinality(Chunk) \in Nat /\ Cardinality(Chunk) > 0
<1> DEFINE S == {r.msg : r \in messages}
<1>1. S \in SUBSET Frame /\ S # {}
  BY DEF TypeOK, Record
<1>2. PICK m \in S : \A other \in S : m.seq <= other.seq
  <2> HIDE DEF S
  <2> QED BY <1>1, EarliestExists
<1>3. PICK r \in messages : r.msg = m
  OBVIOUS
<1>4. \A q \in messages : r.msg.seq <= q.msg.seq /\ q.msg.seq \in Nat /\ r.msg.seq \in Nat
  BY <1>2, <1>3, SeqTypes
<1>5. {q \in messages : q.msg.seq < r.msg.seq} = {}
  BY <1>4
<1>6. Cardinality({q \in messages : q.msg.seq < r.msg.seq}) = 0
  BY <1>5, FS_EmptySet
<1>7. r \in Chunk
  BY <1>6, WriterAssumption DEF Chunk
<1>8. IsFiniteSet(Chunk)
  BY ChunkType, FS_Subset DEF Finite
<1>9. Chunk # {} /\ Cardinality(Chunk) \in Nat
  BY <1>7, <1>8, FS_CardinalityType
<1> QED BY <1>8, <1>9, FS_EmptySet

LEMMA LossCountedStep == TypeOK /\ Control /\ LossCounted /\ [Next]_vars => LossCounted'
<1> SUFFICES ASSUME TypeOK, Control, LossCounted, [Next]_vars PROVE LossCounted'
  OBVIOUS
<1>1. CASE UNCHANGED <<wpc, closeDropped, failed, failure, dbClosed>>
  BY <1>1 DEF LossCounted, TotalDropped
<1>2. ASSUME NEW p \in Pumps, PumpStep(p) PROVE LossCounted'
  BY <1>1, <1>2, Zenon DEF PumpStep, ReadFrame, PumpEnds, Forward, ForwardFails, LoadBudget, CasBudget, TrySend,
                           writerVars, dbVars
<1>3. CASE StopPumps \/ FinisherStep \/ Crash \/ UNCHANGED vars
  BY <1>1, <1>3, Zenon DEF StopPumps, FinisherStep, SendClose, AwaitResult, Crash, vars, writerVars, dbVars
<1>4. ASSUME wpc \notin {"close", "done"}, UNCHANGED <<failed, failure>> PROVE LossCounted'
  BY <1>4 DEF LossCounted
<1>5. CASE RecvFirst \/ RecvMore \/ StopCollecting \/ StopReleasing \/ CommitChunk \/ FreeReservation
  <2>1. wpc \notin {"close", "done"} /\ UNCHANGED <<failed, failure>>
    BY <1>5 DEF RecvFirst, RecvMore, CollectFrame, StopCollecting, StopReleasing, CommitChunk, ChunkTried,
                FreeReservation
  <2> QED BY <1>4, <2>1
<1>6. CASE ReleaseNext
  <2>1. PICK m \in pending :
           /\ failed' = IF LosesContext(m) THEN failed + 1 ELSE failed
           /\ failure' = (failure \/ LosesContext(m))
    BY <1>6, Zenon DEF ReleaseNext
  <2>2. wpc = "release" /\ failed \in Nat
    BY <1>6 DEF ReleaseNext, TypeOK
  <2>3. CASE LosesContext(m)
    <3>1. failed' > 0
      BY <2>1, <2>2, <2>3
    <3> QED BY <3>1 DEF LossCounted
  <2>4. CASE ~LosesContext(m)
    <3>1. failed' = failed
      BY <2>1, <2>4
    <3>2. failure' => failure
      BY <2>1, <2>4, Zenon
    <3>3. failure => failed > 0
      BY <2>2, Zenon DEF LossCounted
    <3> QED BY <3>1, <3>2, <3>3 DEF LossCounted
  <2> QED BY <2>3, <2>4
<1>7. CASE ChunkFails
  <2>1. failed' = failed + Cardinality(Chunk) /\ messages # {} /\ failed \in Nat
    BY <1>7 DEF ChunkFails, ChunkTried, CountChunk, TypeOK
  <2>2. failed' > 0
    BY <2>1, ChunkNotEmpty DEF Control
  <2> QED BY <2>2 DEF LossCounted
<1>8. CASE AccountDrops
  <2>1. /\ wpc = "account" /\ wpc' = "close" /\ UNCHANGED <<closeDropped, failed>>
        /\ failure' = (failure \/ TotalDropped > 0)
    BY <1>8, Zenon DEF AccountDrops, AccountFailure
  <2>2. TotalDropped' = TotalDropped
    BY <2>1 DEF TotalDropped
  <2> QED BY <2>1, <2>2 DEF LossCounted
<1>9. CASE CloseSession
  <2>1. /\ wpc = "close" /\ wpc' = "done" /\ UNCHANGED <<closeDropped, failed>>
        /\ \/ failure' = failure
           \/ failure' = TRUE /\ dbClosed' = dbClosed
    BY <1>9, Zenon DEF CloseSession
  <2>2. ~dbClosed /\ TotalDropped' = TotalDropped
    BY <2>1 DEF Control, Accounted, TotalDropped
  <2> QED BY <2>1, <2>2 DEF LossCounted
<1> QED
  BY <1>2, <1>3, <1>5, <1>6, <1>7, <1>8, <1>9, Zenon DEF Next, WriterStep

\* The stamps are bounded by the bound on frames.
LEMMA StampBounded == TypeOK /\ nextStamp <= MaxFrames /\ [Next]_vars => (nextStamp <= MaxFrames)'
<1> SUFFICES ASSUME TypeOK, nextStamp <= MaxFrames, [Next]_vars PROVE nextStamp' <= MaxFrames
  OBVIOUS
<1>1. nextStamp \in Nat /\ MaxFrames \in Nat
  BY WriterAssumption DEF TypeOK
<1>2. ASSUME NEW p \in Pumps, ReadFrame(p) PROVE nextStamp' <= MaxFrames
  <2>1. nextStamp < MaxFrames /\ nextStamp' = nextStamp + 1
    BY <1>2 DEF ReadFrame
  <2> QED BY <1>1, <2>1
<1>3. CASE nextStamp' = nextStamp
  BY <1>3
<1>4. ASSUME NEW p \in Pumps, PumpStep(p) PROVE nextStamp' <= MaxFrames
  BY <1>2, <1>3, <1>4, Zenon DEF PumpStep, PumpEnds, Forward, ForwardFails, LoadBudget, CasBudget, TrySend
<1>5. CASE StopPumps \/ FinisherStep \/ Crash \/ UNCHANGED vars
  BY <1>3, <1>5, Zenon DEF StopPumps, FinisherStep, SendClose, AwaitResult, Crash, vars, pumpVars
<1>6. CASE WriterStep
  BY <1>3, <1>6, Zenon DEF WriterStep, RecvFirst, RecvMore, CollectFrame, StopCollecting, ReleaseNext,
        StopReleasing, CommitChunk, ChunkFails, ChunkTried, FreeReservation, AccountDrops, CloseSession, pumpVars
<1> QED BY <1>4, <1>5, <1>6, Zenon DEF Next

\* What has left the reorder buffer and was not rolled back.
Released == messages \cup rows

\* t[n] is the tracker of an observer that has seen the records numbered below n.
Observes(t, last, S) ==
    /\ t[0] = EmptyTracker
    /\ \A m \in S : t[m.seq + 1] = ObserveTracker(t[m.seq], m)
    /\ \A n \in 0 .. last - 1 : (\A m \in S : m.seq # n) => t[n + 1] = t[n]

\* The contexts an observer of the released records would have granted.
Grants(t) == \A r \in Released : r.context = ObserveContext(t[r.msg.seq], r.msg)

\* Until a loss is noted the writer is such an observer.
Told == ~failure =>
    /\ \A r, q \in Released : r.msg.seq = q.msg.seq => r = q
    /\ \E t : Observes(t, nextSeq, {r.msg : r \in Released}) /\ t[nextSeq] = tracker /\ Grants(t)

LEMMA ToldRelease ==
    ASSUME TypeOK, OrderInv, Told, ReleaseNext
    PROVE  Told'
<1>1. PICK m \in pending :
          /\ messages' = messages \cup {[msg |-> m, context |-> ObserveContext(tracker, m)]}
          /\ nextSeq' = IF m.seq + 1 > nextSeq THEN m.seq + 1 ELSE nextSeq
          /\ tracker' = ObserveTracker(tracker, m)
          /\ failure' = (failure \/ LosesContext(m))
  BY Zenon DEF ReleaseNext
<1> SUFFICES ASSUME ~failure' PROVE Told'
  BY DEF Told
<1>2. ~failure
  BY <1>1
<1>3. rows' = rows
  BY DEF ReleaseNext, dbVars
<1>4. PICK new : new = [msg |-> m, context |-> ObserveContext(tracker, m)]
  OBVIOUS
<1>5. /\ Released' = Released \cup {new}
      /\ new.msg = m /\ new.context = ObserveContext(tracker, m)
  BY <1>1, <1>3, <1>4 DEF Released
<1>6. m.seq \in Nat /\ nextSeq \in Nat /\ nextSeq <= m.seq
  BY <1>2, SeqTypes DEF OrderInv, Ahead
<1>7. nextSeq' = m.seq + 1
  BY <1>1, <1>6
<1>8. \A r \in Released : r.msg.seq \in Nat /\ r.msg.seq < nextSeq /\ r.msg.seq < m.seq
  <2>1. \A r \in Released : r.msg.seq \in Nat /\ r.msg.seq < nextSeq
    BY <1>2, SeqTypes DEF OrderInv, Ahead, Released
  <2> QED BY <1>6, <2>1
<1>9. PICK t : Observes(t, nextSeq, {r.msg : r \in Released}) /\ t[nextSeq] = tracker /\ Grants(t)
  BY <1>2 DEF Told
<1>10. PICK u : u = [n \in 0 .. m.seq + 1 |->
                       IF n <= nextSeq /\ n <= m.seq THEN t[n] ELSE IF n <= m.seq THEN tracker ELSE tracker']
  OBVIOUS
<1>11. /\ \A n \in 0 .. nextSeq : u[n] = t[n]
       /\ \A n \in nextSeq .. m.seq : u[n] = tracker
       /\ u[m.seq + 1] = tracker'
  <2>1. \A n \in 0 .. nextSeq : u[n] = t[n]
    BY <1>6, <1>10
  <2>2. \A n \in nextSeq .. m.seq : u[n] = tracker
    BY <1>6, <1>9, <1>10
  <2>3. u[m.seq + 1] = tracker'
    <3>1. m.seq + 1 \in 0 .. m.seq + 1 /\ ~(m.seq + 1 <= m.seq)
      BY <1>6
    <3> QED BY <1>10, <3>1
  <2> QED BY <2>1, <2>2, <2>3
<1>12. Observes(u, nextSeq', {r.msg : r \in Released'})
  <2>1. u[0] = EmptyTracker
    BY <1>6, <1>9, <1>11 DEF Observes
  <2>2. \A r \in Released : u[r.msg.seq + 1] = ObserveTracker(u[r.msg.seq], r.msg)
    <3> SUFFICES ASSUME NEW r \in Released PROVE u[r.msg.seq + 1] = ObserveTracker(u[r.msg.seq], r.msg)
      OBVIOUS
    <3>1. r.msg.seq \in 0 .. nextSeq /\ r.msg.seq + 1 \in 0 .. nextSeq
      BY <1>6, <1>8
    <3>2. t[r.msg.seq + 1] = ObserveTracker(t[r.msg.seq], r.msg)
      BY <1>9 DEF Observes
    <3> QED BY <1>11, <3>1, <3>2
  <2>3. u[m.seq + 1] = ObserveTracker(u[m.seq], m)
    <3>1. m.seq \in nextSeq .. m.seq
      BY <1>6
    <3> QED BY <1>1, <1>11, <3>1
  <2>4. ASSUME NEW n \in 0 .. nextSeq' - 1, \A k \in {r.msg : r \in Released'} : k.seq # n
        PROVE  u[n + 1] = u[n]
    <3>1. n # m.seq /\ n \in Nat /\ n < m.seq
      BY <1>5, <1>6, <1>7, <2>4
    <3>2. CASE n < nextSeq
      <4>1. \A r \in Released : r.msg.seq # n
        BY <1>5, <2>4
      <4>2. t[n + 1] = t[n]
        BY <1>6, <1>9, <3>1, <3>2, <4>1 DEF Observes
      <4> QED BY <1>6, <1>11, <3>1, <3>2, <4>2
    <3>3. CASE ~(n < nextSeq)
      <4>1. n \in nextSeq .. m.seq /\ n + 1 \in nextSeq .. m.seq
        BY <1>6, <3>1, <3>3
      <4> QED BY <1>11, <4>1
    <3> QED BY <3>2, <3>3
  <2>5. \A k \in {r.msg : r \in Released'} : u[k.seq + 1] = ObserveTracker(u[k.seq], k)
    BY <1>5, <2>2, <2>3
  <2> QED BY <2>1, <2>4, <2>5 DEF Observes
<1>13. u[nextSeq'] = tracker'
  BY <1>7, <1>11
<1>14. Grants(u)'
  <2>1. \A r \in Released : r.context = ObserveContext(u[r.msg.seq], r.msg)
    <3> SUFFICES ASSUME NEW r \in Released PROVE r.context = ObserveContext(u[r.msg.seq], r.msg)
      OBVIOUS
    <3>1. r.msg.seq \in 0 .. nextSeq
      BY <1>6, <1>8
    <3>2. r.context = ObserveContext(t[r.msg.seq], r.msg)
      BY <1>9 DEF Grants
    <3> QED BY <1>11, <3>1, <3>2
  <2>2. new.context = ObserveContext(u[new.msg.seq], new.msg)
    <3>1. m.seq \in nextSeq .. m.seq
      BY <1>6
    <3> QED BY <1>5, <1>11, <3>1
  <2> QED BY <1>5, <2>1, <2>2 DEF Grants
<1>15. \A r, q \in Released' : r.msg.seq = q.msg.seq => r = q
  <2>1. \A r \in Released : r.msg.seq # m.seq
    BY <1>6, <1>8
  <2> QED BY <1>2, <1>5, <2>1 DEF Told
<1> QED BY <1>12, <1>13, <1>14, <1>15 DEF Told

LEMMA ToldStep == TypeOK /\ OrderInv /\ Told /\ [Next]_vars => Told'
<1> SUFFICES ASSUME TypeOK, OrderInv, Told, [Next]_vars PROVE Told'
  OBVIOUS
<1>1. ASSUME Released' = Released, UNCHANGED <<nextSeq, tracker>>, ~failure' => ~failure PROVE Told'
  BY <1>1 DEF Told, Grants
<1>2. CASE UNCHANGED <<messages, rows, nextSeq, tracker, failure>>
  BY <1>1, <1>2 DEF Released
<1>3. ASSUME NEW p \in Pumps, PumpStep(p) PROVE Told'
  BY <1>2, <1>3, Zenon DEF PumpStep, ReadFrame, PumpEnds, Forward, ForwardFails, LoadBudget, CasBudget, TrySend,
                           bufferVars, writerVars, dbVars
<1>4. CASE StopPumps \/ FinisherStep \/ Crash \/ UNCHANGED vars
  BY <1>2, <1>4, Zenon DEF StopPumps, FinisherStep, SendClose, AwaitResult, Crash, vars, bufferVars, writerVars,
                           dbVars
<1>5. CASE RecvFirst \/ RecvMore \/ StopCollecting \/ StopReleasing \/ FreeReservation
  BY <1>2, <1>5, Zenon DEF RecvFirst, RecvMore, CollectFrame, StopCollecting, StopReleasing, FreeReservation,
                           bufferVars, dbVars
<1>6. CASE ReleaseNext
  BY <1>6, ToldRelease
<1>7. CASE CommitChunk
  <2>1. /\ messages' = messages \ Chunk /\ rows' = rows \cup Chunk
        /\ UNCHANGED <<nextSeq, tracker, failure>>
    BY <1>7, Zenon DEF CommitChunk, ChunkTried
  <2>2. Released' = Released
    BY <2>1, ChunkType DEF Released
  <2> QED BY <1>1, <2>1, <2>2
<1>8. CASE ChunkFails
  BY <1>8 DEF ChunkFails, Told
<1>9. CASE AccountDrops \/ CloseSession
  <2>1. UNCHANGED <<messages, rows, nextSeq, tracker>>
    BY <1>9, Zenon DEF AccountDrops, CloseSession, bufferVars
  <2>2. ~failure' => ~failure
    BY <1>9, Zenon DEF AccountDrops, CloseSession, AccountFailure
  <2> QED BY <1>1, <2>1, <2>2 DEF Released
<1> QED
  BY <1>3, <1>4, <1>5, <1>6, <1>7, <1>8, <1>9, Zenon DEF Next, WriterStep

\* What the writer observed while it released the rows is what the recursive
\* definition of a reader's tracker yields from the rows alone.
LEMMA ReaderAgrees ==
    ASSUME NEW last \in 0 .. MaxFrames, NEW t, Observes(t, last, Recorded),
           \A m \in Recorded : m.seq \in 0 .. last - 1,
           \A m, k \in Recorded : m.seq = k.seq => m = k
    PROVE  \A n \in 0 .. last : ReaderTracker[n] = t[n]
<1> DEFINE With(g, n) == IF n = 0 THEN EmptyTracker
                         ELSE IF \E m \in Recorded : m.seq = n - 1
                              THEN ObserveTracker(g[n - 1], CHOOSE m \in Recorded : m.seq = n - 1)
                              ELSE g[n - 1]
           Satisfies(g) == g = [n \in 0 .. MaxFrames |-> With(g, n)]
<1>1. ReaderTracker = CHOOSE g : Satisfies(g)
  BY DEF ReaderTracker
<1>2. MaxFrames \in Nat /\ last \in Nat /\ last <= MaxFrames
  BY WriterAssumption
<1>3. PICK h : h = [n \in 0 .. MaxFrames |-> IF n <= last THEN t[n] ELSE t[last]]
  OBVIOUS
<1>4. ASSUME NEW n \in 0 .. MaxFrames PROVE h[n] = With(h, n)
  <2>1. CASE n = 0
    BY <1>2, <1>3, <2>1 DEF Observes
  <2>2. CASE n # 0 /\ \E m \in Recorded : m.seq = n - 1
    <3>1. PICK m : m = CHOOSE k \in Recorded : k.seq = n - 1
      OBVIOUS
    <3>2. m \in Recorded /\ m.seq = n - 1
      BY <2>2, <3>1
    <3>3. n <= last /\ n - 1 <= last /\ n - 1 \in 0 .. MaxFrames
      BY <1>2, <2>2, <3>2
    <3>4. h[n] = t[n] /\ h[n - 1] = t[n - 1]
      BY <1>3, <3>3
    <3>5. t[m.seq + 1] = ObserveTracker(t[m.seq], m)
      BY <3>2 DEF Observes
    <3>6. m.seq + 1 = n
      BY <3>2
    <3> QED BY <2>2, <3>1, <3>2, <3>4, <3>5, <3>6
  <2>3. CASE n # 0 /\ ~ \E m \in Recorded : m.seq = n - 1
    <3>1. n - 1 \in 0 .. MaxFrames
      BY <1>2, <2>3
    <3>2. h[n] = h[n - 1]
      <4>1. CASE n <= last
        <5>1. n - 1 \in 0 .. last - 1 /\ (n - 1) + 1 = n /\ n - 1 <= last
          BY <1>2, <2>3, <4>1
        <5>2. t[n] = t[n - 1]
          BY <2>3, <5>1 DEF Observes
        <5> QED BY <1>3, <3>1, <4>1, <5>1, <5>2
      <4>2. CASE ~(n <= last)
        <5>1. n - 1 <= last => n - 1 = last
          BY <1>2, <4>2
        <5> QED BY <1>3, <3>1, <4>2, <5>1
      <4> QED BY <4>1, <4>2
    <3> QED BY <2>3, <3>2
  <2> QED BY <2>1, <2>2, <2>3
<1>5. Satisfies(h)
  <2> HIDE DEF With
  <2>1. h = [n \in 0 .. MaxFrames |-> h[n]]
    BY <1>3
  <2> QED BY <1>4, <2>1
<1>6. Satisfies(ReaderTracker)
  <2> HIDE DEF Satisfies
  <2> QED BY <1>1, <1>5
<1>7. \A n \in 0 .. MaxFrames : ReaderTracker[n] = With(ReaderTracker, n)
  <2> HIDE DEF With
  <2> QED BY <1>6
<1> DEFINE Apart == {n \in 0 .. MaxFrames : ReaderTracker[n] # h[n]}
<1>8. Apart = {}
  <2> SUFFICES ASSUME Apart # {} PROVE FALSE
    OBVIOUS
  <2>1. Apart \in SUBSET Nat
    BY <1>2
  <2>2. PICK n \in Apart : \A k \in Apart : n <= k
    <3> HIDE DEF Apart
    <3> QED BY <2>1, LeastNumber
  <2>3. n \in 0 .. MaxFrames /\ ReaderTracker[n] # h[n]
    OBVIOUS
  <2>4. ReaderTracker[n] = With(ReaderTracker, n) /\ h[n] = With(h, n)
    <3> HIDE DEF With
    <3> QED BY <1>4, <1>7, <2>3
  <2>5. n # 0
    BY <2>3, <2>4
  <2>6. n - 1 \in 0 .. MaxFrames /\ ~(n <= n - 1)
    BY <1>2, <2>3, <2>5
  <2>7. ReaderTracker[n - 1] = h[n - 1]
    <3>1. n - 1 \notin Apart
      <4> HIDE DEF Apart
      <4> QED BY <2>2, <2>6
    <3> QED BY <2>6, <3>1
  <2> QED BY <2>3, <2>4, <2>5, <2>7
<1>9. \A n \in 0 .. last : n \in 0 .. MaxFrames /\ h[n] = t[n]
  BY <1>2, <1>3
<1>10. \A n \in 0 .. MaxFrames : ReaderTracker[n] = h[n]
  BY <1>8
<1> QED BY <1>9, <1>10

\* The exemption the writer granted each row is the one a reader derives from the
\* rows of an accepted session, for every interleaving of pumps and writer, every
\* batch size and every reorder bound: whatever would make the two trackers differ
\* (a record out of order, rolled back or forgotten) shows in the session row, as
\* long as the statement that writes it down does not fail.
THEOREM ReadersAgreeOnContext ==
    ASSUME "dropped" \notin StoreFaults
    PROVE  Spec => []ContextAgreement
<1>1. Init => LossCounted /\ nextStamp <= MaxFrames /\ Told
  <2> SUFFICES ASSUME Init PROVE LossCounted /\ nextStamp <= MaxFrames /\ Told
    OBVIOUS
  <2>1. LossCounted /\ nextStamp <= MaxFrames
    BY WriterAssumption DEF Init, LossCounted
  <2>2. Released = {} /\ nextSeq = 0 /\ tracker = EmptyTracker
    BY DEF Init, Released
  <2>3. PICK t : t = [n \in {0} |-> EmptyTracker]
    OBVIOUS
  <2>4. t[0] = EmptyTracker
    BY <2>3
  <2>5. Observes(t, nextSeq, {r.msg : r \in Released}) /\ t[nextSeq] = tracker /\ Grants(t)
    BY <2>2, <2>4 DEF Observes, Grants
  <2> QED BY <2>1, <2>2, <2>5 DEF Told
<1>2. TypeOK /\ Control /\ OrderInv /\ LossCounted /\ nextStamp <= MaxFrames /\ Told => ContextAgreement
  <2> SUFFICES ASSUME TypeOK, Control, OrderInv, LossCounted, nextStamp <= MaxFrames, Told,
                      CountsAsComplete, NEW r \in rows
               PROVE  r.context = ObserveContext(ReaderTracker[r.msg.seq], r.msg)
    BY DEF ContextAgreement
  <2>1. wpc = "done" /\ dbClosed /\ TotalDropped = 0 /\ failed = 0
    <3>1. wpc = "done" /\ dbClosed /\ TotalDropped = 0
      BY DEF CountsAsComplete, Control, Accounted
    <3> QED BY <3>1 DEF TotalDropped, TypeOK
  <2>2. ~failure
    BY <2>1 DEF LossCounted
  <2>3. messages = {}
    BY <2>1 DEF Control, Drained
  <2>4. Released = rows /\ {q.msg : q \in Released} = Recorded
    BY <2>3 DEF Released, Recorded
  <2>5. PICK t : Observes(t, nextSeq, Recorded) /\ Grants(t)
    BY <2>2, <2>4 DEF Told
  <2>6. nextSeq \in 0 .. MaxFrames
    BY <2>2, WriterAssumption DEF OrderInv, Ahead, TypeOK
  <2>7. \A m \in Recorded : m.seq \in 0 .. nextSeq - 1
    BY <2>2, SeqTypes DEF OrderInv, Ahead, Recorded, TypeOK
  <2>8. \A m, k \in Recorded : m.seq = k.seq => m = k
    BY <2>2, <2>4 DEF Told, Recorded
  <2>9. ReaderTracker[r.msg.seq] = t[r.msg.seq]
    <3>1. \A n \in 0 .. nextSeq : ReaderTracker[n] = t[n]
      BY <2>5, <2>6, <2>7, <2>8, ReaderAgrees
    <3>2. r.msg.seq \in 0 .. nextSeq
      BY <2>6, <2>7 DEF Recorded
    <3> QED BY <3>1, <3>2
  <2> QED BY <2>4, <2>5, <2>9 DEF Grants
<1>3. TypeOK /\ Control /\ LossCounted /\ [Next]_vars => LossCounted'
  BY LossCountedStep
<1>4. TypeOK /\ nextStamp <= MaxFrames /\ [Next]_vars => (nextStamp <= MaxFrames)'
  BY StampBounded
<1>5. TypeOK /\ OrderInv /\ Told /\ [Next]_vars => Told'
  BY ToldStep
<1> QED BY <1>1, <1>2, <1>3, <1>4, <1>5, TypeCorrect, ControlInvariant, NumbersStayApart, PTL DEF Spec
=============================================================================
