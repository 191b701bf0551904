----------------------------- MODULE HttpCaptureProofs -----------------------------
(***************************************************************************)
(* Proofs about HttpCapture, for bodies of any number of chunks, queues of  *)
(* any capacity and responses of any content type.                          *)
(***************************************************************************)
EXTENDS HttpCapture, TLAPS

\* The request task: it has a number before a chunk leaves, and when it is done
\* the whole request is stored or a loss is counted.
RequestInv ==
    /\ request = "spawned" => requestRead = 0
    /\ request # "spawned" => requestSeq < nextSeq
    /\ request = "recording" => requestRead = RequestChunks
    /\ request = "done" => dropped > 0 \/ Holds("c2s", RequestChunks)
    /\ handler = "returned" /\ ~answeredBlind => requestTaken > 0
    /\ \A m \in stored : m.dir = "c2s" => m.seq = requestSeq /\ request = "done"

\* The stream and its tap: without a mark the task is sent all that was observed,
\* a JSON body that closes unmarked is whole, and a mark leads to a count.
StreamInv ==
    /\ kind = "json" => ends = {ResponseChunks}
    /\ tap = "none" <=> handler # "returned"
    /\ tap = "none" => observed = 0 /\ response = "none"
    /\ response = "none" <=> (kind = "other" \/ tap = "none")
    /\ Captured /\ ~overflowed => sent = observed
    /\ tap = "closed" /\ kind = "json" /\ ~overflowed => observed = ResponseChunks
    /\ overflowed => tap \in {"marking", "closing"} \/ dropped > 0
    /\ tap \in {"marking", "closing"} => overflowed /\ Captured

\* Every message observed so far is stored.
AllStored == \A n \in ends : n <= observed => Holds("s2c", n)

\* The response task: it stores whole messages only, numbered after the request,
\* and when it is done they are stored, or a loss is counted or about to be.
TaskInv ==
    /\ \A m \in stored : m.dir = "s2c" =>
          /\ m.upto \in ends /\ handler = "returned"
          /\ answeredBlind \/ (request # "spawned" /\ requestSeq < m.seq)
    /\ kind = "sse" => \A n \in ends : n <= taken => dropped > 0 \/ Holds("s2c", n)
    /\ response = "done" =>
          \/ dropped > 0
          \/ tap \in {"marking", "closing"} /\ kind = "sse"
          \/ tap = "closed" /\ AllStored

\* Finalization comes after the tasks, and then nothing is observed any more.
FinalInv ==
    /\ final => request = "done" /\ handler # "sending" /\ response # "running"
    /\ final /\ published = 0 =>
          /\ Holds("c2s", RequestChunks)
          /\ Captured /\ ~(outrun /\ kind = "sse") => tap \in {"closed", "none"} /\ AllStored

CaptureInv == TypeOK /\ RequestInv /\ StreamInv /\ TaskInv /\ FinalInv

LEMMA CaptureInit == Init => CaptureInv
<1> SUFFICES ASSUME Init PROVE CaptureInv
  OBVIOUS
<1> USE CaptureAssumption
<1>1. TypeOK
  <2>1. ends \in SUBSET (1..ResponseChunks)
    BY DEF Init
  <2>2. /\ sized \in BOOLEAN /\ requestSized \in BOOLEAN /\ receiver \in BOOLEAN /\ client \in BOOLEAN
        /\ broken \in BOOLEAN /\ overflowed \in BOOLEAN /\ final \in BOOLEAN
        /\ outrun \in BOOLEAN /\ answeredBlind \in BOOLEAN
    BY Zenon DEF Init
  <2> QED BY <2>1, <2>2 DEF Init, TypeOK
<1>2. RequestInv
  BY DEF Init, RequestInv
<1>3. StreamInv
  BY DEF Init, StreamInv, Captured
<1>4. TaskInv
  BY <1>1 DEF Init, TaskInv, TypeOK
<1>5. FinalInv
  BY DEF Init, FinalInv
<1> QED BY <1>1, <1>2, <1>3, <1>4, <1>5 DEF CaptureInv

LEMMA RequestStartStep == ASSUME CaptureInv, RequestStart PROVE CaptureInv'
<1> USE CaptureAssumption DEF CaptureInv, RequestStart, shapeVars, requestVars, responseVars, sessionVars, Captured
<1>1. TypeOK'
  BY DEF TypeOK
<1>2. RequestInv'
  BY DEF TypeOK, RequestInv, Holds
<1>3. StreamInv'
  BY DEF TypeOK, StreamInv
<1>4. TaskInv'
  BY DEF TypeOK, RequestInv, StreamInv, TaskInv, AllStored, Holds
<1>5. FinalInv'
  BY DEF TypeOK, RequestInv, StreamInv, TaskInv, FinalInv, AllStored, Holds
<1> QED BY <1>1, <1>2, <1>3, <1>4, <1>5

LEMMA RequestChunkStep == ASSUME CaptureInv, RequestChunk PROVE CaptureInv'
<1> USE CaptureAssumption DEF CaptureInv, RequestChunk, shapeVars, requestVars, responseVars, sessionVars, Captured
<1>1. TypeOK'
  BY DEF TypeOK
<1>2. RequestInv'
  BY DEF TypeOK, RequestInv, Holds
<1>3. StreamInv'
  BY DEF TypeOK, StreamInv
<1>4. TaskInv'
  BY DEF TypeOK, RequestInv, StreamInv, TaskInv, AllStored, Holds
<1>5. FinalInv'
  BY DEF TypeOK, RequestInv, StreamInv, TaskInv, FinalInv, AllStored, Holds
<1> QED BY <1>1, <1>2, <1>3, <1>4, <1>5

LEMMA RequestEofStep == ASSUME CaptureInv, RequestEof PROVE CaptureInv'
<1> USE CaptureAssumption DEF CaptureInv, RequestEof, shapeVars, requestVars, responseVars, sessionVars, Captured
<1>1. TypeOK'
  BY DEF TypeOK
<1>2. RequestInv'
  BY DEF TypeOK, RequestInv, Holds
<1>3. StreamInv'
  BY DEF TypeOK, StreamInv
<1>4. TaskInv'
  BY DEF TypeOK, RequestInv, StreamInv, TaskInv, AllStored, Holds
<1>5. FinalInv'
  BY DEF TypeOK, RequestInv, StreamInv, TaskInv, FinalInv, AllStored, Holds
<1> QED BY <1>1, <1>2, <1>3, <1>4, <1>5

LEMMA RequestLostStep == ASSUME CaptureInv, RequestLost PROVE CaptureInv'
<1> USE CaptureAssumption DEF CaptureInv, RequestLost, ForwardingFails, shapeVars, requestVars, responseVars, sessionVars, Captured
<1>1. TypeOK'
  BY DEF TypeOK
<1>2. RequestInv'
  BY DEF TypeOK, RequestInv, Holds
<1>3. StreamInv'
  BY DEF TypeOK, StreamInv
<1>4. TaskInv'
  BY DEF TypeOK, RequestInv, StreamInv, TaskInv, AllStored, Holds
<1>5. FinalInv'
  BY DEF TypeOK, RequestInv, StreamInv, TaskInv, FinalInv, AllStored, Holds
<1> QED BY <1>1, <1>2, <1>3, <1>4, <1>5

LEMMA RequestRecordedStep == ASSUME CaptureInv, RequestRecorded PROVE CaptureInv'
<1> USE CaptureAssumption DEF CaptureInv, RequestRecorded, Record, RequestNumber, shapeVars, requestVars, responseVars, sessionVars, Captured
<1>1. TypeOK'
  BY DEF TypeOK
<1>2. RequestInv'
  <2>1. PICK message : message = [dir |-> "c2s", upto |-> requestRead, seq |-> requestSeq]
    OBVIOUS
  <2>2. message.dir = "c2s" /\ message.upto = RequestChunks /\ message.seq = requestSeq
    BY <2>1 DEF RequestInv
  <2>3. /\ UNCHANGED <<handler, requestRead, requestTaken, requestSeq, nextSeq, answeredBlind>>
        /\ request = "recording" /\ request' = "done"
        /\ \/ stored' = stored \cup {message} /\ dropped' = dropped
           \/ stored' = stored /\ dropped' = dropped + 1
    BY <2>1
  <2> HIDE DEF RequestRecorded
  <2>4. dropped' > 0 \/ Holds("c2s", RequestChunks)'
    BY <2>2, <2>3 DEF TypeOK, Holds
  <2>5. \A m \in stored' : m.dir = "c2s" => m.seq = requestSeq
    BY <2>2, <2>3 DEF RequestInv
  <2> QED BY <2>3, <2>4, <2>5 DEF RequestInv
<1>3. StreamInv'
  BY DEF TypeOK, StreamInv
<1>4. TaskInv'
  BY DEF TypeOK, RequestInv, StreamInv, TaskInv, AllStored, Holds
<1>5. FinalInv'
  BY DEF TypeOK, RequestInv, StreamInv, TaskInv, FinalInv, AllStored, Holds
<1> QED BY <1>1, <1>2, <1>3, <1>4, <1>5

LEMMA UpstreamTakesStep == ASSUME CaptureInv, UpstreamTakes PROVE CaptureInv'
<1> USE CaptureAssumption DEF CaptureInv, UpstreamTakes, shapeVars, requestVars, responseVars, sessionVars, Captured
<1>1. TypeOK'
  BY DEF TypeOK
<1>2. RequestInv'
  BY DEF TypeOK, RequestInv, Holds
<1>3. StreamInv'
  BY DEF TypeOK, StreamInv
<1>4. TaskInv'
  BY DEF TypeOK, RequestInv, StreamInv, TaskInv, AllStored, Holds
<1>5. FinalInv'
  BY DEF TypeOK, RequestInv, StreamInv, TaskInv, FinalInv, AllStored, Holds
<1> QED BY <1>1, <1>2, <1>3, <1>4, <1>5

LEMMA ReceiverClosesStep == ASSUME CaptureInv, ReceiverCloses PROVE CaptureInv'
<1> USE CaptureAssumption DEF CaptureInv, ReceiverCloses, shapeVars, requestVars, responseVars, sessionVars, Captured
<1>1. TypeOK'
  <2>1. receiver' \in BOOLEAN
    BY Zenon
  <2>2. /\ UNCHANGED <<shapeVars, handler, client, requestVars, responseVars, nextSeq, dropped, stored,
                       sessionVars, answeredBlind>>
    OBVIOUS
  <2> HIDE DEF ReceiverCloses
  <2> QED BY <2>1, <2>2 DEF TypeOK
<1>2. RequestInv'
  BY DEF TypeOK, RequestInv, Holds
<1>3. StreamInv'
  BY DEF TypeOK, StreamInv
<1>4. TaskInv'
  BY DEF TypeOK, RequestInv, StreamInv, TaskInv, AllStored, Holds
<1>5. FinalInv'
  BY DEF TypeOK, RequestInv, StreamInv, TaskInv, FinalInv, AllStored, Holds
<1> QED BY <1>1, <1>2, <1>3, <1>4, <1>5

LEMMA ClientLeavesStep == ASSUME CaptureInv, ClientLeaves PROVE CaptureInv'
<1> USE CaptureAssumption DEF CaptureInv, ClientLeaves, shapeVars, requestVars, responseVars, sessionVars, Captured
<1>1. TypeOK'
  <2>1. client' \in BOOLEAN
    BY Zenon
  <2>2. /\ UNCHANGED <<shapeVars, handler, receiver, requestVars, responseVars, nextSeq, dropped, stored,
                       sessionVars, answeredBlind>>
    OBVIOUS
  <2> HIDE DEF ClientLeaves
  <2> QED BY <2>1, <2>2 DEF TypeOK
<1>2. RequestInv'
  BY DEF TypeOK, RequestInv, Holds
<1>3. StreamInv'
  BY DEF TypeOK, StreamInv
<1>4. TaskInv'
  BY DEF TypeOK, RequestInv, StreamInv, TaskInv, AllStored, Holds
<1>5. FinalInv'
  BY DEF TypeOK, RequestInv, StreamInv, TaskInv, FinalInv, AllStored, Holds
<1> QED BY <1>1, <1>2, <1>3, <1>4, <1>5

LEMMA RespondStep == ASSUME CaptureInv, Respond PROVE CaptureInv'
<1> USE CaptureAssumption DEF CaptureInv, Respond, shapeVars, requestVars, responseVars, sessionVars, Captured
<1>1. TypeOK'
  BY DEF TypeOK
<1>2. RequestInv'
  <2>1. UNCHANGED <<requestVars, nextSeq, dropped, stored>>
    OBVIOUS
  <2>2. ~answeredBlind' => requestTaken # 0
    BY Zenon
  <2> HIDE DEF Respond
  <2>3. ~answeredBlind' => requestTaken > 0
    BY <2>2 DEF TypeOK
  <2> QED BY <2>1, <2>3 DEF RequestInv, Holds
<1>3. StreamInv'
  BY DEF TypeOK, StreamInv
<1>4. TaskInv'
  BY DEF TypeOK, RequestInv, StreamInv, TaskInv, AllStored, Holds
<1>5. FinalInv'
  BY DEF TypeOK, RequestInv, StreamInv, TaskInv, FinalInv, AllStored, Holds
<1> QED BY <1>1, <1>2, <1>3, <1>4, <1>5

LEMMA UpstreamFailsStep == ASSUME CaptureInv, UpstreamFails PROVE CaptureInv'
<1> USE CaptureAssumption DEF CaptureInv, UpstreamFails, shapeVars, requestVars, responseVars, sessionVars, Captured
<1>1. TypeOK'
  <2>1. receiver' \in BOOLEAN
    BY Zenon
  <2>2. /\ UNCHANGED <<shapeVars, client, requestVars, responseVars, nextSeq, dropped, stored,
                       sessionVars, answeredBlind>>
        /\ handler' \in {"sending", "returned", "failed", "cancelled"}
    OBVIOUS
  <2> HIDE DEF UpstreamFails
  <2> QED BY <2>1, <2>2 DEF TypeOK
<1>2. RequestInv'
  BY DEF TypeOK, RequestInv, Holds
<1>3. StreamInv'
  BY DEF TypeOK, StreamInv
<1>4. TaskInv'
  BY DEF TypeOK, RequestInv, StreamInv, TaskInv, AllStored, Holds
<1>5. FinalInv'
  BY DEF TypeOK, RequestInv, StreamInv, TaskInv, FinalInv, AllStored, Holds
<1> QED BY <1>1, <1>2, <1>3, <1>4, <1>5

LEMMA HandlerCancelledStep == ASSUME CaptureInv, HandlerCancelled PROVE CaptureInv'
<1> USE CaptureAssumption DEF CaptureInv, HandlerCancelled, shapeVars, requestVars, responseVars, sessionVars, Captured
<1>1. TypeOK'
  <2>1. receiver' \in BOOLEAN
    BY Zenon
  <2>2. /\ UNCHANGED <<shapeVars, client, requestVars, responseVars, nextSeq, dropped, stored,
                       sessionVars, answeredBlind>>
        /\ handler' \in {"sending", "returned", "failed", "cancelled"}
    OBVIOUS
  <2> HIDE DEF HandlerCancelled
  <2> QED BY <2>1, <2>2 DEF TypeOK
<1>2. RequestInv'
  BY DEF TypeOK, RequestInv, Holds
<1>3. StreamInv'
  BY DEF TypeOK, StreamInv
<1>4. TaskInv'
  BY DEF TypeOK, RequestInv, StreamInv, TaskInv, AllStored, Holds
<1>5. FinalInv'
  BY DEF TypeOK, RequestInv, StreamInv, TaskInv, FinalInv, AllStored, Holds
<1> QED BY <1>1, <1>2, <1>3, <1>4, <1>5

LEMMA ObserveChunkStep == ASSUME CaptureInv, ObserveChunk PROVE CaptureInv'
<1> USE CaptureAssumption DEF CaptureInv, ObserveChunk, CaptureHasRoom, shapeVars, requestVars, responseVars, sessionVars, Captured
<1>1. TypeOK'
  BY DEF TypeOK
<1>2. RequestInv'
  BY DEF TypeOK, RequestInv, Holds
<1>3. StreamInv'
  BY DEF TypeOK, StreamInv
<1>4. TaskInv'
  BY DEF TypeOK, RequestInv, StreamInv, TaskInv, AllStored, Holds
<1>5. FinalInv'
  BY DEF TypeOK, RequestInv, StreamInv, TaskInv, FinalInv, AllStored, Holds
<1> QED BY <1>1, <1>2, <1>3, <1>4, <1>5

LEMMA ObserveOverflowStep == ASSUME CaptureInv, ObserveOverflow PROVE CaptureInv'
<1> USE CaptureAssumption DEF CaptureInv, ObserveOverflow, CaptureHasRoom, shapeVars, requestVars, responseVars, sessionVars, Captured
<1>1. TypeOK'
  BY DEF TypeOK
<1>2. RequestInv'
  BY DEF TypeOK, RequestInv, Holds
<1>3. StreamInv'
  BY DEF TypeOK, StreamInv
<1>4. TaskInv'
  BY DEF TypeOK, RequestInv, StreamInv, TaskInv, AllStored, Holds
<1>5. FinalInv'
  BY DEF TypeOK, RequestInv, StreamInv, TaskInv, FinalInv, AllStored, Holds
<1> QED BY <1>1, <1>2, <1>3, <1>4, <1>5

LEMMA ObserveErrorStep == ASSUME CaptureInv, ObserveError PROVE CaptureInv'
<1> USE CaptureAssumption DEF CaptureInv, ObserveError, shapeVars, requestVars, responseVars, sessionVars, Captured
<1>1. TypeOK'
  BY DEF TypeOK
<1>2. RequestInv'
  BY DEF TypeOK, RequestInv, Holds
<1>3. StreamInv'
  BY DEF TypeOK, StreamInv
<1>4. TaskInv'
  BY DEF TypeOK, RequestInv, StreamInv, TaskInv, AllStored, Holds
<1>5. FinalInv'
  BY DEF TypeOK, RequestInv, StreamInv, TaskInv, FinalInv, AllStored, Holds
<1> QED BY <1>1, <1>2, <1>3, <1>4, <1>5

LEMMA TapCountsStep == ASSUME CaptureInv, TapCounts PROVE CaptureInv'
<1> USE CaptureAssumption DEF CaptureInv, TapCounts, shapeVars, requestVars, responseVars, sessionVars, Captured
<1>1. TypeOK'
  BY DEF TypeOK
<1>2. RequestInv'
  BY DEF TypeOK, RequestInv, Holds
<1>3. StreamInv'
  BY DEF TypeOK, StreamInv
<1>4. TaskInv'
  BY DEF TypeOK, RequestInv, StreamInv, TaskInv, AllStored, Holds
<1>5. FinalInv'
  BY DEF TypeOK, RequestInv, StreamInv, TaskInv, FinalInv, AllStored, Holds
<1> QED BY <1>1, <1>2, <1>3, <1>4, <1>5

LEMMA StreamEndsStep == ASSUME CaptureInv, StreamEnds PROVE CaptureInv'
<1> USE CaptureAssumption DEF CaptureInv, StreamEnds, DropTap, MarksCut, AnyEnding, Eof, shapeVars, requestVars, responseVars, sessionVars, Captured
<1>1. TypeOK'
  <2>1. overflowed' \in BOOLEAN
    BY Zenon DEF TypeOK
  <2>2. /\ UNCHANGED <<shapeVars, handler, receiver, client, requestVars, observed, relayed, broken, sent,
                       taken, response, nextSeq, dropped, stored, sessionVars, answeredBlind>>
        /\ tap' \in {"closing", "closed"}
    OBVIOUS
  <2> HIDE DEF StreamEnds
  <2> QED BY <2>1, <2>2 DEF TypeOK
<1>2. RequestInv'
  BY DEF TypeOK, RequestInv, Holds
<1>3. StreamInv'
  BY DEF TypeOK, StreamInv
<1>4. TaskInv'
  <2>1. /\ UNCHANGED <<shapeVars, handler, requestVars, observed, taken, response, dropped, stored,
                       answeredBlind>>
        /\ tap = "idle"
    OBVIOUS
  <2> HIDE DEF StreamEnds
  <2> QED BY <2>1 DEF TaskInv, AllStored, Holds
<1>5. FinalInv'
  BY DEF TypeOK, RequestInv, StreamInv, TaskInv, FinalInv, AllStored, Holds
<1> QED BY <1>1, <1>2, <1>3, <1>4, <1>5

LEMMA TaskTakesChunkStep == ASSUME CaptureInv, TaskTakesChunk PROVE CaptureInv'
<1> USE CaptureAssumption DEF CaptureInv, TaskTakesChunk, Record, shapeVars, requestVars, responseVars, sessionVars, Captured
<1>1. TypeOK'
  BY DEF TypeOK
<1>2. RequestInv'
  BY DEF TypeOK, RequestInv, Holds
<1>3. StreamInv'
  BY DEF TypeOK, StreamInv
<1>4. TaskInv'
  <2>1. CASE kind = "sse" /\ overflowed /\ response' = "done" /\ UNCHANGED <<taken, nextSeq, dropped, stored>>
    BY <2>1 DEF TypeOK, StreamInv, TaskInv, AllStored, Holds
  <2>2. CASE taken' = taken + 1 /\ ~(kind = "sse" /\ taken' \in ends) /\ UNCHANGED <<response, nextSeq, dropped, stored>>
    BY <2>2 DEF TypeOK, TaskInv, AllStored, Holds
  <2>3. CASE /\ taken' = taken + 1 /\ kind = "sse" /\ taken' \in ends /\ UNCHANGED response
             /\ Record([dir |-> "s2c", upto |-> taken', seq |-> nextSeq])
    <3>1. PICK message : message = [dir |-> "s2c", upto |-> taken', seq |-> nextSeq]
      OBVIOUS
    <3>2. message.dir = "s2c" /\ message.upto = taken + 1 /\ message.seq = nextSeq /\ taken + 1 \in ends
      BY <2>3, <3>1
    <3>3. /\ response = "running" /\ response' = "running" /\ kind = "sse" /\ taken' = taken + 1
          /\ UNCHANGED <<kind, ends, handler, request, requestSeq, requestTaken, answeredBlind>>
          /\ \/ stored' = stored \cup {message} /\ dropped' = dropped
             \/ stored' = stored /\ dropped' = dropped + 1
      BY <2>3, <3>1
    <3>4. handler = "returned" /\ (answeredBlind \/ (request # "spawned" /\ requestSeq < nextSeq))
      BY <3>3 DEF TypeOK, RequestInv, StreamInv
    <3> HIDE DEF TaskTakesChunk
    <3>5. \A m \in stored' : m.dir = "s2c" =>
             /\ m.upto \in ends /\ handler = "returned"
             /\ answeredBlind \/ (request # "spawned" /\ requestSeq < m.seq)
      BY <3>2, <3>3, <3>4 DEF TaskInv
    <3>6. ASSUME NEW n \in ends, n <= taken + 1 PROVE dropped' > 0 \/ Holds("s2c", n)'
      BY <3>2, <3>3, <3>6 DEF TypeOK, TaskInv, Holds
    <3> QED BY <3>3, <3>5, <3>6 DEF TaskInv
  <2> QED BY <2>1, <2>2, <2>3
<1>5. FinalInv'
  BY DEF TypeOK, RequestInv, StreamInv, TaskInv, FinalInv, AllStored, Holds
<1> QED BY <1>1, <1>2, <1>3, <1>4, <1>5

LEMMA TaskEndsStep == ASSUME CaptureInv, TaskEnds PROVE CaptureInv'
<1> USE CaptureAssumption DEF CaptureInv, TaskEnds, Record, RecordsBody, shapeVars, requestVars, responseVars, sessionVars, Captured
<1>1. TypeOK'
  BY DEF TypeOK
<1>2. RequestInv'
  BY DEF TypeOK, RequestInv, Holds
<1>3. StreamInv'
  BY DEF TypeOK, StreamInv
<1>4. TaskInv'
  <2>1. /\ response' = "done" /\ tap = "closed" /\ taken = sent /\ tap' = "closed" /\ response = "running"
        /\ UNCHANGED <<kind, ends, handler, request, requestSeq, requestTaken, answeredBlind, taken, observed>>
    OBVIOUS
  <2>2. kind \in {"json", "sse"} /\ handler = "returned"
    BY <2>1 DEF TypeOK, StreamInv
  <2>3. answeredBlind \/ (request # "spawned" /\ requestSeq < nextSeq)
    BY <2>2 DEF TypeOK, RequestInv
  <2>4. overflowed => dropped > 0
    BY <2>1 DEF StreamInv
  <2>5. CASE kind = "json" /\ RecordsBody
    <3>1. PICK message : message = [dir |-> "s2c", upto |-> taken, seq |-> nextSeq]
      OBVIOUS
    <3>2. message.dir = "s2c" /\ message.upto = taken /\ message.seq = nextSeq
      BY <3>1
    <3>3. \/ stored' = stored \cup {message} /\ dropped' = dropped
          \/ stored' = stored /\ dropped' = dropped + 1
      BY <2>5, <3>1
    <3>4. ends = {taken} /\ observed = taken
      BY <2>1, <2>5 DEF StreamInv
    <3> HIDE DEF TaskEnds
    <3>5. \A m \in stored' : m.dir = "s2c" =>
             /\ m.upto \in ends /\ handler = "returned"
             /\ answeredBlind \/ (request # "spawned" /\ requestSeq < m.seq)
      BY <2>2, <2>3, <3>2, <3>3, <3>4 DEF TaskInv
    <3>6. dropped' > 0 \/ AllStored'
      BY <2>1, <3>2, <3>3, <3>4 DEF TypeOK, AllStored, Holds
    <3> QED BY <2>1, <2>5, <3>5, <3>6 DEF TaskInv
  <2>6. CASE ~(kind = "json" /\ RecordsBody)
    <3>1. stored' = stored /\ (dropped' = dropped \/ dropped' = dropped + 1)
      BY <2>6
    <3>2. dropped > 0 \/ AllStored
      <4>1. CASE kind = "json"
        BY <2>1, <2>4, <2>6, <4>1 DEF TypeOK, StreamInv
      <4>2. CASE kind = "sse"
        BY <2>1, <2>4, <4>2 DEF TypeOK, StreamInv, TaskInv, AllStored
      <4> QED BY <2>2, <4>1, <4>2
    <3> HIDE DEF TaskEnds
    <3> QED BY <2>1, <3>1, <3>2 DEF TypeOK, TaskInv, AllStored, Holds
  <2> QED BY <2>5, <2>6
<1>5. FinalInv'
  BY DEF TypeOK, RequestInv, StreamInv, TaskInv, FinalInv, AllStored, Holds
<1> QED BY <1>1, <1>2, <1>3, <1>4, <1>5

LEMMA FinalizeStep == ASSUME CaptureInv, Finalize PROVE CaptureInv'
<1> USE CaptureAssumption DEF CaptureInv, Finalize, LeaseFree, shapeVars, requestVars, responseVars, sessionVars, Captured
<1>1. TypeOK'
  BY DEF TypeOK
<1>2. RequestInv'
  BY DEF TypeOK, RequestInv, Holds
<1>3. StreamInv'
  BY DEF TypeOK, StreamInv
<1>4. TaskInv'
  BY DEF TypeOK, RequestInv, StreamInv, TaskInv, AllStored, Holds
<1>5. FinalInv'
  BY DEF TypeOK, RequestInv, StreamInv, TaskInv, FinalInv, AllStored, Holds
<1> QED BY <1>1, <1>2, <1>3, <1>4, <1>5

LEMMA CaptureStep == ASSUME CaptureInv, [Next]_vars PROVE CaptureInv'
<1>1. CASE UNCHANGED vars
  <2> USE <1>1 DEF CaptureInv, vars, shapeVars, requestVars, responseVars, sessionVars
  <2>1. TypeOK'
    BY DEF TypeOK
  <2>2. RequestInv' /\ StreamInv'
    BY DEF RequestInv, StreamInv, Holds, Captured
  <2>3. TaskInv' /\ FinalInv'
    BY DEF TaskInv, FinalInv, AllStored, Holds, Captured
  <2> QED BY <2>1, <2>2, <2>3
<1>2. CASE RequestTask
  BY <1>2, RequestStartStep, RequestEofStep, RequestLostStep, RequestRecordedStep DEF RequestTask
<1>3. CASE ResponseTask \/ Stream
  BY <1>3, TaskTakesChunkStep, TaskEndsStep, TapCountsStep, StreamEndsStep DEF ResponseTask, Stream
<1>4. CASE Peers
  BY <1>4, RequestChunkStep, UpstreamTakesStep, ClientLeavesStep, RespondStep, UpstreamFailsStep,
     ObserveChunkStep, ObserveOverflowStep, ObserveErrorStep DEF Peers
<1>5. CASE HandlerCancelled \/ ReceiverCloses \/ Finalize
  BY <1>5, HandlerCancelledStep, ReceiverClosesStep, FinalizeStep
<1> QED BY <1>1, <1>2, <1>3, <1>4, <1>5 DEF Next

\* Bodies, queues, tap, tasks and recording fit together at every step of one
\* exchange (forward_request_body, ResponseCaptureTap, capture_response_body).
THEOREM CaptureInvariant == Spec => []CaptureInv
<1> QED BY CaptureInit, CaptureStep, PTL DEF Spec

\* Queue bounds and the ranges of all counters, whatever the peers do.
THEOREM CaptureTypes == Spec => []TypeOK
<1>1. CaptureInv => TypeOK
  BY DEF CaptureInv
<1> QED BY <1>1, CaptureInvariant, PTL

\* A session closed without a counted loss holds every message that passed, for
\* any content type but SSE, and for SSE unless the task saw the tap's flag before
\* the tap had counted (mark_incomplete, finalize_session_entry).
THEOREM AcceptedCaptures == Spec => []CompleteUnlessOutrun
<1>1. CaptureInv => CompleteUnlessOutrun
  <2> SUFFICES ASSUME CaptureInv, final, published = 0, ~(outrun /\ kind = "sse")
               PROVE  CaptureComplete
    BY DEF CompleteUnlessOutrun
  <2>1. Holds("c2s", RequestChunks)
    BY DEF CaptureInv, FinalInv
  <2>2. ASSUME Captured, NEW n \in ends, relayed >= n PROVE Holds("s2c", n)
    <3>1. n <= observed
      BY <2>2, CaptureAssumption DEF CaptureInv, TypeOK
    <3> QED BY <2>2, <3>1 DEF CaptureInv, FinalInv, AllStored
  <2> QED BY <2>1, <2>2 DEF CaptureComplete
<1> QED BY <1>1, CaptureInvariant, PTL

\* Only whole messages are stored, and the request is numbered before its
\* response, whatever order the two tasks run in (forward_request_body,
\* capture_response_body).
THEOREM RecordsAreFaithful == Spec => []FaithfulRecords
<1>1. CaptureInv => FaithfulRecords
  BY DEF CaptureInv, RequestInv, TaskInv, FaithfulRecords
<1> QED BY <1>1, CaptureInvariant, PTL
=============================================================================
