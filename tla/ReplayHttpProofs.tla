---------------------------- MODULE ReplayHttpProofs ----------------------------
(***************************************************************************)
(* Proofs about ReplayHttp, for any recorded sessions, any frames of the   *)
(* target and any number of them.                                          *)
(***************************************************************************)
EXTENDS ReplayHttp, FiniteSetTheorems, SequenceTheorems, TLAPS

\* A finite sequence, of whatever.
IsLog(s) == \E S : s \in Seq(S)

IsMessage(m) == MessageFields \subseteq DOMAIN m

SubFields == {"src", "id", "requested", "accepted", "expected", "got", "task", "ack", "closed"}

Over == {"deleting", "finish", "ended"}    \* drive has returned
Exchange == {"post", "posting", "json", "sse", "rejecting", "answered"}
Opening == {"listen", "opening", "refusing", "acking"}

TypeInv ==
    /\ IsLog(Driven)
    /\ \A d \in DOMAIN Driven : IsMessage(Driven[d]) /\ Driven[d].dir = "c2s" /\ Driven[d].asks = FALSE
    /\ index \in Nat \ {0}
    /\ IsLog(record)
    /\ \A i \in DOMAIN record : IsMessage(record[i]) /\ record[i].asks \in BOOLEAN
    /\ IsLog(subs)
    /\ \A x \in DOMAIN subs : DOMAIN subs[x] = SubFields /\ subs[x].got \in Nat

\* The message that is under way is the driven one at index, or built from it.
DriveInv ==
    /\ result # "none" => stage \in Over
    /\ stage \in Exchange =>
          /\ index <= Len(Driven) /\ IsMessage(request)
          /\ request.dir = "c2s" /\ request.asks = FALSE
          /\ request.method = Driven[index].method /\ request.modern = Driven[index].modern
          /\ ~IsListen(Driven[index])
    /\ stage \in Opening =>
          index <= Len(Driven) /\ request = Driven[index] /\ IsListen(Driven[index])

\* Nothing comes late unless the run has failed: then its tasks may still run.
CloseInv ==
    /\ stage # "ended" => late = 0
    /\ result = "ok" => late = 0 /\ \A x \in DOMAIN subs : subs[x].task \notin {"running", "aborting"}

DrivenIds == {Driven[d].id : d \in DOMAIN Driven}

\* The last of the first n frames that asks for input.
LastAsk(j, n) == j \in 1 .. n /\ record[j].asks /\ \A k \in (j + 1) .. n : ~record[k].asks

\* The number in the id of a retry is the length of the record when it was
\* built, after everything the client had sent.
Numbered(id, n) ==
    \E m \in 0 .. n : id = RetryId(m) /\ \A j \in (m + 1) .. n : record[j].dir # "c2s"

Live(m, n) == Numbered(m.id, n) /\ \E j \in 1 .. n : LastAsk(j, n) /\ record[j].state = m.state

SentInv ==
    \A i \in DOMAIN record : record[i].dir = "c2s" => record[i].id \in DrivenIds \/ Live(record[i], i - 1)

AskInv ==
    stage \in {"posting", "json", "sse", "answered"} /\ required.asks =>
        \E j \in 1 .. Len(record) : LastAsk(j, Len(record)) /\ record[j].state = required.state

PostInv == stage = "post" => request.id \in DrivenIds \/ Live(request, Len(record))

\* What is recorded of a subscription: as many frames as it counts, the
\* acknowledgment first.
Evidence(s) ==
    /\ Cardinality(Stream(s.id)) = s.got
    /\ s.got # 0 => \E k \in Stream(s.id) : record[k].method = "acknowledged"
    /\ \A k \in Stream(s.id) :
          IF \E l \in Stream(s.id) : l < k THEN record[k].topic \in s.accepted
          ELSE record[k].method = "acknowledged" /\ record[k].topics = s.accepted

StreamInv ==
    stage # "ended" \/ result = "ok" =>
        /\ \A x \in DOMAIN subs :
              subs[x].id # NoId /\ Evidence(subs[x]) /\ (subs[x].ack = "ok" => subs[x].got # 0)
        /\ \A x, y \in DOMAIN subs : subs[x].id = subs[y].id => x = y
        /\ \A k \in DOMAIN record : record[k].dir = "s2c" /\ record[k].sub # NoId =>
              \E x \in DOMAIN subs : subs[x].id = record[k].sub

Follows(s, d) ==
    LET source == subscription_expectation(capture.messages, Driven[d])
    IN  s.id = Driven[d].id /\ s.accepted = source.accepted /\ s.expected = source.expected

\* Every listen request that was passed has its subscription.
PassedInv ==
    \A d \in DOMAIN Driven : IsListen(Driven[d]) /\ (d < index \/ (d = index /\ stage = "acking")) =>
        \E x \in DOMAIN subs : Follows(subs[x], d)

EndInv ==
    /\ stage \in {"settling", "evidence", "joining"} \/ result = "ok" => index > Len(Driven)
    /\ stage = "joining" \/ result = "ok" => \A x \in DOMAIN subs : subs[x].got = subs[x].expected

\* A subscription is opened once, and its task reports to the wait for it.
OpeningInv ==
    /\ stage = "opening" => request.id # NoId /\ \A x \in DOMAIN subs : subs[x].id # request.id
    /\ stage = "acking" => Len(subs) \in DOMAIN subs /\ subs[Len(subs)].id = request.id

Listens(i) == record[i].dir = "c2s" /\ IsListen(record[i])
Acked(i, n) == \E k \in i .. n : record[k].method = "acknowledged" /\ record[k].sub = record[i].id

PacedInv ==
    \A i \in DOMAIN record : \A j \in (i + 1) .. Len(record) :
        Listens(i) /\ record[j].dir = "c2s" => Acked(i, j)

\* Whoever sends has seen every acknowledgment, or waits for the last one.
AckedInv ==
    /\ stage \notin Over \cup {"opening", "refusing", "acking"} =>
          \A i \in DOMAIN record : Listens(i) => Acked(i, Len(record))
    /\ stage \in {"opening", "acking"} =>
          \A i \in DOMAIN record : Listens(i) =>
              Acked(i, Len(record)) \/ (record[i].id = request.id /\ \A k \in Stream(request.id) : i < k)

\* What the record says, and what the next step relies on.
RecordInv  == SentInv /\ StreamInv /\ PacedInv
ControlInv == DriveInv /\ CloseInv /\ AskInv /\ PostInv /\ PassedInv /\ EndInv /\ OpeningInv /\ AckedInv

ReplayInv == TypeInv /\ RecordInv /\ ControlInv

-----------------------------------------------------------------------------
(* Sequences and messages *)

LEMMA WiderSeq == ASSUME NEW S, NEW e, NEW s \in Seq(S) PROVE s \in Seq(S \cup {e})
OBVIOUS

LEMMA LogLength ==
    ASSUME NEW s, IsLog(s)
    PROVE  Len(s) \in Nat /\ DOMAIN s = 1 .. Len(s)
BY DEF IsLog

\* t is s with e after it.
Appended(s, t, e) ==
    /\ IsLog(t) /\ Len(t) = Len(s) + 1 /\ DOMAIN t = DOMAIN s \cup {Len(s) + 1}
    /\ \A i \in DOMAIN s : t[i] = s[i]
    /\ t[Len(s) + 1] = e

LEMMA AppendLog ==
    ASSUME NEW s, IsLog(s), NEW e, NEW t, t = Append(s, e)
    PROVE  Appended(s, t, e)
<1>1. PICK S : s \in Seq(S)
  BY DEF IsLog
<1>2. PICK T : T = S \cup {e}
  OBVIOUS
<1>3. s \in Seq(T) /\ e \in T
  BY <1>1, <1>2, WiderSeq
<1>4. t \in Seq(T)
  BY <1>3, AppendProperties
<1>5. Len(t) = Len(s) + 1 /\ (\A i \in 1 .. Len(s) : t[i] = s[i]) /\ t[Len(s) + 1] = e
  BY <1>3, AppendProperties
<1>6. DOMAIN s = 1 .. Len(s) /\ DOMAIN t = 1 .. Len(s) + 1 /\ Len(s) \in Nat
  BY <1>3, <1>4, <1>5
<1>7. DOMAIN t = DOMAIN s \cup {Len(s) + 1}
  BY <1>6
<1> QED BY <1>4, <1>5, <1>6, <1>7 DEF IsLog, Appended

\* A sequence rewritten in place.
LEMMA SameShape ==
    ASSUME NEW s, IsLog(s), NEW t, DOMAIN t = DOMAIN s, t = [i \in DOMAIN t |-> t[i]]
    PROVE  IsLog(t) /\ Len(t) = Len(s)
<1>1. Len(s) \in Nat /\ DOMAIN t = 1 .. Len(s)
  BY LogLength
<1>2. t \in [1 .. Len(s) -> {t[i] : i \in 1 .. Len(s)}]
  BY <1>1
<1>3. PICK T : t \in [1 .. Len(s) -> T]
  BY <1>2
<1>4. t \in Seq(T) /\ Len(t) = Len(s)
  BY <1>1, <1>3
<1> QED BY <1>4 DEF IsLog

\* What is stored is the frame, numbered.
SameMessage(e, m) ==
    /\ IsMessage(e) /\ e.dir = m.dir /\ e.id = m.id /\ e.asks = m.asks /\ e.state = m.state
    /\ e.sub = m.sub /\ e.method = m.method /\ e.modern = m.modern /\ e.topics = m.topics
    /\ e.topic = m.topic

LEMMA StoreLog ==
    ASSUME NEW to, IsLog(to), NEW m, IsMessage(m), NEW t, t = Store(to, m)
    PROVE  \E e : Appended(to, t, e) /\ SameMessage(e, m)
<1>1. PICK e : e = [m EXCEPT !.seq = Len(to)]
  OBVIOUS
<1>2. SameMessage(e, m)
  <2>1. DOMAIN e = DOMAIN m /\ \A f \in DOMAIN m : f # "seq" => e[f] = m[f]
    BY <1>1
  <2>2. \A f \in MessageFields : f # "seq" => e[f] = m[f]
    BY <2>1 DEF IsMessage
  <2>3. /\ e.dir = m.dir /\ e.id = m.id /\ e.asks = m.asks /\ e.state = m.state
        /\ e.sub = m.sub /\ e.method = m.method
    BY ONLY <2>2 DEF MessageFields
  <2>4. e.modern = m.modern /\ e.topics = m.topics /\ e.topic = m.topic
    BY ONLY <2>2 DEF MessageFields
  <2> QED BY <2>1, <2>3, <2>4 DEF IsMessage, SameMessage
<1>3. t = Append(to, e)
  BY <1>1 DEF Store
<1>4. Appended(to, t, e)
  BY <1>3, AppendLog
<1> QED BY <1>2, <1>4

-----------------------------------------------------------------------------
(* Subscriptions *)

\* Tasks end, are aborted and looked at; what was received stays.
SubsKept ==
    /\ IsLog(subs') /\ Len(subs') = Len(subs) /\ DOMAIN subs' = DOMAIN subs
    /\ \A x \in DOMAIN subs :
          /\ DOMAIN subs'[x] = SubFields /\ subs'[x].id = subs[x].id /\ subs'[x].got = subs[x].got
          /\ subs'[x].accepted = subs[x].accepted /\ subs'[x].expected = subs[x].expected
          /\ subs'[x].ack = subs[x].ack

LEMMA SubTask ==
    ASSUME NEW s, DOMAIN s = SubFields, NEW v, NEW t,
           t = [s EXCEPT !.task = v] \/ t = [s EXCEPT !.closed = v] \/ t = s
    PROVE  /\ DOMAIN t = SubFields /\ t.id = s.id /\ t.got = s.got /\ t.accepted = s.accepted
           /\ t.expected = s.expected /\ t.ack = s.ack
BY DEF SubFields

LEMMA KeptIfSame == ASSUME TypeInv, subs' = subs PROVE SubsKept
BY LogLength DEF TypeInv, SubsKept

LEMMA KeptIfAborting == ASSUME TypeInv, subs' = Aborting(subs) PROVE SubsKept
<1>1. DOMAIN subs' = DOMAIN subs /\ subs' = [x \in DOMAIN subs' |-> subs'[x]]
  BY DEF Aborting
<1>2. IsLog(subs') /\ Len(subs') = Len(subs)
  BY <1>1, SameShape DEF TypeInv
<1>3. ASSUME NEW x \in DOMAIN subs
      PROVE  /\ DOMAIN subs'[x] = SubFields /\ subs'[x].id = subs[x].id /\ subs'[x].got = subs[x].got
             /\ subs'[x].accepted = subs[x].accepted /\ subs'[x].expected = subs[x].expected
             /\ subs'[x].ack = subs[x].ack
  <2>1. PICK s, t : s = subs[x] /\ t = subs'[x]
    OBVIOUS
  <2>2. DOMAIN s = SubFields /\ (t = [s EXCEPT !.task = "aborting"] \/ t = s)
    BY <2>1 DEF TypeInv, Aborting
  <2> QED BY <2>1, <2>2, SubTask
<1> QED BY <1>1, <1>2, <1>3 DEF SubsKept

LEMMA KeptIfClosed == ASSUME TypeInv, subs' = Closed(subs) PROVE SubsKept
<1>1. DOMAIN subs' = DOMAIN subs /\ subs' = [x \in DOMAIN subs' |-> subs'[x]]
  BY DEF Closed
<1>2. IsLog(subs') /\ Len(subs') = Len(subs)
  BY <1>1, SameShape DEF TypeInv
<1>3. ASSUME NEW x \in DOMAIN subs
      PROVE  /\ DOMAIN subs'[x] = SubFields /\ subs'[x].id = subs[x].id /\ subs'[x].got = subs[x].got
             /\ subs'[x].accepted = subs[x].accepted /\ subs'[x].expected = subs[x].expected
             /\ subs'[x].ack = subs[x].ack
  <2>1. PICK s, t, v : s = subs[x] /\ t = subs'[x] /\ v = (subs[x].closed \/ x \in Ended(subs))
    OBVIOUS
  <2>2. DOMAIN s = SubFields /\ t = [s EXCEPT !.closed = v]
    BY <2>1 DEF TypeInv, Closed
  <2> QED BY <2>1, <2>2, SubTask
<1> QED BY <1>1, <1>2, <1>3 DEF SubsKept

LEMMA KeptIfTask ==
    ASSUME TypeInv, NEW y \in DOMAIN subs, NEW v, subs' = [subs EXCEPT ![y].task = v]
    PROVE  SubsKept
<1>1. DOMAIN subs' = DOMAIN subs /\ subs' = [x \in DOMAIN subs' |-> subs'[x]]
  OBVIOUS
<1>2. IsLog(subs') /\ Len(subs') = Len(subs)
  BY <1>1, SameShape DEF TypeInv
<1>3. ASSUME NEW x \in DOMAIN subs
      PROVE  /\ DOMAIN subs'[x] = SubFields /\ subs'[x].id = subs[x].id /\ subs'[x].got = subs[x].got
             /\ subs'[x].accepted = subs[x].accepted /\ subs'[x].expected = subs[x].expected
             /\ subs'[x].ack = subs[x].ack
  <2>1. PICK s, t : s = subs[x] /\ t = subs'[x]
    OBVIOUS
  <2>2. DOMAIN s = SubFields /\ (t = [s EXCEPT !.task = v] \/ t = s)
    BY <2>1 DEF TypeInv
  <2> QED BY <2>1, <2>2, SubTask
<1> QED BY <1>1, <1>2, <1>3 DEF SubsKept

-----------------------------------------------------------------------------
(* Steps that record nothing *)

Calm == record' = record /\ capture' = capture /\ SubsKept

LEMMA CalmStream ==
    ASSUME TypeInv, StreamInv, record' = record, SubsKept, stage = "ended" => stage' = "ended" /\ result' = result
    PROVE  StreamInv'
<1> SUFFICES ASSUME stage' # "ended" \/ result' = "ok"
             PROVE  /\ \A x \in DOMAIN subs' :
                          /\ subs'[x].id # NoId /\ Evidence(subs[x])'
                          /\ subs'[x].ack = "ok" => subs'[x].got # 0
                    /\ \A x, y \in DOMAIN subs' : subs'[x].id = subs'[y].id => x = y
                    /\ \A k \in DOMAIN record' : record'[k].dir = "s2c" /\ record'[k].sub # NoId =>
                          \E x \in DOMAIN subs' : subs'[x].id = record'[k].sub
  BY DEF StreamInv
<1>1. stage # "ended" \/ result = "ok"
  OBVIOUS
<1>2. ASSUME NEW x \in DOMAIN subs PROVE Evidence(subs[x])'
  <2>1. Evidence(subs[x])
    BY <1>1 DEF StreamInv
  <2>2. \A id : Stream(id)' = Stream(id)
    BY DEF Stream
  <2>3. subs'[x].id = subs[x].id /\ subs'[x].got = subs[x].got /\ subs'[x].accepted = subs[x].accepted
    BY DEF SubsKept
  <2> QED BY <2>1, <2>2, <2>3 DEF Evidence, Stream
<1> QED BY <1>1, <1>2 DEF StreamInv, SubsKept

LEMMA CalmRecord ==
    ASSUME ReplayInv, Calm, stage = "ended" => stage' = "ended" /\ result' = result, index' \in Nat \ {0}
    PROVE  TypeInv' /\ RecordInv'
<1>1. TypeInv'
  BY DEF ReplayInv, TypeInv, Calm, SubsKept, Driven
<1>2. SentInv'
  BY DEF ReplayInv, RecordInv, SentInv, Calm, Live, Numbered, LastAsk, DrivenIds, Driven, RetryId
<1>3. PacedInv'
  BY DEF ReplayInv, RecordInv, PacedInv, Calm, Listens, Acked, IsListen
<1>4. StreamInv'
  BY CalmStream DEF ReplayInv, RecordInv, Calm
<1> QED BY <1>1, <1>2, <1>3, <1>4 DEF RecordInv

\* drive returns, or what follows it goes on.
LEMMA OverControl ==
    ASSUME ReplayInv, capture' = capture, SubsKept, UNCHANGED <<index, late>>, stage # "ended", stage' \in Over,
           result' = "ok" => /\ \A x \in DOMAIN subs : subs'[x].task \notin {"running", "aborting"}
                             /\ index > Len(Driven)
                             /\ \A x \in DOMAIN subs : subs[x].got = subs[x].expected
    PROVE  ControlInv'
<1>1. DriveInv' /\ AskInv' /\ PostInv' /\ OpeningInv' /\ AckedInv'
  BY DEF DriveInv, AskInv, PostInv, OpeningInv, AckedInv, Over, Exchange, Opening
<1>2. CloseInv'
  BY DEF ReplayInv, ControlInv, CloseInv, SubsKept
<1>3. PassedInv'
  BY DEF ReplayInv, ControlInv, PassedInv, SubsKept, Over, Driven, Follows, IsListen
<1>4. EndInv'
  BY DEF EndInv, SubsKept, Over, Driven
<1> QED BY <1>1, <1>2, <1>3, <1>4 DEF ControlInv

LEMMA OverStep ==
    ASSUME ReplayInv, Calm, UNCHANGED <<index, late>>, stage # "ended", stage' \in Over,
           result' = "ok" => /\ \A x \in DOMAIN subs : subs'[x].task \notin {"running", "aborting"}
                             /\ index > Len(Driven)
                             /\ \A x \in DOMAIN subs : subs[x].got = subs[x].expected
    PROVE  ReplayInv'
<1>1. TypeInv' /\ RecordInv'
  BY CalmRecord DEF ReplayInv, TypeInv
<1>2. ControlInv'
  BY OverControl DEF Calm
<1> QED BY <1>1, <1>2 DEF ReplayInv

LEMMA FailStep ==
    ASSUME ReplayInv, Fail, UNCHANGED <<capture, record, index, late>>, stage # "ended"
    PROVE  ReplayInv'
<1>1. result' = "error" /\ stage' \in Over /\ subs' = Aborting(subs)
  BY DEF Fail, Return, Over
<1>2. SubsKept
  BY <1>1, KeptIfAborting DEF ReplayInv
<1> QED BY <1>1, <1>2, OverStep DEF Calm

\* drive goes on to a stage in which it sends nothing before another step.
Between == {"next", "checking", "settling", "evidence", "joining"}

LEMMA BetweenStep ==
    ASSUME ReplayInv, Calm, UNCHANGED <<late, result>>, stage \notin Over, stage' \in Between,
           index' \in Nat \ {0}, PassedInv', EndInv',
           \A i \in DOMAIN record : Listens(i) => Acked(i, Len(record))
    PROVE  ReplayInv'
<1>1. TypeInv' /\ RecordInv'
  BY CalmRecord DEF Over
<1>2. stage' \notin Over /\ result = "none" /\ result' = "none"
  BY DEF ReplayInv, ControlInv, DriveInv, Between, Over
<1>3. DriveInv' /\ AskInv' /\ PostInv' /\ OpeningInv'
  BY <1>2 DEF DriveInv, AskInv, PostInv, OpeningInv, Exchange, Opening, Between
<1>4. CloseInv'
  BY <1>2 DEF ReplayInv, ControlInv, CloseInv, Over
<1>5. AckedInv'
  BY DEF AckedInv, Between, Calm, Listens, Acked, IsListen
<1> QED BY <1>1, <1>3, <1>4, <1>5 DEF ReplayInv, ControlInv

\* The message at index is done with.
LEMMA MessageDone ==
    ASSUME ReplayInv, stage \in Exchange, Calm, UNCHANGED <<late, result>>, stage' = "checking",
           index' = index + 1
    PROVE  ReplayInv'
<1>1. index' \in Nat \ {0} /\ index \in Nat /\ stage \notin Over /\ result' = "none"
  BY DEF ReplayInv, ControlInv, DriveInv, TypeInv, Exchange, Over
<1>2. ~IsListen(Driven[index])
  BY DEF ReplayInv, ControlInv, DriveInv
<1>3. DOMAIN Driven \subseteq Nat
  BY LogLength DEF ReplayInv, TypeInv
<1>4. ASSUME NEW d \in DOMAIN Driven, IsListen(Driven[d]), d < index + 1 PROVE d < index
  BY <1>1, <1>2, <1>3, <1>4
<1>5. PassedInv'
  BY <1>1, <1>4 DEF ReplayInv, ControlInv, PassedInv, Calm, SubsKept, Driven, Follows, IsListen
<1>6. EndInv'
  BY <1>1 DEF EndInv
<1>7. \A i \in DOMAIN record : Listens(i) => Acked(i, Len(record))
  BY DEF ReplayInv, ControlInv, AckedInv, Exchange, Over
<1> QED BY <1>1, <1>5, <1>6, <1>7, BetweenStep DEF Between

\* The exchange of the message at index goes on.
LEMMA ExchangeGoesOn ==
    ASSUME ReplayInv, stage \in {"posting", "json", "sse"}, Calm,
           UNCHANGED <<late, result, index, request, required>>,
           stage' \in {"json", "sse", "rejecting", "answered"}
    PROVE  ReplayInv'
<1>1. TypeInv' /\ RecordInv'
  BY CalmRecord DEF ReplayInv, TypeInv
<1>2. result = "none" /\ result' = "none"
  BY DEF ReplayInv, ControlInv, DriveInv, Over
<1>3. DriveInv'
  BY <1>2 DEF ReplayInv, ControlInv, DriveInv, Exchange, Opening, Calm, Driven, IsListen, IsMessage
<1>4. AskInv'
  BY DEF ReplayInv, ControlInv, AskInv, Calm, LastAsk
<1>5. PostInv' /\ OpeningInv' /\ EndInv'
  BY <1>2 DEF PostInv, OpeningInv, EndInv
<1>6. CloseInv'
  BY <1>2 DEF ReplayInv, ControlInv, CloseInv
<1>7. AckedInv'
  BY DEF ReplayInv, ControlInv, AckedInv, Calm, Listens, Acked, IsListen, Over
<1>8. PassedInv'
  BY DEF ReplayInv, ControlInv, PassedInv, Calm, SubsKept, Driven, Follows, IsListen
<1> QED BY <1>1, <1>3, <1>4, <1>5, <1>6, <1>7, <1>8 DEF ReplayInv, ControlInv

LEMMA RespondStep == ASSUME ReplayInv, Respond PROVE ReplayInv'
<1>1. stage = "posting" /\ UNCHANGED <<capture, request, required, record, late>>
  BY DEF Respond
<1>2. CASE Fail /\ index' = index
  BY <1>1, <1>2, FailStep
<1>3. CASE stage' \in {"json", "sse", "rejecting"} /\ UNCHANGED <<subs, result>>
  <2>1. index' = index
    BY <1>3 DEF Respond
  <2> QED BY <1>1, <1>3, <2>1, ExchangeGoesOn, KeptIfSame DEF ReplayInv, Calm
<1>4. CASE stage' = "checking" /\ UNCHANGED <<subs, result>>
  <2>1. index' = index + 1
    BY <1>4 DEF Respond
  <2> QED BY <1>1, <1>4, <2>1, MessageDone, KeptIfSame DEF ReplayInv, Calm, Exchange
<1>5. Fail => index' = index
  BY DEF Fail, Return, Respond
<1> QED BY <1>2, <1>3, <1>4, <1>5 DEF Respond

LEMMA ExpireStep == ASSUME ReplayInv, Expire PROVE ReplayInv'
<1>1. /\ stage \in Exchange /\ stage' = "checking" /\ index' = index + 1
      /\ UNCHANGED <<capture, subs, record, late, result>>
  BY DEF Expire, Exchange
<1> QED BY <1>1, MessageDone, KeptIfSame DEF ReplayInv, Calm

LEMMA EndBodyStep == ASSUME ReplayInv, EndBody PROVE ReplayInv'
<1>1. /\ stage \in {"json", "sse"} /\ stage' = "answered"
      /\ UNCHANGED <<capture, subs, record, late, result, index, request, required>>
  BY DEF EndBody
<1> QED BY <1>1, ExchangeGoesOn, KeptIfSame DEF ReplayInv, Calm

\* The steps that end drive, and those after it.
LEMMA FailingSteps ==
    ASSUME ReplayInv,
           \/ ConnectionFails \/ Rejected \/ ListenRefusalRead \/ ListenFails \/ SettleExpires
    PROVE  ReplayInv'
<1>1. Fail /\ UNCHANGED <<capture, record, index, late>> /\ stage # "ended"
  BY DEF ConnectionFails, Rejected, ListenRefusalRead, ListenFails, SettleExpires
<1> QED BY <1>1, FailStep

LEMMA EndingSteps ==
    ASSUME ReplayInv, RefuseSource \/ Joined \/ Deleted \/ Finish
    PROVE  ReplayInv'
<1>1. UNCHANGED <<capture, record, index, late, subs>> /\ stage # "ended" /\ stage' \in Over
  BY DEF RefuseSource, Joined, Deleted, Finish, Return, Over
<1>2. SubsKept
  BY <1>1, KeptIfSame DEF ReplayInv
<1>3. ASSUME result' = "ok"
      PROVE  /\ \A x \in DOMAIN subs : subs'[x].task \notin {"running", "aborting"}
             /\ index > Len(Driven)
             /\ \A x \in DOMAIN subs : subs[x].got = subs[x].expected
  <2>1. CASE Joined
    BY <1>1, <2>1 DEF Joined, TasksOver, ReplayInv, ControlInv, EndInv
  <2>2. CASE Deleted \/ Finish
    <3>1. result = "ok"
      BY <1>3, <2>2 DEF Deleted, Finish
    <3> QED BY <1>1, <3>1 DEF ReplayInv, ControlInv, EndInv, CloseInv
  <2>3. CASE RefuseSource
    BY <1>3, <2>3 DEF RefuseSource
  <2> QED BY <2>1, <2>2, <2>3
<1> QED BY <1>1, <1>2, <1>3, OverStep DEF Calm

LEMMA WaitingSteps ==
    ASSUME ReplayInv, OpenTarget \/ CheckSubscriptions \/ SettleCheck \/ Settled \/ KeepWaiting
    PROVE  ReplayInv'
<1>1. /\ UNCHANGED <<capture, record, index, late>>
      /\ stage \in {"start", "checking", "settling", "evidence"}
  BY DEF OpenTarget, CheckSubscriptions, SettleCheck, Settled, KeepWaiting
<1>2. CASE Fail
  BY <1>1, <1>2, FailStep
<1>3. CASE ~Fail
  <2>1. /\ UNCHANGED result /\ stage' \in Between
        /\ subs' = subs \/ subs' = Aborting(subs) \/ subs' = Closed(subs)
        /\ stage' \in {"settling", "evidence", "joining"} => stage \in {"settling", "evidence"}
        /\ stage' = "joining" => AllReceived
    BY <1>3 DEF OpenTarget, CheckSubscriptions, SettleCheck, Settled, KeepWaiting, Between
  <2>2. SubsKept
    BY <2>1, KeptIfSame, KeptIfAborting, KeptIfClosed DEF ReplayInv
  <2>3. result' = "none" /\ stage \notin Over /\ index' \in Nat \ {0}
    BY <1>1, <2>1 DEF ReplayInv, ControlInv, DriveInv, TypeInv, Over
  <2>4. PassedInv'
    BY <1>1, <2>1, <2>2
       DEF ReplayInv, ControlInv, PassedInv, SubsKept, Driven, Follows, IsListen, Between
  <2>5. EndInv'
    BY <1>1, <2>1, <2>2, <2>3
       DEF ReplayInv, ControlInv, EndInv, SubsKept, Driven, AllReceived, Between
  <2>6. \A i \in DOMAIN record : Listens(i) => Acked(i, Len(record))
    BY <1>1 DEF ReplayInv, ControlInv, AckedInv, Over
  <2> QED BY <1>1, <2>1, <2>2, <2>3, <2>4, <2>5, <2>6, BetweenStep DEF Calm
<1> QED BY <1>2, <1>3

LEMMA TakeMessageStep == ASSUME ReplayInv, TakeMessage PROVE ReplayInv'
<1>1. /\ stage = "next" /\ UNCHANGED <<capture, index, required, subs, record, late, result>>
  BY DEF TakeMessage
<1>2. Calm /\ result' = "none" /\ index \in Nat \ {0} /\ Len(Driven) \in Nat /\ DOMAIN Driven = 1 .. Len(Driven)
  BY <1>1, KeptIfSame, LogLength DEF Calm, ReplayInv, ControlInv, DriveInv, TypeInv, Over
<1>3. PassedInv'
  BY <1>1, <1>2 DEF ReplayInv, ControlInv, PassedInv, Calm, SubsKept, Driven, Follows, IsListen, TakeMessage
<1>4. \A i \in DOMAIN record : Listens(i) => Acked(i, Len(record))
  BY <1>1 DEF ReplayInv, ControlInv, AckedInv, Over
<1>5. CASE index > Len(Driven)
  <2>1. stage' = "settling"
    BY <1>5 DEF TakeMessage
  <2>2. EndInv'
    BY <1>1, <1>2, <1>5, <2>1 DEF EndInv, Driven
  <2> QED BY <1>1, <1>2, <1>3, <1>4, <2>1, <2>2, BetweenStep DEF Between, Over
<1>6. CASE ~(index > Len(Driven))
  <2>1. /\ request' = Driven[index] /\ index <= Len(Driven) /\ index \in DOMAIN Driven
        /\ stage' = IF IsListen(Driven[index]) THEN "listen" ELSE "post"
    BY <1>2, <1>6 DEF TakeMessage
  <2>2. TypeInv' /\ RecordInv'
    BY <1>1, <1>2, CalmRecord
  <2>3. IsMessage(Driven[index]) /\ Driven[index].dir = "c2s" /\ Driven[index].asks = FALSE
    BY <2>1 DEF ReplayInv, TypeInv
  <2>4. DriveInv'
    BY <1>1, <1>2, <2>1, <2>3 DEF DriveInv, Exchange, Opening, Driven, IsListen, IsMessage
  <2>5. CloseInv'
    BY <1>1, <1>2 DEF CloseInv, ReplayInv, ControlInv
  <2>6. AskInv' /\ EndInv' /\ OpeningInv'
    BY <1>2, <2>1 DEF AskInv, EndInv, OpeningInv
  <2>7. PostInv'
    BY <1>1, <2>1 DEF PostInv, DrivenIds, Driven
  <2>8. AckedInv'
    BY <1>1, <1>4, <2>1 DEF AckedInv, Listens, Acked, IsListen
  <2> QED BY <1>3, <2>2, <2>4, <2>5, <2>6, <2>7, <2>8 DEF ReplayInv, ControlInv
<1> QED BY <1>5, <1>6

\* A retry is the recorded one with the live state, under its own number.
LEMMA RetryStep ==
    ASSUME ReplayInv, stage = "answered", required.asks, CanRetry, Calm, UNCHANGED <<late, result>>,
           request' = build_mrtr_retry_request(Driven[index + 1], required, RetryId(Len(record))),
           index' = index + 1, stage' = "post"
    PROVE  ReplayInv'
<1>1. /\ result' = "none" /\ index \in Nat \ {0} /\ index <= Len(Driven) /\ ~IsListen(Driven[index])
      /\ request.method = Driven[index].method /\ request.modern = Driven[index].modern
      /\ Len(Driven) \in Nat /\ DOMAIN Driven = 1 .. Len(Driven) /\ Len(record) \in Nat
      /\ DOMAIN record = 1 .. Len(record)
  BY LogLength DEF ReplayInv, ControlInv, DriveInv, TypeInv, Over, Exchange
<1>2. PICK m, r : m = Driven[index + 1] /\ r = request'
  OBVIOUS
<1>3. index < Len(Driven)
  BY DEF CanRetry
<1>4. IsMessage(m) /\ m.dir = "c2s" /\ m.asks = FALSE
  BY <1>1, <1>2, <1>3 DEF ReplayInv, TypeInv
<1>5. m.method = Driven[index].method /\ m.method # "listen"
  BY <1>1, <1>2 DEF CanRetry, RetryFits, is_mrtr_capable_request
<1>6. /\ IsMessage(r) /\ r.dir = "c2s" /\ r.asks = FALSE /\ r.method = m.method /\ r.modern = m.modern
      /\ r.state = required.state /\ r.id = RetryId(Len(record))
  <2>1. PICK one : one = [m EXCEPT !.state = required.state]
    OBVIOUS
  <2>2. r = [one EXCEPT !.id = RetryId(Len(record))]
    BY <1>2, <2>1 DEF build_mrtr_retry_request
  <2>3. /\ IsMessage(one) /\ one.dir = m.dir /\ one.asks = m.asks /\ one.method = m.method
        /\ one.modern = m.modern /\ one.state = required.state
    BY <1>4, <2>1 DEF IsMessage, MessageFields
  <2>4. /\ IsMessage(r) /\ r.dir = one.dir /\ r.asks = one.asks /\ r.method = one.method
        /\ r.modern = one.modern /\ r.state = one.state /\ r.id = RetryId(Len(record))
    BY <2>2, <2>3 DEF IsMessage, MessageFields
  <2> QED BY <1>4, <2>3, <2>4
<1>7. TypeInv' /\ RecordInv'
  BY <1>1, CalmRecord
<1>8. DriveInv'
  BY <1>1, <1>2, <1>3, <1>5, <1>6 DEF DriveInv, Exchange, Opening, Driven, IsListen, IsMessage, Calm
<1>9. CloseInv' /\ AskInv' /\ EndInv' /\ OpeningInv'
  BY <1>1 DEF ReplayInv, ControlInv, CloseInv, AskInv, EndInv, OpeningInv
<1>10. PostInv'
  <2>1. PICK j \in 1 .. Len(record) : LastAsk(j, Len(record)) /\ record[j].state = required.state
    BY DEF ReplayInv, ControlInv, AskInv
  <2>2. Numbered(r.id, Len(record))
    BY <1>1, <1>6 DEF Numbered
  <2>3. Live(r, Len(record))
    BY <1>6, <2>1, <2>2 DEF Live
  <2> QED BY <1>2, <2>3 DEF PostInv, Live, Numbered, LastAsk, Calm, RetryId
<1>11. PassedInv'
  <2>1. ASSUME NEW d \in DOMAIN Driven, IsListen(Driven[d]), d < index + 1 PROVE d < index
    BY <1>1, <2>1
  <2> QED BY <2>1 DEF ReplayInv, ControlInv, PassedInv, Calm, SubsKept, Driven, Follows, IsListen
<1>12. AckedInv'
  BY DEF ReplayInv, ControlInv, AckedInv, Calm, Listens, Acked, IsListen, Over
<1> QED BY <1>7, <1>8, <1>9, <1>10, <1>11, <1>12 DEF ReplayInv, ControlInv

LEMMA AnsweredStep == ASSUME ReplayInv, Answered PROVE ReplayInv'
<1>1. stage = "answered" /\ UNCHANGED <<capture, required, record, late>>
  BY DEF Answered
<1>2. CASE ~required.asks
  <2>1. stage' = "checking" /\ index' = index + 1 /\ UNCHANGED <<subs, result>>
    BY <1>2 DEF Answered
  <2> QED BY <1>1, <2>1, MessageDone, KeptIfSame DEF ReplayInv, Calm, Exchange
<1>3. CASE required.asks /\ CanRetry
  <2>1. /\ request' = build_mrtr_retry_request(Driven[index + 1], required, RetryId(Len(record)))
        /\ index' = index + 1 /\ stage' = "post" /\ UNCHANGED <<subs, result>>
    BY <1>3 DEF Answered, AfterRetry
  <2> QED BY <1>1, <1>3, <2>1, RetryStep, KeptIfSame DEF ReplayInv, Calm
<1>4. CASE required.asks /\ ~CanRetry
  BY <1>1, <1>4, FailStep DEF Answered
<1> QED BY <1>2, <1>3, <1>4

LEMMA ListenRefusedStep == ASSUME ReplayInv, ListenRefused PROVE ReplayInv'
<1>1. /\ stage = "opening" /\ stage' = "refusing"
      /\ UNCHANGED <<capture, index, request, subs, record, late, result>>
  BY DEF ListenRefused
<1>2. Calm /\ result' = "none" /\ index \in Nat \ {0}
  BY <1>1, KeptIfSame DEF Calm, ReplayInv, ControlInv, DriveInv, TypeInv, Over
<1>3. TypeInv' /\ RecordInv'
  BY <1>1, <1>2, CalmRecord
<1>4. DriveInv'
  BY <1>1, <1>2 DEF ReplayInv, ControlInv, DriveInv, Exchange, Opening, Driven, IsListen
<1>5. CloseInv' /\ AskInv' /\ PostInv' /\ EndInv' /\ OpeningInv' /\ AckedInv'
  BY <1>1, <1>2 DEF ReplayInv, ControlInv, CloseInv, AskInv, PostInv, EndInv, OpeningInv, AckedInv
<1>6. PassedInv'
  BY <1>1, <1>2 DEF ReplayInv, ControlInv, PassedInv, SubsKept, Driven, Follows, IsListen
<1> QED BY <1>3, <1>4, <1>5, <1>6 DEF ReplayInv, ControlInv

\* The acknowledgment was recorded after the request, because the stream was
\* empty when that was sent.
LEMMA AcknowledgedStep == ASSUME ReplayInv, Acknowledged PROVE ReplayInv'
<1>1. /\ stage = "acking" /\ stage' = "checking" /\ index' = index + 1
      /\ UNCHANGED <<capture, subs, record, late, result>> /\ Last(subs).ack = "ok"
  BY DEF Acknowledged, AckArrived
<1>2. /\ Calm /\ result' = "none" /\ index \in Nat \ {0} /\ Len(record) \in Nat
      /\ DOMAIN record = 1 .. Len(record) /\ stage \notin Over /\ DOMAIN Driven \subseteq Nat
  <2>1. Calm
    BY <1>1, KeptIfSame DEF Calm, ReplayInv
  <2>2. Len(record) \in Nat /\ DOMAIN record = 1 .. Len(record) /\ DOMAIN Driven \subseteq Nat
    BY LogLength DEF ReplayInv, TypeInv
  <2>3. result' = "none" /\ index \in Nat \ {0} /\ stage \notin Over
    BY <1>1 DEF ReplayInv, ControlInv, DriveInv, TypeInv, Over
  <2> QED BY <2>1, <2>2, <2>3
<1>3. \E k \in Stream(request.id) : record[k].method = "acknowledged"
  <2>1. PICK s : s = subs[Len(subs)]
    OBVIOUS
  <2>2. s.ack = "ok" /\ s.id = request.id /\ Len(subs) \in DOMAIN subs
    BY <1>1, <2>1 DEF Last, ReplayInv, ControlInv, OpeningInv
  <2>3. Evidence(s) /\ s.got # 0
    BY <1>1, <2>1, <2>2 DEF ReplayInv, RecordInv, StreamInv
  <2> QED BY <2>2, <2>3 DEF Evidence
<1>4. ASSUME NEW i \in DOMAIN record, Listens(i) PROVE Acked(i, Len(record))
  <2>1. CASE record[i].id = request.id /\ \A k \in Stream(request.id) : i < k
    <3>1. PICK k \in Stream(request.id) : record[k].method = "acknowledged"
      BY <1>3
    <3>2. k \in i .. Len(record) /\ record[k].sub = record[i].id
      BY <1>2, <2>1, <3>1 DEF Stream
    <3> QED BY <3>1, <3>2 DEF Acked
  <2> QED BY <1>1, <1>4, <2>1 DEF ReplayInv, ControlInv, AckedInv
<1>5. PassedInv'
  <2>1. ASSUME NEW d \in DOMAIN Driven, d < index + 1 PROVE d < index \/ d = index
    BY <1>2, <2>1
  <2> QED BY <1>1, <2>1 DEF ReplayInv, ControlInv, PassedInv, Driven, Follows, IsListen
<1>6. EndInv'
  BY <1>1, <1>2 DEF EndInv
<1> QED BY <1>1, <1>2, <1>4, <1>5, <1>6, BetweenStep DEF Between

-----------------------------------------------------------------------------
(* Steps that record one message *)

Grown(e) == Appended(record, record', e) /\ IsMessage(e) /\ e.asks \in BOOLEAN

LEMMA GrownLog ==
    ASSUME TypeInv, NEW e, Grown(e)
    PROVE  /\ Len(record) \in Nat /\ DOMAIN record = 1 .. Len(record) /\ Len(record') = Len(record) + 1
           /\ DOMAIN record' = 1 .. Len(record) + 1 /\ record'[Len(record) + 1] = e
           /\ \A i \in 1 .. Len(record) : record'[i] = record[i]
<1>1. Len(record) \in Nat /\ DOMAIN record = 1 .. Len(record)
  BY LogLength DEF TypeInv
<1> QED BY <1>1 DEF Grown, Appended

\* What was said of a prefix stays said.
LEMMA LivePrefix ==
    ASSUME TypeInv, NEW e, Grown(e), NEW n \in 0 .. Len(record), NEW m, Live(m, n)
    PROVE  Live(m, n)'
<1>1. /\ Len(record) \in Nat /\ \A i \in 1 .. Len(record) : record'[i] = record[i]
  BY GrownLog
<1>2. Numbered(m.id, n)'
  BY <1>1 DEF Live, Numbered, RetryId
<1>3. PICK j \in 1 .. n : LastAsk(j, n) /\ record[j].state = m.state
  BY DEF Live
<1>4. LastAsk(j, n)' /\ record'[j].state = m.state
  BY <1>1, <1>3 DEF LastAsk
<1> QED BY <1>2, <1>3, <1>4 DEF Live

LEMMA GrownSent ==
    ASSUME TypeInv, SentInv, capture' = capture, NEW e, Grown(e),
           e.dir = "c2s" => e.id \in DrivenIds \/ Live(e, Len(record))
    PROVE  SentInv'
<1>1. /\ Len(record) \in Nat /\ DOMAIN record' = 1 .. Len(record) + 1 /\ record'[Len(record) + 1] = e
      /\ DOMAIN record = 1 .. Len(record) /\ \A i \in 1 .. Len(record) : record'[i] = record[i]
  BY GrownLog
<1>2. DrivenIds' = DrivenIds
  BY DEF DrivenIds, Driven
<1> SUFFICES ASSUME NEW i \in DOMAIN record', record'[i].dir = "c2s"
             PROVE  record'[i].id \in DrivenIds \/ Live(record[i], i - 1)'
  BY <1>2 DEF SentInv
<1>3. CASE i \in DOMAIN record
  <2>1. record'[i] = record[i] /\ i - 1 \in 0 .. Len(record)
    BY <1>1, <1>3
  <2>2. PICK m, n : m = record[i] /\ n = i - 1
    OBVIOUS
  <2>3. m.id \in DrivenIds \/ Live(m, n)
    BY <1>3, <2>1, <2>2 DEF SentInv
  <2>4. m.id \in DrivenIds \/ Live(m, n)'
    BY <2>1, <2>2, <2>3, LivePrefix
  <2> QED BY <2>1, <2>2, <2>4 DEF Live, Numbered, LastAsk
<1>4. CASE i = Len(record) + 1
  <2>1. record'[i] = e /\ i - 1 = Len(record)
    BY <1>1, <1>4
  <2>2. PICK m, n : m = e /\ n = Len(record)
    OBVIOUS
  <2>3. m.id \in DrivenIds \/ Live(m, n)'
    BY <1>1, <2>1, <2>2, LivePrefix
  <2> QED BY <2>1, <2>2, <2>3 DEF Live, Numbered, LastAsk
<1> QED BY <1>1, <1>3, <1>4

LEMMA AckedPrefix ==
    ASSUME TypeInv, NEW e, Grown(e), NEW i \in 1 .. Len(record), NEW n \in 0 .. Len(record)
    PROVE  /\ Listens(i)' <=> Listens(i)
           /\ Acked(i, n) => Acked(i, n)' /\ Acked(i, n + 1)'
<1>1. /\ Len(record) \in Nat /\ \A k \in 1 .. Len(record) : record'[k] = record[k]
  BY GrownLog
<1>2. Listens(i)' <=> Listens(i)
  BY <1>1 DEF Listens, IsListen
<1>3. ASSUME Acked(i, n) PROVE Acked(i, n)' /\ Acked(i, n + 1)'
  <2>1. PICK k \in i .. n : record[k].method = "acknowledged" /\ record[k].sub = record[i].id
    BY <1>3 DEF Acked
  <2>2. record'[k] = record[k] /\ record'[i] = record[i] /\ k \in i .. n /\ k \in i .. n + 1
    BY <1>1
  <2> QED BY <2>1, <2>2 DEF Acked
<1> QED BY <1>2, <1>3

LEMMA GrownPaced ==
    ASSUME TypeInv, PacedInv, NEW e, Grown(e),
           e.dir = "c2s" => \A i \in DOMAIN record : Listens(i) => Acked(i, Len(record))
    PROVE  PacedInv'
<1>1. /\ Len(record) \in Nat /\ DOMAIN record' = 1 .. Len(record) + 1 /\ record'[Len(record) + 1] = e
      /\ DOMAIN record = 1 .. Len(record) /\ \A i \in 1 .. Len(record) : record'[i] = record[i]
      /\ Len(record') = Len(record) + 1
  BY GrownLog
<1> SUFFICES ASSUME NEW i \in DOMAIN record', NEW j \in (i + 1) .. Len(record'),
                    Listens(i)', record'[j].dir = "c2s"
             PROVE  Acked(i, j)'
  BY DEF PacedInv
<1>2. i \in 1 .. Len(record) /\ Listens(i) /\ i \in DOMAIN record
  BY <1>1, AckedPrefix
<1>3. CASE j \in 1 .. Len(record)
  <2>1. Acked(i, j) /\ j \in 0 .. Len(record)
    BY <1>1, <1>2, <1>3 DEF PacedInv
  <2> QED BY <1>2, <2>1, AckedPrefix
<1>4. CASE j = Len(record) + 1
  <2>1. PICK n : n = Len(record)
    OBVIOUS
  <2>2. Acked(i, n) /\ n \in 0 .. Len(record) /\ j = n + 1
    BY <1>1, <1>2, <1>4, <2>1
  <2>3. Acked(i, n + 1)'
    BY <1>2, <2>2, AckedPrefix
  <2> QED BY <2>2, <2>3 DEF Acked
<1> QED BY <1>1, <1>3, <1>4

\* The message belongs to no stream.
LEMMA GrownStream ==
    ASSUME TypeInv, StreamInv, SubsKept, NEW e, Grown(e), stage # "ended",
           e.dir = "s2c" => e.sub = NoId
    PROVE  StreamInv'
<1>1. /\ Len(record) \in Nat /\ DOMAIN record' = 1 .. Len(record) + 1 /\ record'[Len(record) + 1] = e
      /\ DOMAIN record = 1 .. Len(record) /\ \A i \in 1 .. Len(record) : record'[i] = record[i]
  BY GrownLog
<1>2. ASSUME NEW id, id # NoId PROVE Stream(id)' = Stream(id)
  BY <1>1, <1>2 DEF Stream
<1>3. ASSUME NEW x \in DOMAIN subs PROVE Evidence(subs[x])'
  <2>1. Evidence(subs[x]) /\ subs[x].id # NoId
    BY DEF StreamInv
  <2>2. PICK id, S : id = subs[x].id /\ S = Stream(id)
    OBVIOUS
  <2>3. Stream(id)' = S /\ \A k \in S : record'[k] = record[k]
    BY <1>1, <1>2, <2>1, <2>2 DEF Stream
  <2>4. subs'[x].id = id /\ subs'[x].got = subs[x].got /\ subs'[x].accepted = subs[x].accepted
    BY <2>2 DEF SubsKept
  <2>5. Stream(subs[x].id)' = S /\ Stream(subs[x].id) = S
    BY <2>2, <2>3, <2>4 DEF Stream
  <2> QED BY <2>1, <2>3, <2>4, <2>5 DEF Evidence
<1>4. \A k \in DOMAIN record' : record'[k].dir = "s2c" /\ record'[k].sub # NoId =>
         \E x \in DOMAIN subs' : subs'[x].id = record'[k].sub
  BY <1>1 DEF StreamInv, SubsKept
<1>5. \A x \in DOMAIN subs' : subs'[x].id # NoId /\ (subs'[x].ack = "ok" => subs'[x].got # 0)
  BY DEF StreamInv, SubsKept
<1>6. \A x, y \in DOMAIN subs' : subs'[x].id = subs'[y].id => x = y
  BY DEF StreamInv, SubsKept
<1>7. \A x \in DOMAIN subs' : Evidence(subs[x])'
  BY <1>3 DEF SubsKept
<1> QED BY <1>4, <1>5, <1>6, <1>7 DEF StreamInv

LEMMA GrownTypes ==
    ASSUME TypeInv, capture' = capture, index' \in Nat \ {0}, SubsKept, NEW e, Grown(e)
    PROVE  TypeInv'
<1>1. /\ Len(record) \in Nat /\ DOMAIN record' = 1 .. Len(record) + 1 /\ record'[Len(record) + 1] = e
      /\ DOMAIN record = 1 .. Len(record) /\ \A i \in 1 .. Len(record) : record'[i] = record[i]
  BY GrownLog
<1>2. IsLog(record') /\ IsMessage(e) /\ e.asks \in BOOLEAN
  BY DEF Grown, Appended
<1>3. \A i \in DOMAIN record' : IsMessage(record'[i]) /\ record'[i].asks \in BOOLEAN
  BY <1>1, <1>2 DEF TypeInv
<1>4. IsLog(Driven)' /\ \A d \in DOMAIN Driven' : IsMessage(Driven'[d]) /\ Driven'[d].dir = "c2s" /\ Driven'[d].asks = FALSE
  BY DEF TypeInv, Driven
<1>5. IsLog(subs') /\ \A x \in DOMAIN subs' : DOMAIN subs'[x] = SubFields /\ subs'[x].got \in Nat
  BY DEF TypeInv, SubsKept
<1> QED BY <1>2, <1>3, <1>4, <1>5 DEF TypeInv, IsMessage

LEMMA GrownRecord ==
    ASSUME ReplayInv, capture' = capture, index' \in Nat \ {0}, SubsKept, NEW e, Grown(e), stage # "ended",
           e.dir = "s2c" => e.sub = NoId,
           e.dir = "c2s" => e.id \in DrivenIds \/ Live(e, Len(record)),
           e.dir = "c2s" => \A i \in DOMAIN record : Listens(i) => Acked(i, Len(record))
    PROVE  TypeInv' /\ RecordInv'
<1>1. TypeInv /\ SentInv /\ PacedInv /\ StreamInv
  BY DEF ReplayInv, RecordInv
<1>2. TypeInv'
  BY <1>1, GrownTypes
<1>3. SentInv'
  BY <1>1, GrownSent
<1>4. PacedInv'
  BY <1>1, GrownPaced
<1>5. StreamInv'
  BY <1>1, GrownStream
<1> QED BY <1>2, <1>3, <1>4, <1>5 DEF RecordInv

\* Every acknowledgment was seen, and the message is no listen request.
LEMMA GrownAcked ==
    ASSUME TypeInv, NEW e, Grown(e), ~(e.dir = "c2s" /\ IsListen(e)),
           \A i \in DOMAIN record : Listens(i) => Acked(i, Len(record))
    PROVE  \A i \in DOMAIN record' : Listens(i)' => Acked(i, Len(record))'
<1>1. /\ Len(record) \in Nat /\ DOMAIN record' = 1 .. Len(record) + 1 /\ record'[Len(record) + 1] = e
      /\ DOMAIN record = 1 .. Len(record) /\ Len(record') = Len(record) + 1
  BY GrownLog
<1> TAKE i \in DOMAIN record'
<1> HAVE Listens(i)'
<1>2. i \in 1 .. Len(record)
  BY <1>1 DEF Listens, IsListen
<1>3. PICK n : n = Len(record)
  OBVIOUS
<1>4. Acked(i, n) /\ n \in 0 .. Len(record) /\ Len(record') = n + 1
  BY <1>1, <1>2, <1>3, AckedPrefix
<1>5. Acked(i, n + 1)'
  BY <1>2, <1>4, AckedPrefix
<1> QED BY <1>4, <1>5 DEF Acked

LEMMA PostStep == ASSUME ReplayInv, Post PROVE ReplayInv'
<1>1. stage = "post" /\ UNCHANGED <<capture, index, request, late>>
  BY DEF Post
<1>2. CASE Fail /\ UNCHANGED record
  BY <1>1, <1>2, FailStep
<1>3. CASE record' = Store(record, request) /\ stage' = "posting" /\ required' = NoInput /\ UNCHANGED <<subs, result>>
  <2>1. /\ IsMessage(request) /\ request.dir = "c2s" /\ request.asks = FALSE /\ ~IsListen(Driven[index])
        /\ request.method = Driven[index].method /\ request.modern = Driven[index].modern
        /\ result' = "none"
    BY <1>1, <1>3 DEF ReplayInv, ControlInv, DriveInv, Exchange, Over
  <2>2. PICK e : Appended(record, record', e) /\ SameMessage(e, request)
    <3>1. IsLog(record)
      BY DEF ReplayInv, TypeInv
    <3> QED BY <1>3, <2>1, <3>1, StoreLog
  <2>3. Grown(e) /\ e.dir = "c2s" /\ e.id = request.id /\ e.state = request.state /\ ~IsListen(e)
    BY <2>1, <2>2 DEF Grown, SameMessage, IsListen
  <2>4. e.id \in DrivenIds \/ Live(e, Len(record))
    BY <1>1, <2>3 DEF ReplayInv, ControlInv, PostInv, Live
  <2>5. \A i \in DOMAIN record : Listens(i) => Acked(i, Len(record))
    BY <1>1 DEF ReplayInv, ControlInv, AckedInv, Over
  <2>6. SubsKept /\ index' \in Nat \ {0}
    BY <1>1, <1>3, KeptIfSame DEF ReplayInv, TypeInv
  <2>7. TypeInv' /\ RecordInv'
    BY <1>1, <2>3, <2>4, <2>5, <2>6, GrownRecord
  <2>8. DriveInv'
    BY <1>1, <1>3, <2>1 DEF ReplayInv, ControlInv, DriveInv, Exchange, Opening, Driven, IsListen, IsMessage
  <2>9. CloseInv' /\ AskInv' /\ PostInv' /\ EndInv' /\ OpeningInv'
    BY <1>1, <1>3, <2>1
       DEF ReplayInv, ControlInv, CloseInv, AskInv, PostInv, EndInv, OpeningInv, NoInput
  <2>10. PassedInv'
    BY <1>1, <1>3 DEF ReplayInv, ControlInv, PassedInv, Driven, Follows, IsListen
  <2>11. AckedInv'
    <3>1. \A i \in DOMAIN record' : Listens(i)' => Acked(i, Len(record))'
      BY <2>3, <2>5, GrownAcked DEF ReplayInv
    <3> QED BY <1>3, <3>1 DEF AckedInv
  <2> QED BY <2>7, <2>8, <2>9, <2>10, <2>11 DEF ReplayInv, ControlInv
<1> QED BY <1>2, <1>3 DEF Post

\* The stream is empty when its request is sent.
LEMMA ListenStep == ASSUME ReplayInv, Listen PROVE ReplayInv'
<1>1. stage = "listen" /\ UNCHANGED <<capture, index, request, required, late>>
  BY DEF Listen
<1>2. CASE Fail /\ UNCHANGED record
  BY <1>1, <1>2, FailStep
<1>3. CASE /\ record' = Store(record, request) /\ stage' = "opening" /\ UNCHANGED <<subs, result>>
           /\ subscription_expectation(capture.messages, request).valid
           /\ \A x \in DOMAIN subs : subs[x].id # request.id
  <2>1. /\ index <= Len(Driven) /\ request = Driven[index] /\ IsListen(Driven[index])
        /\ result' = "none"
    BY <1>1, <1>3 DEF ReplayInv, ControlInv, DriveInv, Opening, Over
  <2>2. request.id # NoId
    BY <1>3 DEF subscription_expectation
  <2>3. index \in DOMAIN Driven
    BY <2>1, LogLength DEF ReplayInv, TypeInv
  <2>4. IsMessage(request) /\ request.dir = "c2s" /\ request.asks = FALSE /\ request.id \in DrivenIds
    BY <2>1, <2>3 DEF ReplayInv, TypeInv, DrivenIds
  <2>5. PICK e : Appended(record, record', e) /\ SameMessage(e, request)
    <3>1. IsLog(record)
      BY DEF ReplayInv, TypeInv
    <3> QED BY <1>3, <2>4, <3>1, StoreLog
  <2>6. Grown(e) /\ e.dir = "c2s" /\ e.id = request.id
    BY <2>4, <2>5 DEF Grown, SameMessage
  <2>7. \A i \in DOMAIN record : Listens(i) => Acked(i, Len(record))
    BY <1>1 DEF ReplayInv, ControlInv, AckedInv, Over
  <2>8. SubsKept /\ index' \in Nat \ {0}
    BY <1>1, <1>3, KeptIfSame DEF ReplayInv, TypeInv
  <2>9. TypeInv' /\ RecordInv'
    BY <1>1, <2>4, <2>6, <2>7, <2>8, GrownRecord
  <2>10. DriveInv'
    BY <1>1, <1>3, <2>1 DEF DriveInv, Exchange, Opening, Driven, IsListen
  <2>11. CloseInv' /\ AskInv' /\ PostInv' /\ EndInv' /\ OpeningInv'
    BY <1>1, <1>3, <2>1, <2>2
       DEF ReplayInv, ControlInv, CloseInv, AskInv, PostInv, EndInv, OpeningInv
  <2>12. PassedInv'
    BY <1>1, <1>3 DEF ReplayInv, ControlInv, PassedInv, Driven, Follows, IsListen
  <2>13. AckedInv'
    <3>1. /\ Len(record) \in Nat /\ DOMAIN record' = 1 .. Len(record) + 1 /\ record'[Len(record) + 1] = e
          /\ DOMAIN record = 1 .. Len(record) /\ Len(record') = Len(record) + 1
          /\ \A i \in 1 .. Len(record) : record'[i] = record[i]
      BY <2>6, GrownLog DEF ReplayInv
    <3>2. \A k \in DOMAIN record : record[k].dir = "s2c" => record[k].sub # request.id
      BY <1>1, <1>3, <2>2 DEF ReplayInv, RecordInv, StreamInv
    <3>3. Stream(request.id)' = {}
      BY <1>1, <2>6, <3>1, <3>2 DEF Stream
    <3>4. ASSUME NEW i \in DOMAIN record', Listens(i)'
          PROVE  Acked(i, Len(record))' \/ record'[i].id = request'.id
      <4>1. CASE i = Len(record) + 1
        BY <1>1, <2>6, <3>1, <4>1
      <4>2. CASE i \in 1 .. Len(record)
        <5>1. PICK n : n = Len(record)
          OBVIOUS
        <5>2. Acked(i, n) /\ n \in 0 .. Len(record) /\ Len(record') = n + 1
          BY <2>6, <2>7, <3>1, <3>4, <4>2, <5>1, AckedPrefix DEF ReplayInv
        <5>3. Acked(i, n + 1)'
          BY <2>6, <4>2, <5>2, AckedPrefix DEF ReplayInv
        <5> QED BY <5>2, <5>3 DEF Acked
      <4> QED BY <3>1, <4>1, <4>2
    <3> QED BY <1>3, <3>3, <3>4 DEF AckedInv
  <2> QED BY <2>9, <2>10, <2>11, <2>12, <2>13 DEF ReplayInv, ControlInv
<1> QED BY <1>2, <1>3 DEF Listen

\* The stream was accepted: its subscription starts with nothing.
LEMMA ListenAcceptedStep == ASSUME ReplayInv, ListenAccepted PROVE ReplayInv'
<1>1. /\ stage = "opening" /\ stage' = "acking"
      /\ UNCHANGED <<capture, index, request, required, record, late, result>>
  BY DEF ListenAccepted
<1>2. /\ index <= Len(Driven) /\ request = Driven[index] /\ IsListen(Driven[index])
      /\ result = "none" /\ result' = "none" /\ index \in Nat \ {0}
  BY <1>1 DEF ReplayInv, ControlInv, DriveInv, Opening, Over, TypeInv
<1>3. request.id # NoId /\ \A x \in DOMAIN subs : subs[x].id # request.id
  BY <1>1 DEF ReplayInv, ControlInv, OpeningInv
<1>4. PICK s : /\ Appended(subs, subs', s) /\ DOMAIN s = SubFields /\ s.got = 0 /\ s.ack = "none"
               /\ s.id = request.id /\ Follows(s, index)
  <2>1. PICK s : /\ s = [src |-> request.seq, id |-> request.id,
                         requested |-> subscription_expectation(capture.messages, request).requested,
                         accepted |-> subscription_expectation(capture.messages, request).accepted,
                         expected |-> subscription_expectation(capture.messages, request).expected,
                         got |-> 0, task |-> "running", ack |-> "none", closed |-> FALSE]
    OBVIOUS
  <2>2. subs' = Append(subs, s)
    BY <2>1 DEF ListenAccepted
  <2>3. Appended(subs, subs', s)
    BY <2>2, AppendLog DEF ReplayInv, TypeInv
  <2>4. DOMAIN s = SubFields
    BY <2>1 DEF SubFields
  <2>5. /\ s.id = request.id /\ s.got = 0 /\ s.ack = "none"
        /\ s.accepted = subscription_expectation(capture.messages, request).accepted
        /\ s.expected = subscription_expectation(capture.messages, request).expected
    BY <2>1
  <2>6. Follows(s, index)
    BY <1>2, <2>5 DEF Follows
  <2> QED BY <2>3, <2>4, <2>5, <2>6
<1>5. /\ DOMAIN subs' = DOMAIN subs \cup {Len(subs) + 1} /\ (\A x \in DOMAIN subs : subs'[x] = subs[x])
      /\ subs'[Len(subs) + 1] = s /\ IsLog(subs') /\ Len(subs') = Len(subs) + 1
      /\ Len(subs) \in Nat /\ DOMAIN subs = 1 .. Len(subs)
  BY <1>4, LogLength DEF Appended, ReplayInv, TypeInv
<1>6. TypeInv'
  <2>1. \A x \in DOMAIN subs' : DOMAIN subs'[x] = SubFields /\ subs'[x].got \in Nat
    BY <1>4, <1>5 DEF ReplayInv, TypeInv
  <2> QED BY <1>1, <1>5, <2>1 DEF ReplayInv, TypeInv, Driven, IsMessage
<1>7. SentInv'
  BY <1>1 DEF ReplayInv, RecordInv, SentInv, Live, Numbered, LastAsk, DrivenIds, Driven, RetryId
<1>8. PacedInv'
  BY <1>1 DEF ReplayInv, RecordInv, PacedInv, Listens, Acked, IsListen
<1>9. StreamInv'
  <2>1. /\ \A x \in DOMAIN subs :
              subs[x].id # NoId /\ Evidence(subs[x]) /\ (subs[x].ack = "ok" => subs[x].got # 0)
        /\ \A x, y \in DOMAIN subs : subs[x].id = subs[y].id => x = y
        /\ \A k \in DOMAIN record : record[k].dir = "s2c" /\ record[k].sub # NoId =>
              \E x \in DOMAIN subs : subs[x].id = record[k].sub
    BY <1>1 DEF ReplayInv, RecordInv, StreamInv
  <2>2. \A id : Stream(id)' = Stream(id)
    BY <1>1 DEF Stream
  <2>3. ASSUME NEW x \in DOMAIN subs PROVE Evidence(subs[x])'
    <3>1. PICK t, S : t = subs[x] /\ S = Stream(t.id)
      OBVIOUS
    <3>2. subs'[x] = t /\ Stream(t.id)' = S
      BY <1>5, <2>2, <3>1
    <3>3. Stream(subs[x].id)' = S /\ Stream(subs[x].id) = S
      BY <3>1, <3>2 DEF Stream
    <3>4. Evidence(subs[x])
      BY <2>1
    <3> QED BY <1>1, <3>1, <3>2, <3>3, <3>4 DEF Evidence
  <2>4. Stream(s.id) = {}
    BY <1>3, <1>4, <2>1 DEF Stream
  <2>5. Evidence(s)'
    <3>1. Cardinality(Stream(s.id)) = 0
      BY <2>4, FS_EmptySet
    <3>2. Stream(s.id)' = {} /\ Cardinality(Stream(s.id))' = 0
      BY <1>1, <2>4, <3>1 DEF Stream
    <3> QED BY <1>4, <3>2 DEF Evidence
  <2>6. ASSUME NEW x \in DOMAIN subs' PROVE Evidence(subs[x])'
    <3>1. CASE x \in DOMAIN subs
      BY <2>3, <3>1
    <3>2. CASE x = Len(subs) + 1
      <4>1. subs'[x] = s
        BY <1>5, <3>2
      <4>2. PICK S : S = Stream(s.id)'
        OBVIOUS
      <4>3. Stream(subs[x].id)' = S
        BY <4>1, <4>2 DEF Stream
      <4> QED BY <2>5, <4>1, <4>2, <4>3 DEF Evidence
    <3> QED BY <1>5, <3>1, <3>2
  <2>7. \A x \in DOMAIN subs' : subs'[x].id # NoId /\ (subs'[x].ack = "ok" => subs'[x].got # 0)
    BY <1>3, <1>4, <1>5, <2>1
  <2>8. \A x, y \in DOMAIN subs' : subs'[x].id = subs'[y].id => x = y
    BY <1>3, <1>4, <1>5, <2>1
  <2>9. \A k \in DOMAIN record' : record'[k].dir = "s2c" /\ record'[k].sub # NoId =>
           \E x \in DOMAIN subs' : subs'[x].id = record'[k].sub
    BY <1>1, <1>5, <2>1
  <2> QED BY <2>6, <2>7, <2>8, <2>9 DEF StreamInv
<1>10. DriveInv'
  BY <1>1, <1>2 DEF DriveInv, Exchange, Opening, Driven, IsListen
<1>11. CloseInv' /\ AskInv' /\ PostInv' /\ EndInv'
  BY <1>1, <1>2 DEF ReplayInv, ControlInv, CloseInv, AskInv, PostInv, EndInv
<1>12. OpeningInv'
  BY <1>1, <1>4, <1>5 DEF OpeningInv
<1>13. AckedInv'
  BY <1>1 DEF ReplayInv, ControlInv, AckedInv, Listens, Acked, IsListen, Stream
<1>14. PassedInv'
  <2> SUFFICES ASSUME NEW d \in DOMAIN Driven, IsListen(Driven[d]), d <= index
               PROVE  \E x \in DOMAIN subs' : Follows(subs'[x], d)
    <3>1. DOMAIN Driven \subseteq Nat
      BY LogLength DEF ReplayInv, TypeInv
    <3> QED BY <1>1, <1>2, <3>1 DEF PassedInv, Driven, Follows, IsListen
  <2>1. CASE d = index
    BY <1>4, <1>5, <2>1
  <2>2. CASE d < index
    <3>1. PICK x \in DOMAIN subs : Follows(subs[x], d)
      BY <2>2 DEF ReplayInv, ControlInv, PassedInv
    <3> QED BY <1>5, <3>1
  <2> QED
    <3>1. d \in Nat
      BY LogLength DEF ReplayInv, TypeInv
    <3> QED BY <1>2, <2>1, <2>2, <3>1
<1> QED BY <1>6, <1>7, <1>8, <1>9, <1>10, <1>11, <1>12, <1>13, <1>14 DEF ReplayInv, RecordInv, ControlInv

-----------------------------------------------------------------------------
(* The tasks of the subscriptions *)

LEMMA TaskControl ==
    ASSUME ReplayInv, Calm, UNCHANGED <<stage, index, request, required, result, late>>,
           result # "ok" \/ subs' = subs
    PROVE  ReplayInv'
<1>1. TypeInv' /\ RecordInv'
  BY CalmRecord DEF ReplayInv, TypeInv
<1>2. DriveInv'
  BY DEF ReplayInv, ControlInv, DriveInv, Calm, Driven, IsListen, IsMessage
<1>3. CloseInv'
  BY DEF ReplayInv, ControlInv, CloseInv
<1>4. AskInv'
  BY DEF ReplayInv, ControlInv, AskInv, LastAsk, Calm
<1>5. PostInv'
  BY DEF ReplayInv, ControlInv, PostInv, Live, Numbered, LastAsk, DrivenIds, Driven, RetryId, Calm
<1>6. PassedInv'
  BY DEF ReplayInv, ControlInv, PassedInv, Calm, SubsKept, Driven, Follows, IsListen
<1>7. EndInv'
  BY DEF ReplayInv, ControlInv, EndInv, Calm, SubsKept, Driven
<1>8. OpeningInv'
  BY DEF ReplayInv, ControlInv, OpeningInv, Calm, SubsKept
<1>9. AckedInv'
  BY DEF ReplayInv, ControlInv, AckedInv, Listens, Acked, IsListen, Stream, Calm
<1> QED BY <1>1, <1>2, <1>3, <1>4, <1>5, <1>6, <1>7, <1>8, <1>9 DEF ReplayInv, ControlInv

LEMMA TaskSteps ==
    ASSUME ReplayInv, NEW y \in DOMAIN subs, SubscriptionEnds(y) \/ AbortTakesEffect(y)
    PROVE  ReplayInv'
<1>1. /\ subs[y].task \in {"running", "aborting"} /\ \E v : subs' = [subs EXCEPT ![y].task = v]
      /\ UNCHANGED <<capture, record, stage, index, request, required, result, late>>
  BY DEF SubscriptionEnds, AbortTakesEffect
<1>2. result # "ok"
  BY <1>1 DEF ReplayInv, ControlInv, CloseInv
<1>3. SubsKept
  BY <1>1, KeptIfTask DEF ReplayInv
<1> QED BY <1>1, <1>2, <1>3, TaskControl DEF Calm

LEMMA StutterStep == ASSUME ReplayInv, UNCHANGED vars PROVE ReplayInv'
<1>1. UNCHANGED <<capture, record, stage, index, request, required, result, late, subs>>
  BY DEF vars
<1> QED BY <1>1, KeptIfSame, TaskControl DEF Calm, ReplayInv

-----------------------------------------------------------------------------
(* Frames of the target *)

LEMMA AskPrefix ==
    ASSUME TypeInv, NEW e, Grown(e), ~e.asks, NEW n, n = Len(record),
           NEW j \in 1 .. n, LastAsk(j, n)
    PROVE  LastAsk(j, n + 1)' /\ record'[j] = record[j]
<1>1. /\ n \in Nat /\ record'[n + 1] = e /\ \A i \in 1 .. n : record'[i] = record[i]
  BY GrownLog
<1> QED BY <1>1 DEF LastAsk

\* The frame that asks now, or else the one that asked before.
LEMMA GrownAsk ==
    ASSUME TypeInv, NEW e, Grown(e), e.asks => required'.state = e.state, ~e.asks => required' = required,
           ~e.asks /\ required.asks =>
               \E j \in 1 .. Len(record) : LastAsk(j, Len(record)) /\ record[j].state = required.state,
           required'.asks
    PROVE  (\E j \in 1 .. Len(record) : LastAsk(j, Len(record)) /\ record[j].state = required.state)'
<1>1. PICK n : n = Len(record)
  OBVIOUS
<1>2. /\ n \in Nat /\ record'[n + 1] = e /\ Len(record') = n + 1
  BY <1>1, GrownLog
<1>3. CASE e.asks
  <2>1. LastAsk(n + 1, n + 1)'
    BY <1>2, <1>3 DEF LastAsk
  <2>2. record'[n + 1].state = required'.state /\ n + 1 \in 1 .. n + 1
    BY <1>2, <1>3
  <2> QED BY <1>2, <2>1, <2>2 DEF LastAsk
<1>4. CASE ~e.asks
  <2>1. PICK j \in 1 .. n : LastAsk(j, n) /\ record[j].state = required.state
    BY <1>1, <1>4
  <2>2. LastAsk(j, n + 1)' /\ record'[j].state = required'.state /\ j \in 1 .. n + 1
    BY <1>1, <1>2, <1>4, <2>1, AskPrefix
  <2> QED BY <1>2, <2>2 DEF LastAsk
<1> QED BY <1>3, <1>4

LEMMA GrownPacing ==
    ASSUME TypeInv, AckedInv, NEW e, Grown(e), e.dir = "s2c", UNCHANGED <<stage, request>>
    PROVE  AckedInv'
<1>1. PICK n : n = Len(record)
  OBVIOUS
<1>2. /\ n \in Nat /\ record'[n + 1] = e /\ Len(record') = n + 1 /\ DOMAIN record' = 1 .. n + 1
      /\ DOMAIN record = 1 .. n /\ \A i \in 1 .. n : record'[i] = record[i]
  BY <1>1, GrownLog
<1>3. ASSUME NEW i \in DOMAIN record', Listens(i)'
      PROVE  /\ i \in 1 .. n /\ Listens(i) /\ (Acked(i, n) => Acked(i, Len(record))')
             /\ i \in DOMAIN record /\ record'[i] = record[i]
  <2>1. i \in 1 .. n
    BY <1>2, <1>3 DEF Listens
  <2>2. n \in 0 .. Len(record)
    BY <1>1, <1>2
  <2>3. Listens(i) /\ (Acked(i, n) => Acked(i, n + 1)')
    BY <1>1, <1>3, <2>1, <2>2, AckedPrefix
  <2> QED BY <1>2, <2>1, <2>3 DEF Acked
<1>4. ASSUME NEW i \in 1 .. n, \A k \in Stream(request.id) : i < k
      PROVE  \A k \in Stream(request.id)' : i < k
  BY <1>2, <1>4 DEF Stream
<1>5. stage' \notin Over \cup {"opening", "refusing", "acking"} =>
         \A i \in DOMAIN record' : Listens(i)' => Acked(i, Len(record))'
  BY <1>1, <1>3 DEF AckedInv
<1>6. stage' \in {"opening", "acking"} =>
         \A i \in DOMAIN record' : Listens(i)' =>
             Acked(i, Len(record))' \/ (record'[i].id = request'.id /\ \A k \in Stream(request.id)' : i < k)
  BY <1>1, <1>3, <1>4 DEF AckedInv
<1> QED BY <1>5, <1>6 DEF AckedInv

Labelled(frame, v, w) == [frame EXCEPT !.state = v, !.id = w]

LEMMA ReplyFrame ==
    ASSUME NEW frame \in Replies, NEW v, NEW w, NEW a, a = Labelled(frame, v, w)
    PROVE  /\ IsMessage(a) /\ a.dir = "s2c" /\ a.sub = NoId /\ a.asks = frame.asks /\ a.asks \in BOOLEAN
           /\ a.form = frame.form
<1>1. PICK b : b = [frame EXCEPT !.state = v]
  OBVIOUS
<1>2. /\ MessageFields \subseteq DOMAIN frame /\ frame.dir = "s2c" /\ frame.sub = NoId /\ frame.asks \in BOOLEAN
  BY FrameAssumption
<1>3. /\ MessageFields \subseteq DOMAIN b /\ b.dir = "s2c" /\ b.sub = NoId /\ b.asks = frame.asks
      /\ b.form = frame.form
  BY <1>1, <1>2 DEF MessageFields
<1>4. a = [b EXCEPT !.id = w]
  BY <1>1 DEF Labelled
<1>5. /\ MessageFields \subseteq DOMAIN a /\ a.dir = "s2c" /\ a.sub = NoId /\ a.asks = frame.asks
      /\ a.form = frame.form
  BY <1>3, <1>4 DEF MessageFields
<1> QED BY <1>2, <1>5 DEF IsMessage

Tagged(frame, v, w) == [frame EXCEPT !.id = v, !.sub = w]

\* What an event is once it is tagged.
EventShape(a, frame, w) ==
    /\ IsMessage(a) /\ a.dir = "s2c" /\ a.asks = FALSE /\ a.sub = w
    /\ a.kind = frame.kind /\ (frame.kind # "notification" => frame.sub = NoId)

LEMMA EventFrame ==
    ASSUME NEW frame \in Events, NEW v, NEW w
    PROVE  EventShape(Tagged(frame, v, w), frame, w)
<1>1. PICK a, b : b = [frame EXCEPT !.id = v] /\ a = Tagged(frame, v, w)
  OBVIOUS
<1>2. /\ MessageFields \subseteq DOMAIN frame /\ frame.dir = "s2c" /\ frame.asks = FALSE
      /\ frame.kind # "notification" => frame.sub = NoId
  BY FrameAssumption
<1>3. /\ MessageFields \subseteq DOMAIN b /\ b.dir = "s2c" /\ b.asks = FALSE /\ b.kind = frame.kind
  BY <1>1, <1>2 DEF MessageFields
<1>4. a = [b EXCEPT !.sub = w]
  BY <1>1 DEF Tagged
<1>5. /\ MessageFields \subseteq DOMAIN a /\ a.dir = "s2c" /\ a.sub = w /\ a.asks = FALSE
      /\ a.kind = frame.kind
  BY <1>3, <1>4 DEF MessageFields
<1> QED BY <1>1, <1>2, <1>5 DEF IsMessage, EventShape

LEMMA ReadBodyStep == ASSUME ReplayInv, ReadBody PROVE ReplayInv'
<1>1. stage \in {"json", "sse"} /\ UNCHANGED <<capture, index, request>>
  BY DEF ReadBody
<1>2. PICK frame, arrived :
          /\ frame \in Replies
          /\ arrived = [frame EXCEPT !.state = IF Asks(frame) /\ @ # NoState THEN received ELSE @,
                                     !.id = request.id]
          /\ Capture(arrived)
          /\ required' = IF Asks(frame) THEN [state |-> arrived.state, keys |-> frame.keys, asks |-> TRUE]
                         ELSE required
          /\ IF Contradicts(frame) THEN UNCHANGED session /\ Fail
             ELSE /\ UNCHANGED <<session, subs, result>>
                  /\ stage' = IF stage = "json" \/ frame.form = "incomplete" THEN "answered" ELSE "sse"
  BY DEF ReadBody
<1>3. /\ IsMessage(arrived) /\ arrived.dir = "s2c" /\ arrived.sub = NoId /\ arrived.asks = frame.asks
      /\ arrived.asks \in BOOLEAN /\ arrived.form = frame.form
  <2>1. PICK v : v = IF Asks(frame) /\ frame.state # NoState THEN received ELSE frame.state
    OBVIOUS
  <2>2. arrived = Labelled(frame, v, request.id)
    BY <1>2, <2>1 DEF Labelled
  <2>3. frame \in Replies
    BY <1>2
  <2> QED BY <2>2, <2>3, ReplyFrame
<1>4. late' = late /\ result = "none" /\ stage \notin Over /\ index' \in Nat \ {0} /\ stage # "ended"
  BY <1>1, <1>2 DEF Capture, ReplayInv, ControlInv, DriveInv, TypeInv, Over
<1>5. CASE frame.form # "json"
  <2>1. UNCHANGED record
    BY <1>1, <1>2, <1>3, <1>5 DEF Capture
  <2>2. UNCHANGED <<required, subs, result>> /\ stage' \in {"answered", "sse"}
    BY <1>2, <1>5 DEF Asks, Contradicts
  <2>3. Calm
    BY <1>1, <2>1, <2>2, KeptIfSame DEF Calm, ReplayInv
  <2> QED BY <1>1, <1>4, <2>2, <2>3, ExchangeGoesOn
<1>6. CASE frame.form = "json"
  <2>1. PICK e : Appended(record, record', e) /\ SameMessage(e, arrived)
    <3>1. record' = Store(record, arrived)
      BY <1>1, <1>2, <1>3, <1>6 DEF Capture
    <3>2. IsLog(record)
      BY DEF ReplayInv, TypeInv
    <3> QED BY <1>3, <3>1, <3>2, StoreLog
  <2>2. /\ Grown(e) /\ e.dir = "s2c" /\ e.sub = NoId /\ e.asks = frame.asks /\ e.state = arrived.state
        /\ e.asks \in BOOLEAN
    BY <1>3, <2>1 DEF Grown, SameMessage
  <2>3. SubsKept
    <3>1. subs' = subs \/ subs' = Aborting(subs)
      BY <1>2 DEF Fail
    <3> QED BY <3>1, KeptIfSame, KeptIfAborting DEF ReplayInv
  <2>4. TypeInv' /\ RecordInv'
    BY <1>1, <1>4, <2>2, <2>3, GrownRecord
  <2>5. CASE Contradicts(frame)
    <3>1. result' = "error" /\ stage' \in Over
      BY <1>2, <2>5 DEF Fail, Return, Over
    <3>2. ControlInv'
      BY <1>1, <1>4, <2>3, <3>1, OverControl
    <3> QED BY <2>4, <3>2 DEF ReplayInv
  <2>6. CASE ~Contradicts(frame)
    <3>1. UNCHANGED <<subs, result>> /\ stage' \in {"answered", "sse"}
      BY <1>2, <2>6
    <3>2. DriveInv'
      BY <1>1, <1>4, <3>1 DEF ReplayInv, ControlInv, DriveInv, Exchange, Opening, Driven, IsListen, IsMessage
    <3>3. CloseInv' /\ PostInv' /\ EndInv' /\ OpeningInv'
      BY <1>1, <1>4, <3>1 DEF ReplayInv, ControlInv, CloseInv, PostInv, EndInv, OpeningInv
    <3>4. PassedInv'
      BY <1>1, <3>1 DEF ReplayInv, ControlInv, PassedInv, Driven, Follows, IsListen
    <3>5. AckedInv'
      <4>1. \A i \in DOMAIN record : Listens(i) => Acked(i, Len(record))
        BY <1>1 DEF ReplayInv, ControlInv, AckedInv, Over
      <4>2. \A i \in DOMAIN record' : Listens(i)' => Acked(i, Len(record))'
        BY <2>2, <4>1, GrownAcked DEF ReplayInv
      <4> QED BY <3>1, <4>2 DEF AckedInv
    <3>6. AskInv'
      <4>1. e.asks => required'.state = e.state
        BY <1>2, <1>6, <2>2 DEF Asks
      <4>2. ~e.asks => required' = required
        BY <1>2, <1>6, <2>2 DEF Asks
      <4>3. required.asks =>
               \E j \in 1 .. Len(record) : LastAsk(j, Len(record)) /\ record[j].state = required.state
        BY <1>1 DEF ReplayInv, ControlInv, AskInv
      <4>4. required'.asks =>
               (\E j \in 1 .. Len(record) : LastAsk(j, Len(record)) /\ record[j].state = required.state)'
        BY <2>2, <4>1, <4>2, <4>3, GrownAsk DEF ReplayInv
      <4> QED BY <4>4 DEF AskInv
    <3> QED BY <2>4, <3>2, <3>3, <3>4, <3>5, <3>6 DEF ReplayInv, ControlInv
  <2> QED BY <2>5, <2>6
<1> QED BY <1>5, <1>6

\* A frame of a subscription is recorded while drive is where it is.
SubsCounted ==
    /\ IsLog(subs') /\ Len(subs') = Len(subs) /\ DOMAIN subs' = DOMAIN subs
    /\ \A x \in DOMAIN subs :
          /\ DOMAIN subs'[x] = SubFields /\ subs'[x].id = subs[x].id /\ subs'[x].got \in Nat
          /\ subs'[x].accepted = subs[x].accepted /\ subs'[x].expected = subs[x].expected

LEMMA FrameControl ==
    ASSUME ReplayInv, UNCHANGED <<capture, stage, index, request, required, result>>, stage # "ended" => late' = late,
           result # "ok", SubsCounted, stage = "joining" => SubsKept,
           \/ UNCHANGED record
           \/ \E e : Grown(e) /\ e.dir = "s2c" /\ e.asks = FALSE
    PROVE  ControlInv'
<1>1. DriveInv'
  BY DEF ReplayInv, ControlInv, DriveInv, Driven, IsListen, IsMessage
<1>2. CloseInv'
  BY DEF ReplayInv, ControlInv, CloseInv
<1>3. PassedInv'
  BY DEF ReplayInv, ControlInv, PassedInv, SubsCounted, Driven, Follows, IsListen
<1>4. EndInv'
  BY DEF ReplayInv, ControlInv, EndInv, SubsKept, Driven
<1>5. OpeningInv'
  BY DEF ReplayInv, ControlInv, OpeningInv, SubsCounted
<1>6. AskInv' /\ PostInv' /\ AckedInv'
  <2>1. CASE UNCHANGED record
    <3>1. AskInv'
      BY <2>1 DEF ReplayInv, ControlInv, AskInv, LastAsk
    <3>2. PostInv'
      BY <2>1 DEF ReplayInv, ControlInv, PostInv, Live, Numbered, LastAsk, DrivenIds, Driven, RetryId
    <3>3. AckedInv'
      BY <2>1 DEF ReplayInv, ControlInv, AckedInv, Listens, Acked, IsListen, Stream
    <3> QED BY <3>1, <3>2, <3>3
  <2>2. CASE \E e : Grown(e) /\ e.dir = "s2c" /\ e.asks = FALSE
    <3>1. PICK e : Grown(e) /\ e.dir = "s2c" /\ e.asks = FALSE
      BY <2>2
    <3>2. AskInv'
      <4> SUFFICES ASSUME stage' \in {"posting", "json", "sse", "answered"}, required'.asks
                   PROVE  (\E j \in 1 .. Len(record) : LastAsk(j, Len(record)) /\ record[j].state = required.state)'
        BY DEF AskInv
      <4>1. \E j \in 1 .. Len(record) : LastAsk(j, Len(record)) /\ record[j].state = required.state
        BY DEF ReplayInv, ControlInv, AskInv
      <4> QED BY <3>1, <4>1, GrownAsk DEF ReplayInv
    <3>3. PostInv'
      <4> SUFFICES ASSUME stage' = "post"
                   PROVE  request.id \in DrivenIds \/ Live(request, Len(record))'
        BY DEF PostInv, DrivenIds, Driven
      <4>1. CASE request.id \in DrivenIds
        BY <4>1
      <4>2. CASE Live(request, Len(record))
        <5>1. PICK n : n = Len(record)
          OBVIOUS
        <5>2. /\ n \in Nat /\ record'[n + 1] = e /\ Len(record') = n + 1
              /\ \A i \in 1 .. n : record'[i] = record[i]
          BY <3>1, <5>1, GrownLog DEF ReplayInv
        <5>3. PICK m \in 0 .. n : request.id = RetryId(m) /\ \A j \in (m + 1) .. n : record[j].dir # "c2s"
          BY <4>2, <5>1 DEF Live, Numbered
        <5>4. PICK j \in 1 .. n : LastAsk(j, n) /\ record[j].state = request.state
          BY <4>2, <5>1 DEF Live
        <5>5. LastAsk(j, n + 1)' /\ record'[j].state = request'.state /\ j \in 1 .. n + 1
          BY <3>1, <5>1, <5>2, <5>4, AskPrefix DEF ReplayInv
        <5>6. /\ m \in 0 .. n + 1 /\ request'.id = RetryId(m)'
              /\ \A i \in (m + 1) .. n + 1 : record'[i].dir # "c2s"
          <6>1. m \in 0 .. n + 1 /\ request'.id = RetryId(m)'
            BY <5>2, <5>3 DEF RetryId
          <6>2. ASSUME NEW i \in (m + 1) .. n + 1 PROVE record'[i].dir # "c2s"
            <7>1. CASE i = n + 1
              BY <3>1, <5>2, <7>1
            <7>2. CASE i # n + 1
              <8>1. i \in (m + 1) .. n /\ i \in 1 .. n
                BY <5>2, <5>3, <7>2
              <8> QED BY <5>2, <5>3, <8>1
            <7> QED BY <7>1, <7>2
          <6> QED BY <6>1, <6>2
        <5>7. Numbered(request.id, Len(record))'
          BY <5>2, <5>6 DEF Numbered
        <5>8. Len(record)' = n + 1 /\ LastAsk(j, Len(record))' /\ record'[j].state = request'.state
          BY <5>2, <5>5 DEF LastAsk
        <5> QED BY <5>2, <5>5, <5>7, <5>8 DEF Live
      <4> QED BY <4>1, <4>2 DEF ReplayInv, ControlInv, PostInv
    <3>4. AckedInv'
      BY <3>1, GrownPacing DEF ReplayInv, ControlInv
    <3> QED BY <3>2, <3>3, <3>4
  <2> QED BY <2>1, <2>2
<1> QED BY <1>1, <1>2, <1>3, <1>4, <1>5, <1>6 DEF ControlInv

\* The frame is the next one of subscription y.
Counted(y) ==
    /\ SubsCounted /\ subs'[y].got = subs[y].got + 1
    /\ \A x \in DOMAIN subs : x # y => subs'[x].got = subs[x].got /\ subs'[x].ack = subs[x].ack

LEMMA CountedIfFits ==
    ASSUME TypeInv, NEW y \in DOMAIN subs, subs' = [subs EXCEPT ![y].got = @ + 1, ![y].ack = "ok"]
    PROVE  Counted(y)
<1>1. DOMAIN subs' = DOMAIN subs /\ subs' = [x \in DOMAIN subs' |-> subs'[x]]
  OBVIOUS
<1>2. IsLog(subs') /\ Len(subs') = Len(subs)
  BY <1>1, SameShape DEF TypeInv
<1>3. PICK s, t, u : s = subs[y] /\ t = [s EXCEPT !.got = s.got + 1] /\ u = [t EXCEPT !.ack = "ok"]
  OBVIOUS
<1>4. DOMAIN s = SubFields /\ s.got \in Nat
  BY <1>3 DEF TypeInv
<1>5. /\ DOMAIN t = SubFields /\ t.id = s.id /\ t.got = s.got + 1 /\ t.accepted = s.accepted
      /\ t.expected = s.expected
  BY <1>3, <1>4 DEF SubFields
<1>6. /\ DOMAIN u = SubFields /\ u.id = s.id /\ u.got = s.got + 1 /\ u.accepted = s.accepted
      /\ u.expected = s.expected
  BY <1>3, <1>5 DEF SubFields
<1>7. subs'[y] = u /\ \A x \in DOMAIN subs : x # y => subs'[x] = subs[x]
  BY <1>3
<1>8. \A x \in DOMAIN subs :
          /\ DOMAIN subs'[x] = SubFields /\ subs'[x].id = subs[x].id /\ subs'[x].got \in Nat
          /\ subs'[x].accepted = subs[x].accepted /\ subs'[x].expected = subs[x].expected
  BY <1>3, <1>4, <1>6, <1>7 DEF TypeInv
<1> QED BY <1>1, <1>2, <1>3, <1>6, <1>7, <1>8 DEF Counted, SubsCounted

LEMMA StreamFinite ==
    ASSUME TypeInv, NEW id
    PROVE  IsFiniteSet(Stream(id)) /\ Stream(id) \subseteq 1 .. Len(record)
<1>1. Len(record) \in Nat /\ DOMAIN record = 1 .. Len(record)
  BY LogLength DEF TypeInv
<1>2. Stream(id) \subseteq 1 .. Len(record)
  BY <1>1 DEF Stream
<1>3. IsFiniteSet(1 .. Len(record))
  BY <1>1, FS_Interval
<1> QED BY <1>2, <1>3, FS_Subset

LEMMA CountedStream ==
    ASSUME TypeInv, StreamInv, stage # "ended", NEW y \in DOMAIN subs, Counted(y),
           NEW e, Grown(e), e.dir = "s2c", e.sub = subs[y].id,
           subs[y].got = 0 => e.method = "acknowledged" /\ e.topics = subs[y].accepted,
           subs[y].got # 0 => e.topic \in subs[y].accepted
    PROVE  StreamInv'
<1>1. PICK n : n = Len(record)
  OBVIOUS
<1>2. /\ n \in Nat /\ record'[n + 1] = e /\ Len(record') = n + 1 /\ DOMAIN record' = 1 .. n + 1
      /\ DOMAIN record = 1 .. n /\ \A i \in 1 .. n : record'[i] = record[i]
  BY <1>1, GrownLog
<1>3. /\ \A x \in DOMAIN subs :
            subs[x].id # NoId /\ Evidence(subs[x]) /\ (subs[x].ack = "ok" => subs[x].got # 0)
      /\ \A x, z \in DOMAIN subs : subs[x].id = subs[z].id => x = z
      /\ \A k \in DOMAIN record : record[k].dir = "s2c" /\ record[k].sub # NoId =>
            \E x \in DOMAIN subs : subs[x].id = record[k].sub
  BY DEF StreamInv
<1>4. /\ DOMAIN subs' = DOMAIN subs
      /\ \A x \in DOMAIN subs : subs'[x].id = subs[x].id /\ subs'[x].accepted = subs[x].accepted
      /\ subs[y].got \in Nat /\ subs'[y].got = subs[y].got + 1
      /\ \A x \in DOMAIN subs : x # y => subs'[x].got = subs[x].got /\ subs'[x].ack = subs[x].ack
  BY DEF Counted, SubsCounted, TypeInv
<1>5. ASSUME NEW x \in DOMAIN subs, x # y PROVE Evidence(subs[x])'
  <2>1. PICK t, S : t = subs[x] /\ S = Stream(t.id)
    OBVIOUS
  <2>2. t.id # e.sub
    BY <1>3, <1>5, <2>1
  <2>3. Stream(t.id)' = S /\ \A k \in S : record'[k] = record[k]
    BY <1>2, <2>1, <2>2 DEF Stream
  <2>4. subs'[x].id = t.id /\ subs'[x].got = t.got /\ subs'[x].accepted = t.accepted
    BY <1>4, <1>5, <2>1
  <2>5. Stream(subs[x].id)' = S /\ Stream(subs[x].id) = S
    BY <2>1, <2>3, <2>4 DEF Stream
  <2>6. Evidence(subs[x])
    BY <1>3
  <2> QED BY <2>1, <2>3, <2>4, <2>5, <2>6 DEF Evidence
<1>6. Evidence(subs[y])'
  <2>1. PICK t, S : t = subs[y] /\ S = Stream(t.id)
    OBVIOUS
  <2>2. Stream(t.id)' = S \cup {n + 1} /\ \A k \in S : record'[k] = record[k] /\ k \in 1 .. n
    BY <1>2, <2>1 DEF Stream
  <2>3. subs'[y].id = t.id /\ subs'[y].got = t.got + 1 /\ subs'[y].accepted = t.accepted /\ t.got \in Nat
    BY <1>4, <2>1
  <2>4. PICK T : T = S \cup {n + 1}
    OBVIOUS
  <2>5. Stream(subs[y].id)' = T
    BY <2>2, <2>3, <2>4 DEF Stream
  <2>6. /\ Cardinality(S) = t.got
        /\ t.got # 0 => \E k \in S : record[k].method = "acknowledged"
        /\ \A k \in S :
              IF \E l \in S : l < k THEN record[k].topic \in t.accepted
              ELSE record[k].method = "acknowledged" /\ record[k].topics = t.accepted
    BY <1>3, <2>1 DEF Evidence
  <2>7. Cardinality(T) = t.got + 1
    <3>1. IsFiniteSet(S) /\ n + 1 \notin S
      BY <1>1, <1>2, <2>1, StreamFinite
    <3> QED BY <2>4, <2>6, <3>1, FS_AddElement
  <2>8. t.got = 0 <=> S = {}
    BY <2>1, <2>6, StreamFinite, FS_EmptySet
  <2>9. \E k \in T : record'[k].method = "acknowledged"
    BY <1>2, <2>1, <2>2, <2>4, <2>6, <2>8
  <2>10. ASSUME NEW k \in T
         PROVE  IF \E l \in T : l < k THEN record'[k].topic \in t.accepted
                ELSE record'[k].method = "acknowledged" /\ record'[k].topics = t.accepted
    <3>1. CASE k = n + 1
      <4>1. CASE S = {}
        BY <1>2, <2>1, <2>4, <2>8, <3>1, <4>1
      <4>2. CASE S # {}
        <5>1. PICK l \in S : TRUE
          BY <4>2
        <5>2. l \in T /\ l < k
          BY <1>2, <2>2, <2>4, <3>1
        <5> QED BY <1>2, <2>1, <2>8, <3>1, <4>2, <5>2
      <4> QED BY <4>1, <4>2
    <3>2. CASE k \in S
      <4>1. k \in 1 .. n /\ record'[k] = record[k]
        BY <2>2, <3>2
      <4>2. (\E l \in T : l < k) <=> (\E l \in S : l < k)
        BY <1>2, <2>4, <4>1
      <4> QED BY <2>6, <3>2, <4>1, <4>2
    <3> QED BY <2>4, <3>1, <3>2
  <2> QED BY <2>3, <2>5, <2>7, <2>9, <2>10 DEF Evidence
<1>7. \A x \in DOMAIN subs' : Evidence(subs[x])'
  BY <1>4, <1>5, <1>6
<1>8. \A x \in DOMAIN subs' : subs'[x].id # NoId /\ (subs'[x].ack = "ok" => subs'[x].got # 0)
  BY <1>3, <1>4
<1>9. \A x, z \in DOMAIN subs' : subs'[x].id = subs'[z].id => x = z
  BY <1>3, <1>4
<1>10. \A k \in DOMAIN record' : record'[k].dir = "s2c" /\ record'[k].sub # NoId =>
          \E x \in DOMAIN subs' : subs'[x].id = record'[k].sub
  BY <1>2, <1>3, <1>4
<1> QED BY <1>7, <1>8, <1>9, <1>10 DEF StreamInv

LEMMA SubscriptionFrameStep ==
    ASSUME ReplayInv, NEW y \in DOMAIN subs, SubscriptionFrame(y)
    PROVE  ReplayInv'
<1>1. /\ subs[y].task \in {"running", "aborting"}
      /\ UNCHANGED <<capture, stage, index, request, required, result>>
  BY DEF SubscriptionFrame
<1>2. result # "ok" /\ index' \in Nat \ {0} /\ TypeInv
  BY <1>1 DEF ReplayInv, ControlInv, CloseInv, TypeInv
<1>3. PICK s : s = subs[y]
  OBVIOUS
<1>4. PICK frame, arrived :
          /\ frame \in Events
          /\ arrived = [frame EXCEPT !.id = IF frame.kind = "response" THEN s.id ELSE @,
                                     !.sub = IF frame.kind = "notification" THEN s.id ELSE @]
          /\ \/ /\ arrived.form = "json" /\ IsTerminal(arrived, s.id)
                /\ Capture(arrived) /\ UNCHANGED subs
             \/ /\ ~IsTerminal(arrived, s.id) /\ FrameFits(s, arrived)
                /\ Capture(arrived)
                /\ subs' = [subs EXCEPT ![y].got = @ + 1, ![y].ack = "ok"]
             \/ /\ ~IsTerminal(arrived, s.id) /\ ~FrameFits(s, arrived)
                /\ subs' = [subs EXCEPT ![y].task = "error"]
                /\ UNCHANGED <<record, dropped, late>>
  BY <1>3 DEF SubscriptionFrame
<1>5. /\ IsMessage(arrived) /\ arrived.dir = "s2c" /\ arrived.asks = FALSE
      /\ arrived.kind # "notification" => arrived.sub = NoId
  <2>1. PICK v, w : /\ v = IF frame.kind = "response" THEN s.id ELSE frame.id
                    /\ w = IF frame.kind = "notification" THEN s.id ELSE frame.sub
    OBVIOUS
  <2>2. arrived = Tagged(frame, v, w)
    BY <1>4, <2>1 DEF Tagged
  <2>3. EventShape(arrived, frame, w)
    BY <1>4, <2>2, EventFrame
  <2> QED BY <2>1, <2>3 DEF EventShape
<1>6. ASSUME arrived.form = "json", Capture(arrived), stage # "ended"
      PROVE  \E e : Grown(e) /\ SameMessage(e, arrived) /\ e.dir = "s2c" /\ e.asks = FALSE /\ UNCHANGED late
  <2>1. record' = Store(record, arrived) /\ UNCHANGED late
    BY <1>6 DEF Capture
  <2>2. PICK e : Appended(record, record', e) /\ SameMessage(e, arrived)
    BY <1>2, <1>5, <2>1, StoreLog DEF TypeInv
  <2>3. e.dir = "s2c" /\ e.asks = FALSE /\ IsMessage(e)
    BY <1>5, <2>2 DEF SameMessage
  <2>4. Grown(e)
    BY <2>2, <2>3 DEF Grown
  <2> QED BY <2>1, <2>2, <2>3, <2>4
<1>7. stage = "ended" /\ Capture(arrived) => UNCHANGED record
  BY DEF Capture
<1>8. CASE arrived.form = "json" /\ IsTerminal(arrived, s.id) /\ Capture(arrived) /\ UNCHANGED subs
  <2>1. SubsKept /\ SubsCounted
    BY <1>2, <1>8, KeptIfSame DEF SubsKept, SubsCounted, TypeInv
  <2>2. arrived.sub = NoId
    BY <1>5, <1>8 DEF IsTerminal
  <2>3. CASE stage = "ended"
    <3>1. TypeInv' /\ RecordInv'
      BY <1>1, <1>2, <1>7, <1>8, <2>1, <2>3, CalmRecord DEF Calm
    <3>2. ControlInv'
      BY <1>1, <1>2, <1>7, <1>8, <2>1, <2>3, FrameControl
    <3> QED BY <3>1, <3>2 DEF ReplayInv
  <2>4. CASE stage # "ended"
    <3>1. PICK e : Grown(e) /\ SameMessage(e, arrived) /\ e.dir = "s2c" /\ e.asks = FALSE /\ UNCHANGED late
      BY <1>6, <1>8, <2>4
    <3>2. e.sub = NoId
      BY <2>2, <3>1 DEF SameMessage
    <3>3. TypeInv' /\ RecordInv'
      BY <1>1, <1>2, <2>1, <2>4, <3>1, <3>2, GrownRecord
    <3>4. ControlInv'
      BY <1>1, <1>2, <2>1, <2>4, <3>1, FrameControl
    <3> QED BY <3>3, <3>4 DEF ReplayInv
  <2> QED BY <2>3, <2>4
<1>9. CASE FrameFits(s, arrived) /\ Capture(arrived) /\ subs' = [subs EXCEPT ![y].got = @ + 1, ![y].ack = "ok"]
  <2>1. Counted(y) /\ SubsCounted
    BY <1>2, <1>9, CountedIfFits DEF Counted
  <2>2. stage # "joining"
    BY <1>3, <1>9 DEF FrameFits, ReplayInv, ControlInv, EndInv, TypeInv
  <2>3. /\ arrived.form = "json" /\ arrived.sub = s.id
        /\ s.got = 0 => arrived.method = "acknowledged" /\ arrived.topics = s.accepted
        /\ s.got # 0 => arrived.topic \in s.accepted
    BY <1>9 DEF FrameFits, IsAcknowledgment, IsNotification
  <2>4. IsLog(subs') /\ \A x \in DOMAIN subs' : DOMAIN subs'[x] = SubFields /\ subs'[x].got \in Nat
    BY <2>1 DEF SubsCounted
  <2>5. CASE stage = "ended"
    <3>1. UNCHANGED record
      BY <1>7, <1>9, <2>5
    <3>2. TypeInv'
      BY <1>1, <1>2, <2>4, <3>1 DEF TypeInv, Driven, IsMessage
    <3>3. SentInv'
      BY <1>1, <3>1 DEF ReplayInv, RecordInv, SentInv, Live, Numbered, LastAsk, DrivenIds, Driven, RetryId
    <3>4. PacedInv'
      BY <3>1 DEF ReplayInv, RecordInv, PacedInv, Listens, Acked, IsListen
    <3>5. StreamInv'
      BY <1>1, <1>2, <2>5 DEF StreamInv
    <3>6. ControlInv'
      BY <1>1, <1>2, <2>1, <2>2, <2>5, <3>1, FrameControl
    <3> QED BY <3>2, <3>3, <3>4, <3>5, <3>6 DEF ReplayInv, RecordInv
  <2>6. CASE stage # "ended"
    <3>1. PICK e : Grown(e) /\ SameMessage(e, arrived) /\ e.dir = "s2c" /\ e.asks = FALSE /\ UNCHANGED late
      BY <1>6, <1>9, <2>3, <2>6
    <3>2. TypeInv'
      <4>1. /\ Len(record) \in Nat /\ DOMAIN record' = 1 .. Len(record) + 1 /\ record'[Len(record) + 1] = e
            /\ DOMAIN record = 1 .. Len(record) /\ \A i \in 1 .. Len(record) : record'[i] = record[i]
        BY <1>2, <3>1, GrownLog
      <4>2. IsLog(record') /\ IsMessage(e) /\ e.asks \in BOOLEAN
        BY <3>1 DEF Grown, Appended
      <4>3. \A i \in DOMAIN record' : IsMessage(record'[i]) /\ record'[i].asks \in BOOLEAN
        BY <1>2, <4>1, <4>2 DEF TypeInv
      <4>4. IsLog(Driven)' /\ \A d \in DOMAIN Driven' :
               IsMessage(Driven'[d]) /\ Driven'[d].dir = "c2s" /\ Driven'[d].asks = FALSE
        BY <1>1, <1>2 DEF TypeInv, Driven
      <4> QED BY <1>2, <2>4, <4>2, <4>3, <4>4 DEF TypeInv, IsMessage
    <3>3. SentInv'
      BY <1>1, <1>2, <3>1, GrownSent DEF ReplayInv, RecordInv
    <3>4. PacedInv'
      BY <1>2, <3>1, GrownPaced DEF ReplayInv, RecordInv
    <3>5. StreamInv'
      <4>1. /\ e.sub = subs[y].id
            /\ subs[y].got = 0 => e.method = "acknowledged" /\ e.topics = subs[y].accepted
            /\ subs[y].got # 0 => e.topic \in subs[y].accepted
        BY <1>3, <2>3, <3>1 DEF SameMessage
      <4> QED BY <1>2, <2>1, <2>6, <3>1, <4>1, CountedStream DEF ReplayInv, RecordInv
    <3>6. ControlInv'
      BY <1>1, <1>2, <2>1, <2>2, <2>6, <3>1, FrameControl
    <3> QED BY <3>2, <3>3, <3>4, <3>5, <3>6 DEF ReplayInv, RecordInv
  <2> QED BY <2>5, <2>6
<1>10. CASE subs' = [subs EXCEPT ![y].task = "error"] /\ UNCHANGED <<record, late>>
  <2>1. SubsKept
    BY <1>2, <1>10, KeptIfTask
  <2> QED BY <1>1, <1>2, <1>10, <2>1, TaskControl DEF Calm
<1> QED BY <1>4, <1>8, <1>9, <1>10

-----------------------------------------------------------------------------
(* The invariant *)

LEMMA ReplayInit == ASSUME Init PROVE ReplayInv
<1>1. PICK c \in Captures : capture = Prepared(c)
  BY DEF Init
<1>2. /\ stage = "start" /\ index = 1 /\ record = <<>> /\ subs = <<>> /\ late = 0 /\ result = "none"
  BY DEF Init
<1>3. /\ Driven = Prepared(c).driven /\ Driven \in Seq(Range(Driven))
      /\ \A i \in DOMAIN Driven :
            MessageFields \subseteq DOMAIN Driven[i] /\ Driven[i].dir = "c2s" /\ Driven[i].asks = FALSE
  BY <1>1, CaptureAssumption DEF Driven
<1>4. IsLog(record) /\ IsLog(subs) /\ DOMAIN record = {} /\ DOMAIN subs = {}
  <2>1. <<>> \in Seq({})
    OBVIOUS
  <2> QED BY <1>2, <2>1 DEF IsLog
<1>5. TypeInv
  BY <1>2, <1>3, <1>4 DEF TypeInv, IsLog, IsMessage
<1>6. RecordInv
  BY <1>4 DEF RecordInv, SentInv, StreamInv, PacedInv
<1>7. DriveInv /\ CloseInv /\ AskInv /\ PostInv /\ EndInv /\ OpeningInv /\ AckedInv
  BY <1>2, <1>4 DEF DriveInv, CloseInv, AskInv, PostInv, EndInv, OpeningInv, AckedInv, Exchange, Opening
<1>8. PassedInv
  <2>1. \A d \in DOMAIN Driven : ~(d < index \/ (d = index /\ stage = "acking"))
    <3>1. DOMAIN Driven = 1 .. Len(Driven) /\ Len(Driven) \in Nat
      BY <1>5, LogLength DEF TypeInv
    <3> QED BY <1>2, <3>1
  <2> QED BY <2>1 DEF PassedInv
<1> QED BY <1>5, <1>6, <1>7, <1>8 DEF ReplayInv, ControlInv

LEMMA ReplayStep == ASSUME ReplayInv, [Next]_vars PROVE ReplayInv'
<1>1. CASE DriveStep
  BY <1>1, EndingSteps, WaitingSteps, TakeMessageStep, PostStep, ExpireStep, AnsweredStep, ListenStep,
     FailingSteps, AcknowledgedStep DEF DriveStep
<1>2. CASE SettleExpires
  BY <1>2, FailingSteps
<1>3. CASE TargetStep
  BY <1>3, RespondStep, FailingSteps, ReadBodyStep, EndBodyStep, ListenAcceptedStep, ListenRefusedStep,
     EndingSteps, SubscriptionFrameStep, TaskSteps DEF TargetStep
<1>4. CASE \E i \in DOMAIN subs : AbortTakesEffect(i)
  BY <1>4, TaskSteps
<1>5. CASE UNCHANGED vars
  BY <1>5, StutterStep
<1> QED BY <1>1, <1>2, <1>3, <1>4, <1>5 DEF Next

\* What the record says and what the next step relies on, in every state of
\* run, drive and the tasks of the subscriptions.
THEOREM ReplayInvariant == Spec => []ReplayInv
BY ReplayInit, ReplayStep, PTL DEF Spec

\* NothingAfterClose: finish_storage_writer closes the session only after
\* wait_for_subscriptions has joined the aborted tasks, unless the run failed.
THEOREM NothingComesLate == Spec => []NothingAfterClose
<1>1. ReplayInv => NothingAfterClose
  BY DEF ReplayInv, ControlInv, CloseInv, NothingAfterClose
<1> QED BY <1>1, ReplayInvariant, PTL

\* RetriesAreLive: build_mrtr_retry_request puts the state of the response that
\* asked last into the retry, and a number no message of the session had.
THEOREM RetriesCarryLiveState == Spec => []RetriesAreLive
<1>1. ASSUME ReplayInv PROVE RetriesAreLive
  <2>1. Len(record) \in Nat /\ DOMAIN record = 1 .. Len(record)
    BY <1>1, LogLength DEF ReplayInv, TypeInv
  <2>2. ASSUME NEW i \in DOMAIN record, record[i].dir = "c2s", record[i].id \notin DrivenIds
        PROVE  Live(record[i], i - 1)
    BY <1>1, <2>2 DEF ReplayInv, RecordInv, SentInv
  <2> SUFFICES ASSUME NEW i \in DOMAIN record, record[i].dir = "c2s", record[i].id \notin DrivenIds
               PROVE  LET asked == {j \in 1 .. i - 1 : record[j].asks}
                          last  == CHOOSE j \in asked : \A k \in asked : k <= j
                      IN  /\ asked # {} /\ record[i].state = record[last].state
                          /\ \A j \in 1 .. i - 1 : record[j].dir = "c2s" => record[j].id # record[i].id
    BY DEF RetriesAreLive, DrivenIds
  <2> DEFINE asked == {j \in 1 .. i - 1 : record[j].asks}
             last  == CHOOSE j \in asked : \A k \in asked : k <= j
  <2>3. i \in Nat /\ i - 1 \in Nat /\ 1 .. i - 1 \subseteq DOMAIN record
    BY <2>1
  <2>4. PICK j \in 1 .. i - 1 : LastAsk(j, i - 1) /\ record[j].state = record[i].state
    BY <2>2 DEF Live
  <2>5. j \in asked /\ \A k \in asked : k <= j
    BY <2>3, <2>4 DEF LastAsk
  <2>6. last = j
    <3>1. last \in asked /\ \A k \in asked : k <= last
      BY <2>5
    <3> QED BY <2>3, <2>5, <3>1
  <2>7. PICK m \in 0 .. i - 1 : record[i].id = RetryId(m) /\ \A k \in (m + 1) .. (i - 1) : record[k].dir # "c2s"
    BY <2>2 DEF Live, Numbered
  <2>8. ASSUME NEW k \in 1 .. i - 1, record[k].dir = "c2s", record[k].id = record[i].id PROVE FALSE
    <3>1. k <= m
      BY <2>3, <2>7, <2>8
    <3>2. k \in DOMAIN record /\ record[k].id \notin DrivenIds
      BY <2>3, <2>8
    <3>3. Live(record[k], k - 1)
      BY <2>2, <2>8, <3>2
    <3>4. PICK o \in 0 .. k - 1 : record[k].id = RetryId(o)
      BY <3>3 DEF Live, Numbered
    <3>5. o = m
      BY <2>7, <2>8, <3>4 DEF RetryId
    <3> QED BY <2>3, <2>8, <3>1, <3>5
  <2> QED BY <2>4, <2>5, <2>6, <2>8
<1> QED BY <1>1, ReplayInvariant, PTL

\* SubscriptionEvidence: start_subscription_replay waits for the acknowledgment,
\* wait_for_subscriptions for as many frames as were captured, and
\* capture_subscription_event lets nothing else into the stream.
THEOREM SubscriptionsAreWhole == Spec => []SubscriptionEvidence
<1>1. ASSUME ReplayInv PROVE SubscriptionEvidence
  <2>1. \A i \in DOMAIN record : \A j \in (i + 1) .. Len(record) :
           record[i].dir = "c2s" /\ IsListen(record[i]) /\ record[j].dir = "c2s" =>
               \E k \in i .. j : record[k].method = "acknowledged" /\ record[k].sub = record[i].id
    BY <1>1 DEF ReplayInv, RecordInv, PacedInv, Listens, Acked
  <2>2. ASSUME stage = "ended", result = "ok", NEW d \in DOMAIN Driven, IsListen(Driven[d]),
               NEW source, source = subscription_expectation(capture.messages, Driven[d])
        PROVE  /\ Cardinality(Stream(Driven[d].id)) = source.expected
               /\ \A k \in Stream(Driven[d].id) :
                     IF \E l \in Stream(Driven[d].id) : l < k THEN record[k].topic \in source.accepted
                     ELSE record[k].method = "acknowledged" /\ record[k].topics = source.accepted
    <3>1. d < index
      <4>1. DOMAIN Driven = 1 .. Len(Driven) /\ Len(Driven) \in Nat /\ index \in Nat
        BY <1>1, LogLength DEF ReplayInv, TypeInv
      <4>2. index > Len(Driven)
        BY <1>1, <2>2 DEF ReplayInv, ControlInv, EndInv
      <4> QED BY <4>1, <4>2
    <3>2. PICK x \in DOMAIN subs : Follows(subs[x], d)
      BY <1>1, <2>2, <3>1 DEF ReplayInv, ControlInv, PassedInv
    <3>3. PICK s : s = subs[x]
      OBVIOUS
    <3>4. s.id = Driven[d].id /\ s.accepted = source.accepted /\ s.expected = source.expected
      BY <2>2, <3>2, <3>3 DEF Follows
    <3>5. s.got = s.expected
      BY <1>1, <2>2, <3>3 DEF ReplayInv, ControlInv, EndInv
    <3>6. Evidence(s)
      BY <1>1, <2>2, <3>3 DEF ReplayInv, RecordInv, StreamInv
    <3> QED BY <3>4, <3>5, <3>6 DEF Evidence
  <2> QED BY <2>1, <2>2 DEF SubscriptionEvidence
<1> QED BY <1>1, ReplayInvariant, PTL
=============================================================================
