------------------------------ MODULE ReplayProofs ------------------------------
(***************************************************************************)
(* Proofs about Replay, for any recorded sessions and command lines, any   *)
(* pipe capacity and a server that says anything any number of times.      *)
(***************************************************************************)
EXTENDS Replay, FiniteSetTheorems, SequenceTheorems, TLAPS

\* A finite sequence, of whatever.
IsLog(s) == \E S : s \in Seq(S)

Planned(p) ==
    /\ IsLog(p.driven)
    /\ \A i \in DOMAIN p.driven :
          /\ IsFrame(p.driven[i]) /\ p.driven[i].dir = "c2s"
          /\ p.driven[i].kind \in {"request", "notification"}
    /\ \A i, j \in DOMAIN p.driven : p.driven[i].seq = p.driven[j].seq => i = j
    /\ \A seq \in DOMAIN p.cancellations :
          /\ IsFrame(p.cancellations[seq]) /\ p.cancellations[seq].dir = "c2s"
          /\ p.cancellations[seq].kind = "notification"
    /\ p.adjacent => \A i \in DOMAIN p.driven :
          p.driven[i].seq \in DOMAIN p.cancellations =>
              i < Len(p.driven) /\ p.driven[i + 1].seq = p.cancellations[p.driven[i].seq].seq
    /\ \A id \in DOMAIN p.lookaside :
          /\ IsFrame(p.lookaside[id]) /\ p.lookaside[id].dir = "c2s"
          /\ p.lookaside[id].kind = "response"

\* A request that was driven, as its answer names it.
Asked(id, src) ==
    \E d \in DOMAIN plan.driven :
        plan.driven[d].kind = "request" /\ plan.driven[d].id = id /\ plan.driven[d].seq = src

FromServer(f) == IsFrame(f) /\ f.dir = "s2c" /\ (f.kind = "response" => Asked(f.id, f.src))
ToServer(m) == m.kind = "request" => Asked(m.id, m.seq)

\* What is under way in either direction.
PipeInv ==
    /\ \E S : stdout \in Seq(S) /\ \A f \in S : FromServer(f)
    /\ \E S : buf \in Seq(S) /\ \A f \in S : FromServer(f)
    /\ \E S : stdin \in Seq(S) /\ \A m \in S : ToServer(m)
    /\ \A r \in owed : Asked(r.id, r.src)

Count == Cardinality(Sends)
Over == {"closing", "ended"}     \* drive has returned

\* How many messages were sent by the time drive is at its place: one less than
\* the place, unless the message there was sent ahead as a cancellation.
PlaceInv ==
    /\ at \in Nat \ {0}
    /\ pc = "start" => Count = 0 /\ at = 1
    /\ pc = "sending" =>
          \/ Count = at - 1
          \/ Count = at /\ at <= Len(plan.driven) /\ Current.seq \in sentCancels
    /\ pc \in {"waiting", "interval", "cancelling"} => Count = at /\ at <= Len(plan.driven)
    /\ pc \in {"interval", "cancelling"} => Current.seq \in DOMAIN plan.cancellations
    /\ pc = "waiting" => Current.kind = "request"
    /\ pc \notin {"start"} \cup Over => plan.adjacent
    /\ outcome # "none" => pc \in Over
    /\ outcome = "ok" /\ ~opts.plan => Count = Len(plan.driven)

SentInv ==
    /\ Count <= Len(plan.driven)
    /\ \A i \in Sends :
          \E n \in 1 .. Len(plan.driven) :
              n = Cardinality({j \in Sends : j <= i}) /\ log[i].src = plan.driven[n].seq
    /\ \A seq \in sentCancels : \E d \in 1 .. Count : plan.driven[d].seq = seq

LogInv == IsLog(log) /\ Planned(plan)

SendInv == LogInv /\ PipeInv /\ PlaceInv /\ SentInv

-----------------------------------------------------------------------------
(* The wait for an answer, for sessions whose requests have ids of their own *)

OwnIds(p) ==
    /\ \A i \in DOMAIN p.driven : p.driven[i].kind = "request" => p.driven[i].id # NoId
    /\ \A i, j \in DOMAIN p.driven :
          p.driven[i].kind = "request" /\ p.driven[j].kind = "request" /\ p.driven[i].id = p.driven[j].id => i = j

IdsDiffer == \A messages \in Sources, o \in Options : OwnIds(Prepared(messages, o))

Owing(i) ==
    /\ log[i].dir = "c2s" /\ log[i].kind = "request"
    /\ log[i].src \notin DOMAIN plan.cancellations
    /\ \A u \in unanswered : u.seq # log[i].src

Answered(i, n) == \E k \in i .. n : log[k].kind = "response" /\ log[k].src = log[i].src

WaitInv ==
    /\ OwnIds(plan)
    /\ \A i \in DOMAIN log : \A j \in (i + 1) .. Len(log) :
          Owing(i) /\ log[j].dir = "c2s" /\ log[j].kind # "response" => Answered(i, j)
    /\ pc \notin Over =>
          \A i \in DOMAIN log : Owing(i) =>
              Answered(i, Len(log)) \/ (pc = "waiting" /\ log[i].src = Current.seq)

-----------------------------------------------------------------------------
(* Sequences *)

LEMMA LogLength ==
    ASSUME NEW s, IsLog(s)
    PROVE  Len(s) \in Nat /\ DOMAIN s = 1 .. Len(s)
BY DEF IsLog

LEMMA AppendWider ==
    ASSUME NEW S, NEW s \in Seq(S), NEW e, NEW t, t = Append(s, e)
    PROVE  t \in Seq(S \cup {e})
<1>1. PICK T : T = S \cup {e}
  OBVIOUS
<1>2. s \in Seq(T) /\ e \in T
  BY <1>1
<1>3. t \in Seq(T)
  BY <1>2, AppendProperties
<1> QED BY <1>1, <1>3

\* t is s with e after it.
Appended(s, t, e) ==
    /\ IsLog(t) /\ Len(t) = Len(s) + 1 /\ t[Len(s) + 1] = e
    /\ \A i \in DOMAIN s : t[i] = s[i]

LEMMA AppendLog ==
    ASSUME NEW s, IsLog(s), NEW e, NEW t, t = Append(s, e)
    PROVE  Appended(s, t, e)
<1>1. PICK S : s \in Seq(S)
  BY DEF IsLog
<1>2. PICK T : T = S \cup {e}
  OBVIOUS
<1>3. s \in Seq(T) /\ e \in T
  BY <1>1, <1>2
<1>4. t \in Seq(T)
  BY <1>3, AppendProperties
<1>5. Len(t) = Len(s) + 1 /\ (\A i \in 1 .. Len(s) : t[i] = s[i]) /\ t[Len(s) + 1] = e
  BY <1>3, AppendProperties
<1>6. DOMAIN s = 1 .. Len(s)
  BY <1>3
<1> QED BY <1>4, <1>5, <1>6 DEF IsLog, Appended

LEMMA TailSame ==
    ASSUME NEW S, NEW s \in Seq(S), s # <<>>
    PROVE  Head(s) \in S /\ Tail(s) \in Seq(S)
BY HeadTailProperties

LEMMA PrefixSame ==
    ASSUME NEW S, NEW s \in Seq(S), NEW n \in 1 .. Len(s)
    PROVE  SubSeq(s, 1, n) \in Seq(S) /\ SubSeq(s, n + 1, Len(s)) \in Seq(S)
<1>1. Len(s) \in Nat /\ DOMAIN s = 1 .. Len(s) /\ \A i \in 1 .. Len(s) : s[i] \in S
  OBVIOUS
<1>2. SubSeq(s, 1, n) \in Seq(S)
  <2>1. \A i \in 1 .. n : s[i] \in S
    BY <1>1
  <2> QED BY <1>1, <2>1, SubSeqProperties
<1>3. SubSeq(s, n + 1, Len(s)) \in Seq(S)
  <2>1. \A i \in n + 1 .. Len(s) : s[i] \in S
    BY <1>1
  <2> QED BY <1>1, <2>1, SubSeqProperties
<1> QED BY <1>2, <1>3

\* What is recorded is the frame and where it stems from.
Entry(e, m, src) == e.dir = m.dir /\ e.kind = m.kind /\ e.src = src

LEMMA RecordedLog ==
    ASSUME NEW to, IsLog(to), NEW m, IsFrame(m), NEW src, NEW t, t = Recorded(to, m, src)
    PROVE  \E e : Appended(to, t, e) /\ Entry(e, m, src)
<1>1. PICK n, b, e : n = Len(to) /\ b = [m EXCEPT !.seq = n] /\ e = [b EXCEPT !.src = src]
  OBVIOUS
<1>2. FrameFields \subseteq DOMAIN b /\ b.dir = m.dir /\ b.kind = m.kind
  BY <1>1 DEF IsFrame, FrameFields
<1>3. e.dir = b.dir /\ e.kind = b.kind /\ e.src = src
  BY <1>1, <1>2 DEF FrameFields
<1>4. t = Append(to, e)
  BY <1>1 DEF Recorded
<1>5. Appended(to, t, e)
  BY <1>4, AppendLog
<1> QED BY <1>2, <1>3, <1>5 DEF Entry

-----------------------------------------------------------------------------
(* What was sent *)

IsSend(e) == e.dir = "c2s" /\ e.kind # "response"

LEMMA SendsFinite ==
    ASSUME LogInv
    PROVE  /\ Sends \subseteq 1 .. Len(log) /\ IsFiniteSet(Sends) /\ Count \in Nat
           /\ \A i \in Sends : IsFiniteSet({j \in Sends : j <= i})
<1>1. Len(log) \in Nat /\ DOMAIN log = 1 .. Len(log)
  BY LogLength DEF LogInv
<1>2. Sends \subseteq 1 .. Len(log) /\ IsFiniteSet(1 .. Len(log))
  BY <1>1, FS_Interval DEF Sends
<1>3. IsFiniteSet(Sends)
  BY <1>2, FS_Subset
<1>4. \A i \in Sends : IsFiniteSet({j \in Sends : j <= i})
  BY <1>3, FS_Subset
<1> QED BY <1>2, <1>3, <1>4, FS_CardinalityType DEF Count

\* t is s and then some frames that drive did not send of its own.
OnlyHeard(s, t) ==
    /\ IsLog(t) /\ Len(s) <= Len(t)
    /\ \A i \in DOMAIN s : t[i] = s[i]
    /\ \A i \in (Len(s) + 1) .. Len(t) : ~IsSend(t[i])

LEMMA HeardOne ==
    ASSUME NEW s, IsLog(s), NEW t, NEW e, Appended(s, t, e), ~IsSend(e)
    PROVE  OnlyHeard(s, t)
<1>1. Len(s) \in Nat /\ Len(t) = Len(s) + 1
  BY LogLength DEF Appended
<1>2. \A i \in (Len(s) + 1) .. Len(t) : i = Len(s) + 1
  BY <1>1
<1> QED BY <1>1, <1>2 DEF OnlyHeard, Appended

LEMMA HeardBoth ==
    ASSUME NEW s, IsLog(s), NEW t, OnlyHeard(s, t), NEW u, OnlyHeard(t, u)
    PROVE  OnlyHeard(s, u)
<1>1. IsLog(t) /\ IsLog(u)
  BY DEF OnlyHeard
<1>2. /\ Len(s) \in Nat /\ DOMAIN s = 1 .. Len(s) /\ Len(t) \in Nat /\ DOMAIN t = 1 .. Len(t)
      /\ Len(u) \in Nat /\ DOMAIN u = 1 .. Len(u)
  BY <1>1, LogLength
<1>3. Len(s) <= Len(t) /\ Len(t) <= Len(u)
  BY DEF OnlyHeard
<1>4. \A i \in DOMAIN s : u[i] = s[i]
  BY <1>2, <1>3 DEF OnlyHeard
<1>5. ASSUME NEW i \in (Len(s) + 1) .. Len(u)
      PROVE  ~IsSend(u[i])
  <2>1. CASE i <= Len(t)
    <3>1. i \in (Len(s) + 1) .. Len(t) /\ i \in DOMAIN t
      BY <1>2, <1>3, <2>1
    <3> QED BY <3>1 DEF OnlyHeard
  <2>2. CASE ~(i <= Len(t))
    <3>1. i \in (Len(t) + 1) .. Len(u)
      BY <1>2, <1>3, <2>2
    <3> QED BY <3>1 DEF OnlyHeard
  <2> QED BY <2>1, <2>2
<1> QED BY <1>1, <1>2, <1>3, <1>4, <1>5 DEF OnlyHeard

LEMMA NothingSent ==
    ASSUME LogInv, SentInv, OnlyHeard(log, log'), UNCHANGED <<plan, sentCancels>>
    PROVE  Count' = Count /\ SentInv' /\ LogInv'
<1>1. /\ Len(log) \in Nat /\ DOMAIN log = 1 .. Len(log)
      /\ Len(log') \in Nat /\ DOMAIN log' = 1 .. Len(log') /\ Len(log) <= Len(log')
      /\ \A i \in 1 .. Len(log) : log'[i] = log[i]
      /\ \A i \in (Len(log) + 1) .. Len(log') : ~IsSend(log'[i])
  BY LogLength DEF LogInv, OnlyHeard
<1>2. Sends' = Sends
  <2>1. \A i \in 1 .. Len(log') : i \in 1 .. Len(log) \/ i \in (Len(log) + 1) .. Len(log')
    BY <1>1
  <2>2. 1 .. Len(log) \subseteq 1 .. Len(log')
    BY <1>1
  <2> QED BY <1>1, <2>1, <2>2 DEF Sends, IsSend
<1>3. Count' = Count
  BY <1>2 DEF Count
<1>4. \A i \in Sends : log'[i] = log[i]
  BY <1>1 DEF Sends
<1>5. SentInv'
  BY <1>2, <1>3, <1>4 DEF SentInv
<1> QED BY <1>3, <1>5 DEF LogInv, OnlyHeard

LEMMA Quiet ==
    ASSUME LogInv, SentInv, UNCHANGED <<log, plan, sentCancels>>
    PROVE  Count' = Count /\ SentInv' /\ LogInv'
<1>1. Len(log) \in Nat
  BY LogLength DEF LogInv
<1>2. OnlyHeard(log, log')
  BY <1>1 DEF LogInv, OnlyHeard
<1> QED BY <1>2, NothingSent

LEMMA UpTo ==
    ASSUME NEW S, NEW m \in Nat, S \subseteq 1 .. m, NEW T, T = S \cup {m + 1}
    PROVE  \A i \in S : {j \in T : j <= i} = {j \in S : j <= i}
<1>1. ASSUME NEW i \in S
      PROVE  {j \in T : j <= i} = {j \in S : j <= i}
  <2>1. ~(m + 1 <= i)
    OBVIOUS
  <2> QED BY <2>1
<1> QED BY <1>1

LEMMA OneSent ==
    ASSUME LogInv, SentInv, NEW e, Appended(log, log', e), IsSend(e), plan' = plan,
           NEW n, n = Count + 1, n <= Len(plan.driven), e.src = plan.driven[n].seq,
           sentCancels' \subseteq sentCancels \cup {plan.driven[n].seq}
    PROVE  Count' = n /\ SentInv' /\ LogInv'
<1>1. /\ Len(log) \in Nat /\ DOMAIN log = 1 .. Len(log) /\ DOMAIN log' = 1 .. Len(log) + 1
      /\ log'[Len(log) + 1] = e /\ \A i \in 1 .. Len(log) : log'[i] = log[i]
  BY LogLength DEF LogInv, Appended
<1>2. PICK last : last = Len(log) + 1
  OBVIOUS
<1>3. Sends' = Sends \cup {last} /\ Sends \subseteq 1 .. Len(log) /\ last \notin Sends
  BY <1>1, <1>2 DEF Sends, IsSend
<1>4. IsFiniteSet(Sends) /\ Count \in Nat /\ Len(plan.driven) \in Nat
  BY SendsFinite, LogLength DEF LogInv, Planned
<1>5. Count' = n
  <2>1. Cardinality(Sends \cup {last}) = Cardinality(Sends) + 1
    BY <1>3, <1>4, FS_AddElement
  <2> QED BY <1>3, <2>1 DEF Count
<1>6. ASSUME NEW i \in Sends'
      PROVE  \E k \in 1 .. Len(plan.driven) :
                 k = Cardinality({j \in Sends' : j <= i}) /\ log'[i].src = plan.driven[k].seq
  <2>1. CASE i = last
    <3>1. PICK T : T = {j \in Sends' : j <= i}
      OBVIOUS
    <3>2. T = Sends'
      <4>1. \A j \in Sends' : j <= i
        BY <1>1, <1>2, <1>3, <2>1
      <4>2. PICK U : U = Sends'
        OBVIOUS
      <4> QED BY ONLY <3>1, <4>1, <4>2
    <3>3. Cardinality(T) = n
      BY <1>5, <3>2 DEF Count
    <3>4. n \in 1 .. Len(plan.driven)
      BY <1>4
    <3>5. log'[i].src = plan.driven[n].seq
      BY <1>1, <1>2, <2>1
    <3> QED BY ONLY <3>1, <3>3, <3>4, <3>5
  <2>2. CASE i \in Sends
    <3>1. {j \in Sends' : j <= i} = {j \in Sends : j <= i}
      BY <1>1, <1>2, <1>3, <2>2, UpTo
    <3>2. log'[i] = log[i]
      BY <1>1, <1>3, <2>2
    <3> QED BY <2>2, <3>1, <3>2 DEF SentInv
  <2> QED BY <1>3, <2>1, <2>2
<1>7. \A seq \in sentCancels' : \E d \in 1 .. n : plan.driven[d].seq = seq
  BY <1>4 DEF SentInv
<1> QED BY <1>5, <1>6, <1>7 DEF SentInv, LogInv, Appended

-----------------------------------------------------------------------------
(* The pipes: the server answers what drive asked *)

LEMMA Started == Init => SendInv
<1> SUFFICES ASSUME Init PROVE SendInv
  OBVIOUS
<1>1. source \in Sources /\ opts \in Options /\ plan = Prepared(source, opts) /\ log = <<>>
  BY DEF Init
<1>2. Planned(plan)
  <2>1. plan.driven \in Seq(Range(plan.driven))
    BY <1>1, PlanAssumption
  <2> QED BY <1>1, <2>1, PlanAssumption DEF Planned, IsLog
<1>3. LogInv
  <2>1. <<>> \in Seq({})
    OBVIOUS
  <2> QED BY <1>1, <1>2, <2>1 DEF LogInv, IsLog
<1>4. PipeInv
  <2>1. <<>> \in Seq({})
    OBVIOUS
  <2> QED BY <2>1 DEF Init, PipeInv
<1>5. Sends = {} /\ Count = 0
  BY <1>1, FS_EmptySet DEF Sends, Count
<1>6. PlaceInv
  BY <1>5 DEF Init, PlaceInv, Over
<1>7. SentInv
  <2>1. Len(plan.driven) \in Nat
    BY <1>2, LogLength DEF Planned
  <2> QED BY <1>5, <2>1 DEF Init, SentInv
<1> QED BY <1>3, <1>4, <1>6, <1>7 DEF SendInv

LEMMA Pipes ==
    ASSUME plan' = plan,
           \E S : stdout' \in Seq(S) /\ \A f \in S : FromServer(f),
           \E S : buf' \in Seq(S) /\ \A f \in S : FromServer(f),
           \E S : stdin' \in Seq(S) /\ \A m \in S : ToServer(m),
           \A r \in owed' : Asked(r.id, r.src)
    PROVE  PipeInv'
BY DEF PipeInv, FromServer, ToServer, Asked

\* What drive puts into the server's input.
LEMMA Posted ==
    ASSUME PipeInv, plan' = plan, NEW m, ToServer(m), stdin' = Append(stdin, m),
           UNCHANGED <<stdout, owed>>,
           \E S : buf' \in Seq(S) /\ \A f \in S : FromServer(f)
    PROVE  PipeInv'
<1>1. PICK S : stdin \in Seq(S) /\ \A n \in S : ToServer(n)
  BY DEF PipeInv
<1>2. PICK T : T = S \cup {m}
  OBVIOUS
<1>3. stdin' \in Seq(T)
  BY <1>1, <1>2, AppendWider
<1>4. \A n \in T : ToServer(n)
  BY <1>1, <1>2
<1>5. \E U : stdin' \in Seq(U) /\ \A n \in U : ToServer(n)
  BY <1>3, <1>4
<1> QED BY <1>5, Pipes DEF PipeInv

LEMMA AtPlace ==
    ASSUME LogInv, PlaceInv, at <= Len(plan.driven)
    PROVE  /\ at \in DOMAIN plan.driven /\ Current = plan.driven[at] /\ IsFrame(Current)
           /\ Current.dir = "c2s" /\ Current.kind \in {"request", "notification"}
<1>1. Len(plan.driven) \in Nat /\ DOMAIN plan.driven = 1 .. Len(plan.driven)
  BY LogLength DEF LogInv, Planned
<1>2. at \in DOMAIN plan.driven
  BY <1>1 DEF PlaceInv
<1> QED BY <1>2 DEF Current, LogInv, Planned

\* The frame at the head of the buffer comes from the server.
LEMMA HeadFrame ==
    ASSUME PipeInv, buf # <<>>
    PROVE  FromServer(Head(buf)) /\ \E S : Tail(buf) \in Seq(S) /\ \A f \in S : FromServer(f)
<1>1. PICK S : buf \in Seq(S) /\ \A f \in S : FromServer(f)
  BY DEF PipeInv
<1>2. Head(buf) \in S /\ Tail(buf) \in Seq(S)
  BY <1>1, TailSame
<1> QED BY <1>1, <1>2

LEMMA Reply ==
    ASSUME LogInv, NEW f, FromServer(f)
    PROVE  IsFrame(ReplyTo(f)) /\ ReplyTo(f).dir = "c2s" /\ ReplyTo(f).kind = "response"
<1>1. CASE f.id \in DOMAIN plan.lookaside
  BY <1>1 DEF ReplyTo, LogInv, Planned
<1>2. CASE f.id \notin DOMAIN plan.lookaside
  <2>1. PICK a : a = [f EXCEPT !.dir = "c2s"]
    OBVIOUS
  <2>2. PICK b : b = [a EXCEPT !.kind = "response"]
    OBVIOUS
  <2>3. PICK c : c = [b EXCEPT !.method = "none"]
    OBVIOUS
  <2>4. PICK d : d = [c EXCEPT !.err = TRUE]
    OBVIOUS
  <2>5. FrameFields \subseteq DOMAIN f
    BY DEF FromServer, IsFrame
  <2>6. FrameFields \subseteq DOMAIN a /\ a.dir = "c2s"
    BY <2>1, <2>5 DEF FrameFields
  <2>7. FrameFields \subseteq DOMAIN b /\ b.dir = "c2s" /\ b.kind = "response"
    BY <2>2, <2>6 DEF FrameFields
  <2>8. FrameFields \subseteq DOMAIN c /\ c.dir = "c2s" /\ c.kind = "response"
    BY <2>3, <2>7 DEF FrameFields
  <2>9. FrameFields \subseteq DOMAIN d /\ d.dir = "c2s" /\ d.kind = "response"
    BY <2>4, <2>8 DEF FrameFields
  <2>10. ReplyTo(f) = d
    BY <1>2, <2>1, <2>2, <2>3, <2>4 DEF ReplyTo
  <2> QED BY <2>9, <2>10 DEF IsFrame
<1> QED BY <1>1, <1>2

\* A frame the server sends.
LEMMA Written ==
    ASSUME PipeInv, plan' = plan, buf' = buf, stdin' = stdin, NEW f, FromServer(f), Write(f),
           \A r \in owed' : Asked(r.id, r.src)
    PROVE  PipeInv'
<1>1. PICK S : stdout \in Seq(S) /\ \A n \in S : FromServer(n)
  BY DEF PipeInv
<1>2. PICK T : T = S \cup {f}
  OBVIOUS
<1>3. stdout' = Append(stdout, f)
  BY DEF Write
<1>4. stdout' \in Seq(T)
  BY <1>1, <1>2, <1>3, AppendWider
<1>5. \A n \in T : FromServer(n)
  BY <1>1, <1>2
<1>6. \E U : stdout' \in Seq(U) /\ \A n \in U : FromServer(n)
  BY <1>4, <1>5
<1> QED BY <1>6, Pipes DEF PipeInv

LEMMA FrameShape ==
    ASSUME NEW kind, NEW id, NEW src, NEW valid
    PROVE  LET f == Frame(kind, id, src, valid)
           IN  IsFrame(f) /\ f.dir = "s2c" /\ f.kind = kind /\ f.id = id /\ f.src = src
BY DEF Frame, IsFrame, FrameFields

\* What the server does keeps the pipes and nothing else of what is claimed.
LEMMA ServerPipes ==
    ASSUME SendInv, ServerStep
    PROVE  PipeInv'
<1>1. LogInv /\ PipeInv /\ plan' = plan /\ buf' = buf
  BY DEF SendInv, ServerStep, ServerReads, ServerAnswers, ServerSpeaks, ServerExits, Write, client
<1>2. CASE ServerReads
  <2>1. PICK S : stdin \in Seq(S) /\ \A m \in S : ToServer(m)
    BY <1>1 DEF PipeInv
  <2>2. Head(stdin) \in S /\ stdin' \in Seq(S)
    BY <1>2, <2>1, TailSame DEF ServerReads
  <2>3. \A r \in owed' : Asked(r.id, r.src)
    BY <1>1, <1>2, <2>1, <2>2 DEF ServerReads, PipeInv, ToServer
  <2>4. stdout' = stdout
    BY <1>2 DEF ServerReads
  <2> QED BY <1>1, <2>1, <2>2, <2>3, <2>4, Pipes DEF PipeInv
<1>3. CASE ServerAnswers
  <2>1. PICK r \in owed, again \in BOOLEAN :
            Write(Frame("response", r.id, r.src, TRUE)) /\ owed' = IF again THEN owed ELSE owed \ {r}
    BY <1>3 DEF ServerAnswers
  <2>2. PICK f : f = Frame("response", r.id, r.src, TRUE)
    OBVIOUS
  <2>3. FromServer(f)
    <3>1. IsFrame(f) /\ f.dir = "s2c" /\ f.id = r.id /\ f.src = r.src
      BY <2>2 DEF Frame, IsFrame, FrameFields
    <3>2. Asked(r.id, r.src)
      BY <1>1, <2>1 DEF PipeInv
    <3> QED BY <3>1, <3>2 DEF FromServer
  <2>4. stdin' = stdin /\ Write(f)
    BY <2>1, <2>2 DEF Write
  <2>5. \A q \in owed' : Asked(q.id, q.src)
    BY <1>1, <2>1 DEF PipeInv
  <2> QED BY <1>1, <2>3, <2>4, <2>5, Written
<1>4. CASE ServerSpeaks
  <2>1. \E kind, id, valid : kind # "response" /\ Write(Frame(kind, id, NoSeq, valid))
    <3>1. "notification" # "response" /\ "request" # "response"
      OBVIOUS
    <3> QED BY ONLY <1>4, <3>1 DEF ServerSpeaks
  <2>2. PICK kind, id, valid : kind # "response" /\ Write(Frame(kind, id, NoSeq, valid))
    BY <2>1
  <2>3. PICK f : f = Frame(kind, id, NoSeq, valid)
    OBVIOUS
  <2>4. FromServer(f)
    BY <2>2, <2>3, FrameShape DEF FromServer
  <2>5. stdin' = stdin /\ Write(f) /\ owed' = owed
    BY <1>4, <2>2, <2>3 DEF Write, ServerSpeaks
  <2> QED BY <1>1, <2>4, <2>5, Written DEF PipeInv
<1>5. CASE ServerExits
  BY <1>1, <1>5, Pipes DEF ServerExits, PipeInv
<1> QED BY <1>2, <1>3, <1>4, <1>5 DEF ServerStep

\* Nothing under way changes.
LEMMA PipesSame ==
    ASSUME PipeInv, UNCHANGED <<plan, buf, stdin, stdout, owed>>
    PROVE  PipeInv'
BY Pipes DEF PipeInv

LEMMA ClientPipes ==
    ASSUME SendInv, ClientStep
    PROVE  PipeInv'
<1>1. LogInv /\ PipeInv /\ PlaceInv /\ plan' = plan
  BY DEF SendInv, ClientStep, RefuseReplay, ShowPlan, StartReplay, SkipSentCancellation, SendFails, Fail,
         Send, SendCancellation, CancellationFails, ReadStdout, TakeFrame, AnswerServer, FrameFails,
         Expire, EndOfOutput, GiveUp, Drained, CloseReplay, server
<1>2. CASE RefuseReplay \/ ShowPlan \/ StartReplay \/ SkipSentCancellation \/ Drained \/ CloseReplay
  <2>1. UNCHANGED <<buf, stdin, stdout, owed>>
    BY <1>2 DEF RefuseReplay, ShowPlan, StartReplay, SkipSentCancellation, Drained, CloseReplay, server
  <2> QED BY <1>1, <2>1, PipesSame
<1>3. CASE SendFails \/ CancellationFails \/ FrameFails \/ Expire \/ EndOfOutput
  <2>1. UNCHANGED <<buf, stdin, stdout, owed>>
    BY <1>3 DEF SendFails, CancellationFails, FrameFails, Fail, Expire, EndOfOutput, GiveUp, server
  <2> QED BY <1>1, <2>1, PipesSame
<1>4. CASE Send
  <2>1. at <= Len(plan.driven) /\ stdin' = Append(stdin, Current) /\ UNCHANGED <<buf, stdout, owed>>
    BY <1>4 DEF Send, send_frame
  <2>2. at \in DOMAIN plan.driven /\ Current = plan.driven[at]
    BY <1>1, <2>1, AtPlace
  <2>3. ToServer(Current)
    BY <2>2 DEF ToServer, Asked
  <2> QED BY <1>1, <2>1, <2>3, Posted DEF PipeInv
<1>5. CASE SendCancellation
  <2>1. PICK cancel : cancel = plan.cancellations[Current.seq]
    OBVIOUS
  <2>2. pc = "cancelling" /\ stdin' = Append(stdin, cancel) /\ UNCHANGED <<buf, stdout, owed>>
    BY <1>5, <2>1 DEF SendCancellation, send_frame
  <2>3. Current.seq \in DOMAIN plan.cancellations
    BY <1>1, <2>2 DEF PlaceInv
  <2>4. ToServer(cancel)
    BY <1>1, <2>1, <2>3 DEF LogInv, Planned, ToServer
  <2> QED BY <1>1, <2>2, <2>4, Posted DEF PipeInv
<1>6. CASE ReadStdout
  <2>1. PICK S : stdout \in Seq(S) /\ \A f \in S : FromServer(f)
    BY <1>1 DEF PipeInv
  <2>2. PICK n \in 1 .. Len(stdout) :
            buf' = SubSeq(stdout, 1, n) /\ stdout' = SubSeq(stdout, n + 1, Len(stdout))
    BY <1>6 DEF ReadStdout
  <2>3. buf' \in Seq(S) /\ stdout' \in Seq(S)
    BY <2>1, <2>2, PrefixSame
  <2>4. UNCHANGED <<stdin, owed>>
    BY <1>6 DEF ReadStdout
  <2> QED BY <1>1, <2>1, <2>3, <2>4, Pipes DEF PipeInv
<1>7. CASE TakeFrame
  <2>1. buf # <<>> /\ buf' = Tail(buf) /\ UNCHANGED <<stdin, stdout, owed>>
    BY <1>7 DEF TakeFrame, server
  <2>2. \E S : buf' \in Seq(S) /\ \A f \in S : FromServer(f)
    BY <1>1, <2>1, HeadFrame
  <2> QED BY <1>1, <2>1, <2>2, Pipes DEF PipeInv
<1>8. CASE AnswerServer
  <2>1. PICK frame : frame = Head(buf)
    OBVIOUS
  <2>2. buf # <<>> /\ buf' = Tail(buf) /\ stdin' = Append(stdin, ReplyTo(frame)) /\ UNCHANGED <<stdout, owed>>
    BY <1>8, <2>1 DEF AnswerServer, send_frame
  <2>3. FromServer(frame) /\ \E S : buf' \in Seq(S) /\ \A f \in S : FromServer(f)
    BY <1>1, <2>1, <2>2, HeadFrame
  <2>4. ToServer(ReplyTo(frame))
    BY <1>1, <2>3, Reply DEF ToServer
  <2> QED BY <1>1, <2>2, <2>3, <2>4, Posted
<1> QED BY <1>2, <1>3, <1>4, <1>5, <1>6, <1>7, <1>8 DEF ClientStep

-----------------------------------------------------------------------------
(* What is recorded *)

\* A frame of the server is recorded as it is; a reply follows the request.
LEMMA HeardFrame ==
    ASSUME SendInv, buf # <<>>, NEW frame, frame = Head(buf), log' = Recorded(log, frame, frame.src)
    PROVE  OnlyHeard(log, log') /\ \E e : Appended(log, log', e) /\ Entry(e, frame, frame.src)
<1>1. FromServer(frame) /\ IsLog(log)
  BY HeadFrame DEF SendInv, LogInv
<1>2. PICK e : Appended(log, log', e) /\ Entry(e, frame, frame.src)
  BY <1>1, RecordedLog DEF FromServer
<1>3. ~IsSend(e)
  BY <1>1, <1>2 DEF FromServer, Entry, IsSend
<1> QED BY <1>1, <1>2, <1>3, HeardOne

LEMMA HeardAnswer ==
    ASSUME SendInv, AnswerServer
    PROVE  OnlyHeard(log, log')
<1>1. PICK frame : frame = Head(buf)
  OBVIOUS
<1>2. buf # <<>> /\ log' = Recorded(Recorded(log, frame, frame.src), ReplyTo(frame), frame.src)
  BY <1>1 DEF AnswerServer, LogReply
<1>3. FromServer(frame) /\ IsLog(log) /\ LogInv
  BY <1>1, <1>2, HeadFrame DEF SendInv, LogInv
<1>4. PICK mid : mid = Recorded(log, frame, frame.src)
  OBVIOUS
<1>5. PICK e : Appended(log, mid, e) /\ Entry(e, frame, frame.src)
  BY <1>3, <1>4, RecordedLog DEF FromServer
<1>6. IsLog(mid) /\ OnlyHeard(log, mid)
  <2>1. ~IsSend(e)
    BY <1>3, <1>5 DEF FromServer, Entry, IsSend
  <2> QED BY <1>3, <1>5, <2>1, HeardOne DEF Appended
<1>7. PICK reply : reply = ReplyTo(frame)
  OBVIOUS
<1>8. IsFrame(reply) /\ reply.kind = "response"
  BY <1>3, <1>7, Reply
<1>9. PICK a : Appended(mid, log', a) /\ Entry(a, reply, frame.src)
  BY <1>2, <1>4, <1>6, <1>7, <1>8, RecordedLog
<1>10. OnlyHeard(mid, log')
  <2>1. ~IsSend(a)
    BY <1>8, <1>9 DEF Entry, IsSend
  <2> QED BY <1>6, <1>9, <2>1, HeardOne
<1> QED BY <1>3, <1>6, <1>10, HeardBoth

\* Every step but the two that send something.
LEMMA Heard ==
    ASSUME SendInv, Next, ~Send, ~SendCancellation
    PROVE  OnlyHeard(log, log') /\ UNCHANGED <<plan, sentCancels>>
<1>1. UNCHANGED <<plan, sentCancels>>
  BY DEF Next, ClientStep, RefuseReplay, ShowPlan, StartReplay, SkipSentCancellation, SendFails, Fail,
         CancellationFails, ReadStdout, TakeFrame, AnswerServer, FrameFails,
         Expire, EndOfOutput, GiveUp, Drained, CloseReplay,
         ServerStep, ServerReads, ServerAnswers, ServerSpeaks, ServerExits, Write, client
<1>2. ASSUME log' = log PROVE OnlyHeard(log, log')
  <2>1. Len(log) \in Nat
    BY LogLength DEF SendInv, LogInv
  <2> QED BY <1>2, <2>1 DEF OnlyHeard, SendInv, LogInv
<1>3. CASE TakeFrame
  <2>1. PICK frame : frame = Head(buf)
    OBVIOUS
  <2>2. buf # <<>> /\ log' = Recorded(log, frame, frame.src)
    BY <1>3, <2>1 DEF TakeFrame
  <2> QED BY <1>1, <2>1, <2>2, HeardFrame
<1>4. CASE FrameFails
  <2>1. PICK frame : frame = Head(buf)
    OBVIOUS
  <2>2. buf # <<>> /\ (log' = Recorded(log, frame, frame.src) \/ log' = log)
    BY <1>4, <2>1 DEF FrameFails
  <2> QED BY <1>1, <1>2, <2>1, <2>2, HeardFrame
<1>5. CASE AnswerServer
  BY <1>1, <1>5, HeardAnswer
<1>6. CASE ServerStep
  BY <1>1, <1>2, <1>6
        DEF ServerStep, ServerReads, ServerAnswers, ServerSpeaks, ServerExits, Write, client
<1>7. CASE RefuseReplay \/ ShowPlan \/ StartReplay \/ SkipSentCancellation \/ Drained \/ CloseReplay
  BY <1>1, <1>2, <1>7 DEF RefuseReplay, ShowPlan, StartReplay, SkipSentCancellation, Drained, CloseReplay
<1>8. CASE SendFails \/ CancellationFails \/ ReadStdout \/ Expire \/ EndOfOutput
  BY <1>1, <1>2, <1>8 DEF SendFails, CancellationFails, ReadStdout, Expire, EndOfOutput, GiveUp
<1> QED BY <1>3, <1>4, <1>5, <1>6, <1>7, <1>8 DEF Next, ClientStep

-----------------------------------------------------------------------------
(* The planned messages are sent in their order *)

\* A message that drive has marked as sent is one it has sent.
LEMMA Marked ==
    ASSUME SendInv, pc = "sending", at <= Len(plan.driven), Current.seq \in sentCancels
    PROVE  Count = at
<1>1. LogInv /\ PlaceInv /\ SentInv /\ Count \in Nat
  BY SendsFinite DEF SendInv
<1>2. at \in DOMAIN plan.driven /\ Current = plan.driven[at] /\ at \in Nat
  BY <1>1, AtPlace DEF PlaceInv
<1>3. PICK d \in 1 .. Count : plan.driven[d].seq = Current.seq
  BY <1>1 DEF SentInv
<1>4. Len(plan.driven) \in Nat /\ DOMAIN plan.driven = 1 .. Len(plan.driven)
  BY <1>1, LogLength DEF LogInv, Planned
<1>5. d \in DOMAIN plan.driven
  BY <1>1, <1>3, <1>4 DEF SentInv
<1>6. d = at
  BY <1>1, <1>2, <1>3, <1>5 DEF LogInv, Planned
<1> QED BY <1>1, <1>2, <1>3, <1>6 DEF PlaceInv

LEMMA SendNext ==
    ASSUME SendInv, Send
    PROVE  /\ SendInv'
           /\ \E e : Appended(log, log', e) /\ Entry(e, Current, Current.seq) /\ IsSend(e)
<1>1. LogInv /\ PipeInv /\ PlaceInv /\ SentInv /\ Count \in Nat
  BY SendsFinite DEF SendInv
<1>2. /\ pc = "sending" /\ at <= Len(plan.driven) /\ Current.seq \notin sentCancels
      /\ log' = Recorded(log, Current, Current.seq)
      /\ UNCHANGED <<opts, plan, sentCancels, outcome>>
      /\ pc' = AfterSend(Current) /\ at' = IF pc' = "sending" THEN at + 1 ELSE at
  BY DEF Send
<1>3. PICK m : m = Current
  OBVIOUS
<1>4. /\ at \in DOMAIN plan.driven /\ at \in Nat \ {0} /\ m = plan.driven[at] /\ IsFrame(m)
      /\ m.dir = "c2s" /\ m.kind \in {"request", "notification"}
  BY <1>1, <1>2, <1>3, AtPlace DEF PlaceInv
<1>5. PICK e : Appended(log, log', e) /\ Entry(e, m, m.seq)
  BY <1>1, <1>2, <1>3, <1>4, RecordedLog DEF LogInv
<1>6. IsSend(e) /\ e.src = plan.driven[at].seq
  BY <1>4, <1>5 DEF Entry, IsSend
<1>7. Count = at - 1
  BY <1>1, <1>2 DEF PlaceInv
<1>8. at = Count + 1
  BY <1>4, <1>7
<1>9. Count' = at /\ SentInv' /\ LogInv'
  BY <1>1, <1>2, <1>5, <1>6, <1>8, OneSent
<1>10. PlaceInv'
  <2>1. plan.adjacent /\ outcome = "none"
    BY <1>1, <1>2 DEF PlaceInv, Over
  <2>2. pc' = "sending" \/ (pc' \in {"interval", "cancelling"} /\ Current.seq \in DOMAIN plan.cancellations)
        \/ (pc' = "waiting" /\ Current.kind = "request")
    BY <1>2, <1>3, <1>4 DEF AfterSend
  <2>3. pc' # "start" /\ pc' \notin Over
    BY <2>2 DEF Over
  <2>4. Current' = plan.driven[at']
    BY <1>2 DEF Current
  <2>5. CASE pc' = "sending"
    BY <1>2, <1>4, <1>9, <2>1, <2>3, <2>5 DEF PlaceInv
  <2>6. CASE pc' # "sending"
    <3>1. at' = at /\ Current' = Current
      BY <1>2, <1>3, <1>4, <2>4, <2>6
    <3> QED BY <1>2, <1>4, <1>9, <2>1, <2>2, <2>3, <2>6, <3>1 DEF PlaceInv
  <2> QED BY <2>5, <2>6
<1>11. PipeInv'
  BY ClientPipes DEF ClientStep
<1> QED BY <1>3, <1>5, <1>6, <1>9, <1>10, <1>11 DEF SendInv

LEMMA CancellationNext ==
    ASSUME SendInv, SendCancellation
    PROVE  /\ SendInv'
           /\ \E e : Appended(log, log', e) /\ e.kind = "notification" /\ IsSend(e)
<1>1. LogInv /\ PipeInv /\ PlaceInv /\ SentInv /\ Count \in Nat
  BY SendsFinite DEF SendInv
<1>2. PICK cancel : cancel = plan.cancellations[Current.seq]
  OBVIOUS
<1>3. /\ pc = "cancelling" /\ log' = Recorded(log, cancel, cancel.seq)
      /\ sentCancels' = sentCancels \cup {cancel.seq} /\ pc' = "sending" /\ at' = at + 1
      /\ UNCHANGED <<opts, plan, outcome>>
  BY <1>2 DEF SendCancellation, SentWith
<1>4. /\ Count = at /\ at <= Len(plan.driven) /\ Current.seq \in DOMAIN plan.cancellations
      /\ plan.adjacent /\ outcome = "none" /\ at \in Nat
  BY <1>1, <1>3 DEF PlaceInv, Over
<1>5. at \in DOMAIN plan.driven /\ Current = plan.driven[at]
  BY <1>1, <1>4, AtPlace
<1>6. at < Len(plan.driven) /\ plan.driven[at + 1].seq = cancel.seq
  BY <1>1, <1>2, <1>4, <1>5 DEF LogInv, Planned
<1>7. IsFrame(cancel) /\ cancel.dir = "c2s" /\ cancel.kind = "notification"
  BY <1>1, <1>2, <1>4 DEF LogInv, Planned
<1>8. PICK e : Appended(log, log', e) /\ Entry(e, cancel, cancel.seq)
  BY <1>1, <1>3, <1>7, RecordedLog DEF LogInv
<1>9. IsSend(e) /\ e.kind = "notification" /\ e.src = plan.driven[at + 1].seq
  BY <1>6, <1>7, <1>8 DEF Entry, IsSend
<1>10. Len(plan.driven) \in Nat
  BY <1>1, LogLength DEF LogInv, Planned
<1>11. PICK n : n = at + 1
  OBVIOUS
<1>12. n = Count + 1 /\ n <= Len(plan.driven)
  BY <1>4, <1>6, <1>10, <1>11
<1>13. sentCancels' \subseteq sentCancels \cup {plan.driven[n].seq}
  BY <1>3, <1>6, <1>11
<1>14. Count' = n /\ SentInv' /\ LogInv'
  BY <1>1, <1>3, <1>8, <1>9, <1>11, <1>12, <1>13, OneSent
<1>15. PlaceInv'
  <2>1. Current' = plan.driven[n]
    BY <1>3, <1>11 DEF Current
  <2>2. Current'.seq \in sentCancels'
    BY <1>3, <1>6, <1>11, <2>1
  <2> QED BY <1>3, <1>4, <1>11, <1>12, <1>14, <2>2 DEF PlaceInv, Over
<1>16. PipeInv'
  BY ClientPipes DEF ClientStep
<1> QED BY <1>8, <1>9, <1>14, <1>15, <1>16 DEF SendInv

LEMMA SendStep == SendInv /\ [Next]_vars => SendInv'
<1> SUFFICES ASSUME SendInv, [Next]_vars PROVE SendInv'
  OBVIOUS
<1>1. LogInv /\ PipeInv /\ PlaceInv /\ SentInv /\ Count \in Nat
  BY SendsFinite DEF SendInv
<1>2. CASE Send
  BY <1>2, SendNext
<1>3. CASE SendCancellation
  BY <1>3, CancellationNext
<1>4. CASE UNCHANGED vars
  <2>1. UNCHANGED <<source, opts, pc, plan, at, sentCancels, buf, log, unanswered, outcome, stdin, stdout, owed>>
    BY <1>4 DEF vars, client, server
  <2>2. Count' = Count /\ SentInv' /\ LogInv'
    BY <1>1, <2>1, Quiet
  <2>3. PipeInv'
    BY <1>1, <2>1, PipesSame
  <2>4. PlaceInv'
    BY <1>1, <2>1, <2>2 DEF PlaceInv, Current
  <2> QED BY <2>2, <2>3, <2>4 DEF SendInv
<1>5. CASE Next /\ ~Send /\ ~SendCancellation
  <2>1. UNCHANGED <<plan, sentCancels>> /\ Count' = Count /\ SentInv' /\ LogInv'
    BY <1>1, <1>5, Heard, NothingSent
  <2>2. PipeInv'
    BY <1>5, ClientPipes, ServerPipes DEF Next
  <2>3. opts' = opts /\ Current = plan.driven[at] /\ Current' = plan.driven[at']
    BY <1>5, <2>1 DEF Current, Next, ClientStep, RefuseReplay, ShowPlan, StartReplay, SkipSentCancellation,
         SendFails, Fail, CancellationFails, ReadStdout, TakeFrame, AnswerServer, FrameFails,
         Expire, EndOfOutput, GiveUp, Drained, CloseReplay,
         ServerStep, ServerReads, ServerAnswers, ServerSpeaks, ServerExits, Write, client
  <2>4. CASE ServerStep \/ ReadStdout \/ AnswerServer
    <3>1. UNCHANGED <<pc, at, outcome>>
      BY <2>4 DEF ServerStep, ServerReads, ServerAnswers, ServerSpeaks, ServerExits, Write, client,
                  ReadStdout, AnswerServer
    <3> QED BY <1>1, <2>1, <2>2, <2>3, <3>1 DEF SendInv, PlaceInv
  <2>5. CASE RefuseReplay \/ ShowPlan
    BY <1>1, <2>1, <2>2, <2>3, <2>5 DEF SendInv, PlaceInv, Over, RefuseReplay, ShowPlan
  <2>6. CASE StartReplay
    BY <1>1, <2>1, <2>2, <2>3, <2>6 DEF SendInv, PlaceInv, Over, StartReplay
  <2>7. CASE SkipSentCancellation
    <3>1. Count = at /\ at \in Nat \ {0}
      BY <1>1, <2>7, Marked DEF SkipSentCancellation, PlaceInv
    <3> QED BY <1>1, <2>1, <2>2, <2>3, <2>7, <3>1 DEF SendInv, PlaceInv, Over, SkipSentCancellation
  <2>8. CASE SendFails \/ CancellationFails \/ FrameFails
    <3>1. pc' = "closing" /\ outcome' = "error" /\ at' = at
      BY <2>8 DEF SendFails, CancellationFails, FrameFails, Fail
    <3> QED BY <1>1, <2>1, <2>2, <2>3, <3>1 DEF SendInv, PlaceInv, Over
  <2>9. CASE TakeFrame \/ Expire \/ EndOfOutput
    <3>1. /\ pc \in {"waiting", "interval"} /\ outcome' = outcome
          /\ (pc' = pc /\ at' = at) \/ (pc' = AfterWait /\ at' = NextAfterWait)
      BY <2>9 DEF TakeFrame, Expire, EndOfOutput, GiveUp, Waiting
    <3>2. \/ pc' = pc /\ at' = at
          \/ pc = "waiting" /\ pc' = "sending" /\ at' = at + 1
          \/ pc = "interval" /\ pc' = "cancelling" /\ at' = at
      BY <3>1 DEF AfterWait, NextAfterWait
    <3>3. outcome = "none" /\ at \in Nat \ {0} /\ Count = at
      BY <1>1, <3>1 DEF PlaceInv, Over
    <3> QED BY <1>1, <2>1, <2>2, <2>3, <3>1, <3>2, <3>3 DEF SendInv, PlaceInv, Over
  <2>10. CASE Drained
    <3>1. /\ pc = "sending" /\ at > Len(plan.driven) /\ pc' = "closing" /\ at' = at
      BY <2>10 DEF Drained
    <3>2. Len(plan.driven) \in Nat
      BY <1>1, LogLength DEF LogInv, Planned
    <3>3. Count = Len(plan.driven)
      BY <1>1, <3>1, <3>2 DEF PlaceInv, SentInv
    <3> QED BY <1>1, <2>1, <2>2, <2>3, <3>1, <3>3 DEF SendInv, PlaceInv, Over
  <2>11. CASE CloseReplay
    BY <1>1, <2>1, <2>2, <2>3, <2>11 DEF SendInv, PlaceInv, Over, CloseReplay
  <2> QED BY <1>5, <2>4, <2>5, <2>6, <2>7, <2>8, <2>9, <2>10, <2>11 DEF Next, ClientStep
<1> QED BY <1>2, <1>3, <1>4, <1>5 DEF vars

\* The inductive invariant of the drive loop.
THEOREM SendInvariant == Spec => []SendInv
<1> QED BY Started, SendStep, PTL DEF Spec

\* drive (replay.rs) sends the planned messages in their order and none twice,
\* whatever the server answers and however often: SentOnceInOrder.
THEOREM PlanIsFollowed == Spec => []SentOnceInOrder
<1>1. SendInv => SentOnceInOrder
  <2> SUFFICES ASSUME SendInv PROVE SentOnceInOrder
    OBVIOUS
  <2>1. ASSUME NEW i \in Sends
        PROVE  LET n == Cardinality({j \in Sends : j <= i})
               IN  n <= Len(plan.driven) /\ log[i].src = plan.driven[n].seq
    <3>1. PICK n \in 1 .. Len(plan.driven) :
              n = Cardinality({j \in Sends : j <= i}) /\ log[i].src = plan.driven[n].seq
      BY <2>1 DEF SendInv, SentInv
    <3>2. n <= Len(plan.driven)
      BY <3>1
    <3> QED BY <3>1, <3>2
  <2>2. outcome = "ok" /\ ~opts.plan => Cardinality(Sends) = Len(plan.driven)
    BY DEF SendInv, PlaceInv, Count
  <2> QED BY <2>1, <2>2 DEF SentOnceInOrder
<1> QED BY <1>1, SendInvariant, PTL

-----------------------------------------------------------------------------
(* The next message waits for the answer to the one before *)

\* t is s and something after it.
Grown(s, t) == IsLog(t) /\ Len(s) <= Len(t) /\ \A i \in DOMAIN s : t[i] = s[i]

LEMMA Stays ==
    ASSUME LogInv, Grown(log, log'), NEW i \in DOMAIN log, NEW n \in 1 .. Len(log), NEW last \in Nat,
           n <= last, Answered(i, n)
    PROVE  Answered(i, last)'
<1>1. Len(log) \in Nat /\ DOMAIN log = 1 .. Len(log)
  BY LogLength DEF LogInv
<1>2. PICK k \in i .. n : log[k].kind = "response" /\ log[k].src = log[i].src
  BY DEF Answered
<1>3. k \in DOMAIN log /\ k \in i .. last
  BY <1>1
<1>4. log'[k] = log[k] /\ log'[i] = log[i]
  BY <1>3 DEF Grown
<1> QED BY <1>2, <1>3, <1>4 DEF Answered

LEMMA StillOwed ==
    ASSUME Grown(log, log'), plan' = plan, unanswered \subseteq unanswered', NEW i \in DOMAIN log, Owing(i)'
    PROVE  Owing(i)
BY DEF Owing, Grown

\* Nothing is sent, and no wait ends without an answer or a given-up request.
LEMMA WaitKept ==
    ASSUME LogInv, WaitInv, OnlyHeard(log, log'), plan' = plan, unanswered \subseteq unanswered',
           pc' \notin Over => pc \notin Over,
           pc' \notin Over => \A i \in DOMAIN log :
               Owing(i)' /\ pc = "waiting" /\ log[i].src = Current.seq
                   => Answered(i, Len(log))' \/ (pc' = "waiting" /\ Current' = Current)
    PROVE  WaitInv'
<1>1. /\ Len(log) \in Nat /\ DOMAIN log = 1 .. Len(log)
      /\ Len(log') \in Nat /\ DOMAIN log' = 1 .. Len(log') /\ Len(log) <= Len(log') /\ Grown(log, log')
  BY LogLength DEF LogInv, OnlyHeard, Grown
<1>2. ASSUME NEW j \in DOMAIN log', IsSend(log'[j])
      PROVE  j \in DOMAIN log
  <2>1. j \notin (Len(log) + 1) .. Len(log')
    BY <1>2 DEF OnlyHeard
  <2> QED BY <1>1, <2>1
<1>3. ASSUME NEW i \in DOMAIN log', NEW j \in (i + 1) .. Len(log'),
             Owing(i)', log'[j].dir = "c2s", log'[j].kind # "response"
      PROVE  Answered(i, j)'
  <2>1. j \in DOMAIN log
    BY <1>1, <1>2, <1>3 DEF IsSend
  <2>2. i \in DOMAIN log /\ j \in (i + 1) .. Len(log)
    BY <1>1, <2>1
  <2>3. Owing(i) /\ log[j] = log'[j]
    BY <1>1, <1>3, <2>1, <2>2, StillOwed DEF Grown
  <2>4. Answered(i, j)
    BY <1>3, <2>2, <2>3 DEF WaitInv
  <2> QED BY <1>1, <2>1, <2>2, <2>4, Stays
<1>4. ASSUME pc' \notin Over, NEW i \in DOMAIN log', Owing(i)'
      PROVE  Answered(i, Len(log))' \/ (pc' = "waiting" /\ log'[i].src = Current'.seq)
  <2>1. IsSend(log'[i])
    <3>1. "request" # "response"
      OBVIOUS
    <3> QED BY <1>4, <3>1 DEF Owing, IsSend
  <2>2. i \in DOMAIN log /\ Owing(i) /\ log'[i] = log[i]
    BY <1>1, <1>2, <1>4, <2>1, StillOwed DEF Grown
  <2>3. CASE Answered(i, Len(log))
    <3>1. PICK n : n = Len(log)
      OBVIOUS
    <3>2. PICK last : last = Len(log')
      OBVIOUS
    <3>3. n \in 1 .. Len(log) /\ n <= last /\ last \in Nat
      BY <1>1, <2>2, <3>1, <3>2
    <3>4. Answered(i, last)'
      BY <2>2, <2>3, <3>1, <3>3, <1>1, Stays
    <3>5. Answered(i, Len(log))'
      BY <3>2, <3>4 DEF Answered
    <3> QED BY <3>5
  <2>4. CASE pc = "waiting" /\ log[i].src = Current.seq
    BY <1>4, <2>2, <2>4
  <2> QED BY <1>4, <2>2, <2>3, <2>4 DEF WaitInv
<1> QED BY <1>3, <1>4 DEF WaitInv

\* A message is sent when nothing is owed; what is owed then is its answer.
LEMMA WaitNext ==
    ASSUME LogInv, WaitInv, NEW e, Appended(log, log', e), IsSend(e), plan' = plan, unanswered' = unanswered,
           pc \notin Over, pc # "waiting",
           e.kind # "request" \/ e.src \in DOMAIN plan.cancellations
               \/ (pc' = "waiting" /\ e.src = Current'.seq)
    PROVE  WaitInv'
<1>1. /\ Len(log) \in Nat /\ DOMAIN log = 1 .. Len(log) /\ DOMAIN log' = 1 .. Len(log')
      /\ Len(log') = Len(log) + 1 /\ Grown(log, log')
  BY LogLength DEF LogInv, Appended, Grown
<1>2. PICK last : last = Len(log) + 1
  OBVIOUS
<1>3. log'[last] = e /\ Len(log') = last /\ last \in Nat
  BY <1>1, <1>2 DEF Appended
<1>4. ASSUME NEW i \in DOMAIN log, Owing(i)'
      PROVE  Answered(i, last)'
  <2>1. PICK n : n = Len(log)
    OBVIOUS
  <2>2. n \in 1 .. Len(log) /\ n <= last
    BY <1>1, <1>2, <2>1
  <2>3. Owing(i)
    BY <1>1, <1>4, StillOwed
  <2>4. Answered(i, n)
    BY <2>1, <2>3 DEF WaitInv
  <2> QED BY <1>1, <1>3, <2>2, <2>4, Stays
<1>5. ASSUME NEW i \in DOMAIN log', NEW j \in (i + 1) .. Len(log'),
             Owing(i)', log'[j].dir = "c2s", log'[j].kind # "response"
      PROVE  Answered(i, j)'
  <2>1. i \in DOMAIN log
    BY <1>1, <1>3
  <2>2. CASE j = last
    BY <1>4, <1>5, <2>1, <2>2
  <2>3. CASE j # last
    <3>1. j \in (i + 1) .. Len(log) /\ j \in DOMAIN log
      BY <1>1, <1>2, <1>3, <2>1, <2>3
    <3>2. Owing(i) /\ log[j] = log'[j]
      BY <1>1, <1>5, <2>1, <3>1, StillOwed DEF Grown
    <3>3. Answered(i, j)
      BY <1>5, <2>1, <3>1, <3>2 DEF WaitInv
    <3> QED BY <1>1, <2>1, <3>1, <3>3, Stays
  <2> QED BY <2>2, <2>3
<1>6. ASSUME pc' \notin Over, NEW i \in DOMAIN log', Owing(i)'
      PROVE  Answered(i, Len(log))' \/ (pc' = "waiting" /\ log'[i].src = Current'.seq)
  <2>1. CASE i = last
    BY <1>3, <1>6, <2>1 DEF Owing
  <2>2. CASE i # last
    <3>1. i \in DOMAIN log
      BY <1>1, <1>2, <1>3, <2>2
    <3>2. Answered(i, last)'
      BY <1>4, <1>6, <3>1
    <3> QED BY <1>3, <3>2 DEF Answered
  <2> QED BY <2>1, <2>2
<1> QED BY <1>5, <1>6 DEF WaitInv

LEMMA WaitStarts == ASSUME IdsDiffer PROVE Init => WaitInv
<1> SUFFICES ASSUME Init PROVE WaitInv
  OBVIOUS
<1>1. OwnIds(plan)
  BY DEF Init, IdsDiffer
<1>2. DOMAIN log = {}
  BY DEF Init
<1> QED BY <1>1, <1>2 DEF WaitInv

LEMMA WaitStep == SendInv /\ WaitInv /\ [Next]_vars => WaitInv'
<1> SUFFICES ASSUME SendInv, WaitInv, [Next]_vars PROVE WaitInv'
  OBVIOUS
<1>1. LogInv /\ PipeInv /\ PlaceInv /\ SentInv
  BY DEF SendInv
<1>2. CASE Send
  <2>1. PICK e : Appended(log, log', e) /\ Entry(e, Current, Current.seq) /\ IsSend(e)
    BY <1>2, SendNext
  <2>2. /\ pc = "sending" /\ plan' = plan /\ unanswered' = unanswered /\ at <= Len(plan.driven)
        /\ pc' = AfterSend(Current) /\ at' = IF pc' = "sending" THEN at + 1 ELSE at
    BY <1>2 DEF Send
  <2>3. e.kind # "request" \/ e.src \in DOMAIN plan.cancellations \/ (pc' = "waiting" /\ e.src = Current'.seq)
    <3>1. at \in DOMAIN plan.driven /\ Current = plan.driven[at]
      BY <1>1, <2>2, AtPlace
    <3>2. CASE Current.kind = "request" /\ Current.seq \notin DOMAIN plan.cancellations
      <4>1. Current.id # NoId
        BY <3>1, <3>2 DEF WaitInv, OwnIds
      <4>2. pc' = "waiting"
        BY <2>2, <3>2, <4>1 DEF AfterSend
      <4>3. at' = at
        BY <2>2, <4>2
      <4>4. Current' = Current
        BY <2>2, <4>3 DEF Current
      <4> QED BY <2>1, <4>2, <4>4 DEF Entry
    <3> QED BY <2>1, <3>2 DEF Entry
  <2> QED BY <1>1, <2>1, <2>2, <2>3, WaitNext DEF Over
<1>3. CASE SendCancellation
  <2>1. PICK e : Appended(log, log', e) /\ e.kind = "notification" /\ IsSend(e)
    BY <1>3, CancellationNext
  <2>2. pc = "cancelling" /\ plan' = plan /\ unanswered' = unanswered
    BY <1>3 DEF SendCancellation
  <2> QED BY <1>1, <2>1, <2>2, WaitNext DEF Over
<1>4. CASE UNCHANGED vars
  BY <1>4 DEF vars, client, server, WaitInv, Owing, Answered, Current
<1>5. CASE Next /\ ~Send /\ ~SendCancellation
  <2>1. OnlyHeard(log, log') /\ plan' = plan
    BY <1>5, Heard
  <2>2. CASE ServerStep \/ ReadStdout \/ AnswerServer
    <3>1. UNCHANGED <<pc, at, unanswered>>
      BY <2>2 DEF ServerStep, ServerReads, ServerAnswers, ServerSpeaks, ServerExits, Write, client,
                  ReadStdout, AnswerServer
    <3>2. Current' = Current
      BY <2>1, <3>1 DEF Current
    <3> QED BY <1>1, <2>1, <3>1, <3>2, WaitKept
  <2>3. CASE RefuseReplay \/ ShowPlan \/ StartReplay \/ SkipSentCancellation \/ Drained \/ CloseReplay
    <3>1. unanswered' = unanswered /\ pc # "waiting" /\ (pc' \notin Over => pc \notin Over)
      BY <2>3 DEF RefuseReplay, ShowPlan, StartReplay, SkipSentCancellation, Drained, CloseReplay, Over
    <3> QED BY <1>1, <2>1, <3>1, WaitKept
  <2>4. CASE SendFails \/ CancellationFails \/ FrameFails
    <3>1. unanswered' = unanswered /\ pc' \in Over
      BY <2>4 DEF SendFails, CancellationFails, FrameFails, Fail, Over
    <3> QED BY <1>1, <2>1, <3>1, WaitKept
  <2>5. CASE TakeFrame
    <3>1. PICK frame : frame = Head(buf)
      OBVIOUS
    <3>2. /\ pc \in {"waiting", "interval"} /\ unanswered' = unanswered /\ buf # <<>>
          /\ log' = Recorded(log, frame, frame.src)
          /\ pc' = IF Matches(frame) THEN AfterWait ELSE pc
          /\ at' = IF Matches(frame) THEN NextAfterWait ELSE at
      BY <2>5, <3>1 DEF TakeFrame, Waiting
    <3>3. FromServer(frame)
      BY <1>1, <3>1, <3>2, HeadFrame
    <3>4. PICK e : Appended(log, log', e) /\ Entry(e, frame, frame.src)
      BY <3>1, <3>2, HeardFrame
    <3>5. ASSUME NEW i \in DOMAIN log, pc = "waiting", log[i].src = Current.seq
          PROVE  Answered(i, Len(log))' \/ (pc' = "waiting" /\ Current' = Current)
      <4>1. CASE ~Matches(frame)
        BY <2>1, <3>2, <3>5, <4>1 DEF Current
      <4>2. CASE Matches(frame)
        <5>1. at \in DOMAIN plan.driven /\ Current = plan.driven[at] /\ Current.kind = "request"
          BY <1>1, <3>5, AtPlace DEF PlaceInv
        <5>2. PICK d \in DOMAIN plan.driven :
                  plan.driven[d].kind = "request" /\ plan.driven[d].id = Current.id /\ plan.driven[d].seq = frame.src
          BY <3>3, <4>2 DEF Matches, FromServer, Asked
        <5>3. d = at
          BY <5>1, <5>2 DEF WaitInv, OwnIds
        <5>4. e.kind = "response" /\ e.src = Current.seq
          BY <3>4, <4>2, <5>1, <5>2, <5>3 DEF Entry, Matches
        <5>5. PICK last : last = Len(log) + 1
          OBVIOUS
        <5>6. Len(log') = last /\ log'[last] = e /\ log'[i] = log[i] /\ last \in i .. last
          <6>1. Len(log) \in Nat /\ DOMAIN log = 1 .. Len(log)
            BY <1>1, LogLength DEF LogInv
          <6> QED BY <3>4, <5>5, <6>1 DEF Appended
        <5> QED BY <3>5, <5>4, <5>6 DEF Answered
      <4> QED BY <4>1, <4>2
    <3>6. pc \notin Over
      BY <3>2 DEF Over
    <3> QED BY <1>1, <2>1, <3>2, <3>5, <3>6, WaitKept
  <2>6. CASE Expire \/ EndOfOutput
    <3>1. /\ pc \in {"waiting", "interval"} /\ log' = log
          /\ unanswered \subseteq unanswered'
          /\ pc = "waiting" => \E u \in unanswered' : u.seq = Current.seq
      <4>1. PICK why : GiveUp(why)
        BY <2>6 DEF Expire, EndOfOutput
      <4>2. /\ pc \in {"waiting", "interval"} /\ log' = log
            /\ pc = "waiting" => unanswered' = unanswered \cup {[seq |-> Current.seq, why |-> why]}
            /\ pc # "waiting" => unanswered' = unanswered
        BY <4>1 DEF GiveUp, Waiting
      <4>3. PICK u : u = [seq |-> Current.seq, why |-> why]
        OBVIOUS
      <4>4. u.seq = Current.seq
        BY <4>3
      <4> QED BY <4>2, <4>3, <4>4
    <3>2. \A i \in DOMAIN log : pc = "waiting" /\ log[i].src = Current.seq => ~Owing(i)'
      BY <3>1 DEF Owing
    <3>3. pc \notin Over
      BY <3>1 DEF Over
    <3> QED BY <1>1, <2>1, <3>1, <3>2, <3>3, WaitKept
  <2> QED BY <1>5, <2>2, <2>3, <2>4, <2>5, <2>6 DEF Next, ClientStep
<1> QED BY <1>2, <1>3, <1>4, <1>5

\* wait_for_response (replay.rs): for sessions whose requests have ids of their
\* own, the next message is sent only once the one before was answered, given
\* up or cancelled; late, repeated and foreign answers do not end a wait.
THEOREM AnswersPaceTheReplay == ASSUME IdsDiffer PROVE Spec => []PacedByAnswers
<1>1. WaitInv => PacedByAnswers
  BY DEF WaitInv, PacedByAnswers, Owing, Answered
<1>2. Init => SendInv /\ WaitInv
  BY Started, WaitStarts
<1>3. SendInv /\ WaitInv /\ [Next]_vars => (SendInv /\ WaitInv)'
  BY SendStep, WaitStep
<1> QED BY <1>1, <1>2, <1>3, PTL DEF Spec
=============================================================================
