------------------------------- MODULE StoreProofs -------------------------------
(***************************************************************************)
(* Proofs about Store composed with MemoryIndex, for any number of          *)
(* recorders and command processes, any schema versions, sessions, baseline *)
(* names and command lines, and any number of crashes.                      *)
(***************************************************************************)
EXTENDS MemoryIndex, SequenceTheorems, WellFoundedInduction, TLAPS

-----------------------------------------------------------------------------
(* Sequences of rows *)

Rows(s) == s \in Seq({s[i] : i \in DOMAIN s})

\* What appending a row does to a table.
LEMMA AppendRow ==
    ASSUME NEW s, Rows(s), NEW e
    PROVE  /\ Rows(Append(s, e))
           /\ Len(s) \in Nat /\ DOMAIN s = 1..Len(s)
           /\ Len(Append(s, e)) = Len(s) + 1
           /\ DOMAIN Append(s, e) = 1..(Len(s) + 1)
           /\ \A i \in DOMAIN s : Append(s, e)[i] = s[i]
           /\ Append(s, e)[Len(s) + 1] = e
<1> DEFINE S == {s[i] : i \in DOMAIN s} \cup {e}
<1> DEFINE t == Append(s, e)
<1>1. s \in Seq(S) /\ e \in S
  <2>1. s \in Seq({s[i] : i \in DOMAIN s})
    BY DEF Rows
  <2>2. {s[i] : i \in DOMAIN s} \subseteq S
    OBVIOUS
  <2> QED BY <2>1, <2>2
<1>2. Len(s) \in Nat /\ DOMAIN s = 1..Len(s)
  BY <1>1
<1>3. /\ t \in Seq(S) /\ Len(t) = Len(s) + 1
      /\ \A i \in 1..Len(s) : t[i] = s[i]
      /\ t[Len(s) + 1] = e
  BY <1>1, AppendProperties
<1>4. DOMAIN t = 1..(Len(s) + 1)
  BY <1>3
<1>5. t \in Seq({t[i] : i \in DOMAIN t})
  <2>1. \A i \in 1..Len(t) : t[i] \in {t[j] : j \in DOMAIN t}
    BY <1>3
  <2> QED BY <1>3, <2>1
<1> QED BY <1>2, <1>3, <1>4, <1>5 DEF Rows

\* A function on the same row numbers is a table of that length.
LEMMA SameRows ==
    ASSUME NEW s, Rows(s), NEW t, t = [i \in DOMAIN s |-> t[i]]
    PROVE  /\ Rows(t) /\ Len(t) = Len(s) /\ DOMAIN t = DOMAIN s
           /\ Len(s) \in Nat /\ DOMAIN s = 1..Len(s)
<1>1. Len(s) \in Nat /\ DOMAIN s = 1..Len(s)
  BY DEF Rows
<1>2. t = [i \in 1..Len(s) |-> t[i]]
  BY <1>1
<1>3. t \in Seq({t[i] : i \in DOMAIN t})
  <2>1. \A i \in 1..Len(s) : t[i] \in {t[j] : j \in DOMAIN t}
    BY <1>2
  <2> QED BY <1>1, <1>2, <2>1
<1>4. Len(t) = Len(s)
  BY <1>1, <1>2
<1> QED BY <1>1, <1>2, <1>3, <1>4 DEF Rows

-----------------------------------------------------------------------------
(* Opening: migrations *)

Connections == {"closed", "ready", "migrating", "open", "failed"}

\* Whoever migrates holds SQLite's write reservation, has read the version
\* that is stored, and has applied exactly the migrations after it.
OpeningInv ==
    /\ schema \in [version : Nat, applied : [1..LatestVersion -> Nat]]
    /\ writeLock \in Procs \cup {NoProc}
    /\ conn \in [Procs -> Connections]
    /\ tx \in [Procs -> [version : Nat, applied : SUBSET Nat]]
    /\ \A p \in Procs :
          /\ writeLock = p <=> conn[p] = "migrating"
          /\ conn[p] = "migrating" =>
                /\ schema.version <= tx[p].version /\ tx[p].version <= LatestVersion
                /\ tx[p].applied = (schema.version + 1)..tx[p].version
    /\ MigratedOnce

openVars == <<schema, writeLock, conn, tx>>

LEMMA OpeningInit == Init => OpeningInv
<1> SUFFICES ASSUME Init PROVE OpeningInv
  OBVIOUS
<1>1. PICK v \in FirstVersions :
         schema = [version |-> v, applied |-> [k \in 1..LatestVersion |-> IF k <= v THEN 1 ELSE 0]]
  BY DEF Init
<1>2. v \in Nat
  BY VersionAssumption
<1>3. NoProc \notin Procs
  BY ProcAssumption DEF Procs
<1> QED BY <1>1, <1>2, <1>3, VersionAssumption
        DEF Init, OpeningInv, MigratedOnce, Connections, NoTransaction

LEMMA OpeningStep ==
    ASSUME OpeningInv, NEW p \in Procs, OpenStep(p) \/ Crash(p)
    PROVE  OpeningInv'
<1> USE VersionAssumption DEF OpeningInv, Connections
<1>0. NoProc \notin Procs
  BY ProcAssumption DEF Procs
<1>1. CASE Bootstrap(p) \/ GiveUpOpening(p)
  BY <1>0, <1>1 DEF Bootstrap, GiveUpOpening, MigratedOnce
<1>2. CASE BeginMigration(p)
  <2>1. CASE schema.version > LatestVersion
    BY <1>0, <1>2, <2>1 DEF BeginMigration, MigratedOnce
  <2>2. CASE schema.version <= LatestVersion
    <3>1. /\ conn' = [conn EXCEPT ![p] = "migrating"] /\ writeLock' = p /\ writeLock = NoProc
          /\ tx' = [tx EXCEPT ![p] = [version |-> schema.version, applied |-> {}]]
          /\ schema' = schema
      BY <1>2, <2>2 DEF BeginMigration
    <3>2. (schema.version + 1)..schema.version = {}
      OBVIOUS
    <3>3. \A q \in Procs : conn[q] # "migrating"
      BY <1>0, <3>1
    <3>4. schema.version <= LatestVersion
      BY <2>2
    <3>5. /\ tx' \in [Procs -> [version : Nat, applied : SUBSET Nat]]
          /\ conn' \in [Procs -> Connections]
          /\ \A q \in Procs : conn'[q] = "migrating" <=> q = p
      BY <3>1, <3>3
    <3>6. tx'[p].version = schema.version /\ tx'[p].applied = {}
      BY <3>1
    <3>7. ASSUME NEW q \in Procs
          PROVE  /\ writeLock' = q <=> conn'[q] = "migrating"
                 /\ conn'[q] = "migrating" =>
                       /\ schema'.version <= tx'[q].version /\ tx'[q].version <= LatestVersion
                       /\ tx'[q].applied = (schema'.version + 1)..tx'[q].version
      BY <3>1, <3>2, <3>4, <3>5, <3>6
    <3>8. MigratedOnce' /\ schema' \in [version : Nat, applied : [1..LatestVersion -> Nat]]
      BY <3>1 DEF MigratedOnce
    <3> QED BY <3>1, <3>5, <3>7, <3>8
  <2> QED BY <2>1, <2>2
<1>3. CASE ApplyMigration(p)
  <2>1. /\ conn[p] = "migrating" /\ tx[p].version < LatestVersion
        /\ UNCHANGED <<schema, writeLock, conn>>
        /\ tx' = [tx EXCEPT ![p] = [version |-> tx[p].version + 1,
                                    applied |-> tx[p].applied \cup {tx[p].version + 1}]]
    BY <1>3 DEF ApplyMigration
  <2>2. (schema.version + 1)..(tx[p].version + 1)
           = ((schema.version + 1)..tx[p].version) \cup {tx[p].version + 1}
    BY <2>1
  <2>3. tx' \in [Procs -> [version : Nat, applied : SUBSET Nat]]
    BY <2>1
  <2>4. /\ tx'[p].version = tx[p].version + 1
        /\ tx'[p].applied = (schema.version + 1)..(tx[p].version + 1)
        /\ \A q \in Procs \ {p} : tx'[q] = tx[q]
    BY <2>1, <2>2
  <2>5. ASSUME NEW q \in Procs
        PROVE  /\ writeLock' = q <=> conn'[q] = "migrating"
               /\ conn'[q] = "migrating" =>
                     /\ schema'.version <= tx'[q].version /\ tx'[q].version <= LatestVersion
                     /\ tx'[q].applied = (schema'.version + 1)..tx'[q].version
    <3>1. CASE q = p
      <4>1. /\ writeLock = p /\ schema.version <= tx[p].version
            /\ tx[p].version \in Nat /\ schema.version \in Nat
        BY <2>1
      <4> QED BY <2>1, <2>4, <3>1, <4>1
    <3>2. CASE q # p
      BY <2>1, <2>4, <3>2
    <3> QED BY <3>1, <3>2
  <2>6. MigratedOnce'
    BY <2>1 DEF MigratedOnce
  <2> QED BY <2>1, <2>3, <2>5, <2>6
<1>4. CASE CommitMigration(p)
  <2> DEFINE added == [k \in DOMAIN schema.applied |->
                          schema.applied[k] + (IF k \in tx[p].applied THEN 1 ELSE 0)]
  <2>1. /\ conn[p] = "migrating" /\ tx[p].version = LatestVersion
        /\ schema' = [version |-> LatestVersion, applied |-> added]
        /\ conn' = [conn EXCEPT ![p] = "open"] /\ writeLock' = NoProc
        /\ tx' = [tx EXCEPT ![p] = NoTransaction]
    BY <1>4 DEF CommitMigration
  <2>2. writeLock = p /\ \A q \in Procs : conn[q] = "migrating" => q = p
    BY <1>0, <2>1
  <2>3. added \in [1..LatestVersion -> Nat] /\ \A k \in 1..LatestVersion : added[k] = 1
    BY <2>1 DEF MigratedOnce
  <2>4. schema' \in [version : Nat, applied : [1..LatestVersion -> Nat]] /\ MigratedOnce'
    BY <2>1, <2>3 DEF MigratedOnce
  <2>5. /\ tx' \in [Procs -> [version : Nat, applied : SUBSET Nat]]
        /\ conn' \in [Procs -> Connections]
        /\ \A q \in Procs : conn'[q] # "migrating"
    BY <2>1, <2>2 DEF NoTransaction
  <2> QED BY <1>0, <2>1, <2>4, <2>5
<1>5. CASE Crash(p)
  <2>1. /\ UNCHANGED schema /\ conn' = [conn EXCEPT ![p] = "closed"]
        /\ writeLock' = IF writeLock = p THEN NoProc ELSE writeLock
        /\ tx' = [tx EXCEPT ![p] = NoTransaction]
    BY <1>5 DEF Crash
  <2> QED BY <1>0, <2>1 DEF NoTransaction, MigratedOnce
<1> QED BY <1>1, <1>2, <1>3, <1>4, <1>5 DEF OpenStep

-----------------------------------------------------------------------------
(* The tables, who writes to a session, and what a promotion knows *)

BaselineRow(b) == b = [name |-> b.name, session |-> b.session, state |-> b.state, digest |-> b.digest]

TablesInv ==
    /\ Rows(sessions) /\ \A id \in SessionIds : SessionRow(sessions[id])
    /\ Rows(baselines)
    /\ \A i \in DOMAIN baselines : BaselineRow(baselines[i]) /\ baselines[i].session \in SessionIds
    /\ recording \in [Recorders -> [phase : {"new", "created", "running", "ended"}, session : Nat,
                                    next : Int, lost : Int]]
    /\ DOMAIN command = Clis /\ \A c \in Clis : "op" \in DOMAIN command[c]

\* Whether a process still adds to a session, and to which.
Writing(p) ==
    IF p \in Recorders THEN recording[p].phase \in {"created", "running"} ELSE command[p].op = "vcr"

Target(p) == IF p \in Recorders THEN recording[p].session ELSE command[p].session

\* A session that is written to is open, and written by one process only.
WriterInv ==
    /\ \A p \in Procs : Writing(p) => Target(p) \in SessionIds /\ sessions[Target(p)].ended = FALSE
    /\ \A p, q \in Procs : Writing(p) /\ Writing(q) /\ Target(p) = Target(q) => p = q

\* The session as stored now is a finished capture without loss.
Trusted(id) == CompleteCapture(Summary(id), sessions[id].messages)

\* What a promotion read at an earlier step and still relies on.
PromotionInv(c) ==
    LET cmd == command[c]
    IN  cmd.op \in {"promote", "export"} =>
           /\ cmd.session \in SessionIds
           /\ cmd.op = "promote" /\ cmd.stage = "checkMessages" /\ cmd.summary.ended
                 => cmd.summary = Summary(cmd.session)
           /\ cmd.op = "promote" /\ cmd.stage \in {"select", "update"} => Trusted(cmd.session)
           /\ cmd.op = "promote" /\ cmd.stage = "update" =>
                 /\ cmd.row \in DOMAIN baselines
                 /\ baselines[cmd.row].name = cmd.name /\ baselines[cmd.row].session = cmd.session
                 /\ c \in snapshots => baselines[cmd.row].state = "candidate"

DataInv ==
    /\ TablesInv /\ WriterInv
    /\ \A c \in Clis : PromotionInv(c)
    /\ OneApproved /\ ApprovedIsComplete

\* What every step leaves of the tables.
SessionsGrow ==
    \A id \in SessionIds :
        id \in DOMAIN sessions' /\ (sessions[id].ended => sessions'[id] = sessions[id])

BaselinesGrow ==
    \A i \in DOMAIN baselines :
        /\ i \in DOMAIN baselines'
        /\ baselines'[i].name = baselines[i].name /\ baselines'[i].session = baselines[i].session
        /\ baselines'[i].state = baselines[i].state \/ snapshots' = {}

\* Nobody may rely on a session that is still open.
LEMMA CompleteIsEnded ==
    ASSUME NEW summary, NEW messages, CompleteCapture(summary, messages)
    PROVE  summary.ended
<1> DEFINE issue == [kind |-> "SessionNotClosed", seq |-> NoSeq]
<1> SUFFICES ASSUME ~summary.ended PROVE FALSE
  OBVIOUS
<1>1. IssueIf(~summary.ended, "SessionNotClosed", NoSeq) = {issue}
  BY DEF IssueIf, Issue
<1>2. issue \in assess_capture(summary, messages)
  BY <1>1 DEF assess_capture
<1>3. issue.kind = "UnredactedSensitiveValue"
  BY <1>2 DEF CompleteCapture
<1> QED BY <1>3

LEMMA TrustedIsFrozen ==
    ASSUME SessionsGrow, NEW id \in SessionIds, Trusted(id)
    PROVE  /\ sessions'[id] = sessions[id] /\ id \in DOMAIN sessions'
           /\ Summary(id)' = Summary(id) /\ Trusted(id)'
<1>1. Summary(id).ended
  BY CompleteIsEnded DEF Trusted
<1>2. sessions[id].ended
  BY <1>1 DEF Summary
<1>3. sessions'[id] = sessions[id] /\ id \in DOMAIN sessions'
  BY <1>2 DEF SessionsGrow
<1>4. Summary(id)' = Summary(id)
  BY <1>3 DEF Summary
<1> QED BY <1>3, <1>4 DEF Trusted

\* A promotion that takes no step keeps what it knows, whatever others do.
LEMMA PromotionKept ==
    ASSUME TablesInv, SessionsGrow, BaselinesGrow, NEW c \in Clis, PromotionInv(c),
           command'[c] = command[c], c \in snapshots' => c \in snapshots
    PROVE  PromotionInv(c)'
<1> SUFFICES ASSUME NEW cmd, cmd = command[c], cmd.op \in {"promote", "export"}
             PROVE  PromotionInv(c)'
  BY Zenon DEF PromotionInv
<1>0. cmd.session \in SessionIds /\ cmd.session \in DOMAIN sessions'
  BY DEF PromotionInv, SessionsGrow, SessionIds
<1>1. ASSUME cmd.op = "promote", cmd.stage = "checkMessages", cmd.summary.ended
      PROVE  cmd.summary = Summary(cmd.session)'
  <2>1. cmd.summary = Summary(cmd.session)
    BY <1>1 DEF PromotionInv
  <2>2. sessions[cmd.session].ended
    BY <1>1, <2>1 DEF Summary
  <2>3. sessions'[cmd.session] = sessions[cmd.session]
    BY <1>0, <2>2 DEF SessionsGrow
  <2> QED BY <2>1, <2>3 DEF Summary
<1>2. ASSUME cmd.op = "promote", cmd.stage \in {"select", "update"}
      PROVE  Trusted(cmd.session)'
  <2>1. Trusted(cmd.session)
    BY <1>2 DEF PromotionInv
  <2> QED BY <1>0, <2>1, TrustedIsFrozen
<1>3. ASSUME cmd.op = "promote", cmd.stage = "update"
      PROVE  /\ cmd.row \in DOMAIN baselines'
             /\ baselines'[cmd.row].name = cmd.name /\ baselines'[cmd.row].session = cmd.session
             /\ c \in snapshots' => baselines'[cmd.row].state = "candidate"
  BY <1>3 DEF PromotionInv, BaselinesGrow
<1>4. command'[c] = cmd
  OBVIOUS
<1> QED BY <1>0, <1>1, <1>2, <1>3, <1>4 DEF PromotionInv, SessionIds

\* Sessions are inserted, or an open one is changed.
LEMMA InsertSession ==
    ASSUME TablesInv, NEW row, SessionRow(row), Insert(row)
    PROVE  /\ Rows(sessions') /\ DOMAIN sessions' = SessionIds \cup {Len(sessions) + 1}
           /\ Len(sessions) + 1 \in Nat \ {0} /\ Len(sessions) + 1 \notin SessionIds
           /\ SessionIds \subseteq Nat \ {0}
           /\ \A id \in SessionIds : sessions'[id] = sessions[id]
           /\ sessions'[Len(sessions) + 1] = row
           /\ \A id \in DOMAIN sessions' : SessionRow(sessions'[id])
           /\ SessionsGrow
<1>1. Rows(sessions)
  BY DEF TablesInv
<1>2. sessions' = Append(sessions, row)
  BY DEF Insert
<1>3. /\ Rows(sessions') /\ Len(sessions) \in Nat /\ SessionIds = 1..Len(sessions)
      /\ DOMAIN sessions' = 1..(Len(sessions) + 1)
      /\ \A id \in SessionIds : sessions'[id] = sessions[id]
      /\ sessions'[Len(sessions) + 1] = row
  BY <1>1, <1>2, AppendRow DEF SessionIds
<1>4. DOMAIN sessions' = SessionIds \cup {Len(sessions) + 1}
  BY <1>3
<1>5. \A id \in DOMAIN sessions' : SessionRow(sessions'[id])
  BY <1>3, <1>4 DEF TablesInv
<1>6. /\ Len(sessions) + 1 \in Nat \ {0} /\ Len(sessions) + 1 \notin SessionIds
      /\ SessionIds \subseteq Nat \ {0}
  BY <1>3
<1>7. SessionsGrow
  BY <1>3, <1>4 DEF SessionsGrow
<1> QED BY <1>3, <1>4, <1>5, <1>6, <1>7

LEMMA UpdateSession ==
    ASSUME TablesInv, NEW at \in SessionIds, sessions[at].ended = FALSE, NEW row, SessionRow(row),
           sessions' = [sessions EXCEPT ![at] = row]
    PROVE  /\ Rows(sessions') /\ DOMAIN sessions' = SessionIds
           /\ sessions'[at] = row
           /\ \A id \in SessionIds \ {at} : sessions'[id] = sessions[id]
           /\ \A id \in DOMAIN sessions' : SessionRow(sessions'[id])
           /\ SessionsGrow
<1>1. Rows(sessions) /\ \A id \in SessionIds : SessionRow(sessions[id])
  BY DEF TablesInv
<1>2. sessions' = [id \in DOMAIN sessions |-> sessions'[id]]
  OBVIOUS
<1>3. Rows(sessions') /\ DOMAIN sessions' = SessionIds
  BY <1>1, <1>2, SameRows DEF SessionIds
<1>4. sessions'[at] = row /\ \A id \in SessionIds \ {at} : sessions'[id] = sessions[id]
  BY DEF SessionIds
<1>5. \A id \in DOMAIN sessions' : SessionRow(sessions'[id])
  BY <1>1, <1>3, <1>4
<1>6. SessionsGrow
  BY <1>3, <1>4 DEF SessionsGrow
<1> QED BY <1>3, <1>4, <1>5, <1>6

\* A step keeps the invariant when it keeps the tables' form and the writers
\* apart, settles what the acting promotion knows, and approves only what is
\* trusted.
LEMMA DataStep ==
    ASSUME DataInv, SessionsGrow, BaselinesGrow, TablesInv', WriterInv', OneApproved',
           \A c \in Clis : PromotionInv(c)' \/ (command'[c] = command[c]
                                                 /\ (c \in snapshots' => c \in snapshots)),
           \A i \in DOMAIN baselines' : baselines'[i].state # "candidate" =>
               /\ i \in DOMAIN baselines /\ baselines'[i].session = baselines[i].session
               /\ baselines[i].state # "candidate" \/ Trusted(baselines[i].session)
    PROVE  DataInv'
<1>1. ASSUME NEW c \in Clis PROVE PromotionInv(c)'
  BY PromotionKept DEF DataInv
<1>2. ApprovedIsComplete'
  <2> SUFFICES ASSUME NEW i \in DOMAIN baselines', baselines'[i].state # "candidate",
                      NEW id, id = baselines'[i].session
               PROVE  Trusted(id)'
    BY Zenon DEF ApprovedIsComplete, Trusted
  <2>1. i \in DOMAIN baselines /\ baselines[i].session = id
    OBVIOUS
  <2>2. id \in SessionIds
    BY <2>1 DEF DataInv, TablesInv
  <2>3. Trusted(id)
    BY <2>1 DEF DataInv, ApprovedIsComplete, Trusted
  <2> QED BY <2>2, <2>3, TrustedIsFrozen
<1> QED BY <1>1, <1>2 DEF DataInv

-----------------------------------------------------------------------------
(* Recorders *)

Recording == [phase : {"new", "created", "running", "ended"}, session : Nat, next : Int, lost : Int]

\* Which columns an update sets does not change the form of the row.
LEMMA UpdatedRow ==
    ASSUME NEW s, SessionRow(s), NEW x, NEW y
    PROVE  /\ SessionRow([s EXCEPT !.messages = x]) /\ [s EXCEPT !.messages = x].ended = s.ended
           /\ SessionRow([s EXCEPT !.ended = x, !.total = y])
<1>1. PICK a, b, d, e, f, g, h : s = [ended |-> a, dropped |-> b, policy |-> d, transport |-> e,
                                      total |-> f, messages |-> g, origin |-> h]
  BY DEF SessionRow
<1>2. [s EXCEPT !.messages = x] = [ended |-> a, dropped |-> b, policy |-> d, transport |-> e,
                                   total |-> f, messages |-> x, origin |-> h]
  BY <1>1
<1>3. [s EXCEPT !.ended = x, !.total = y] = [ended |-> x, dropped |-> b, policy |-> d, transport |-> e,
                                             total |-> y, messages |-> g, origin |-> h]
  <2>1. PICK t : t = [s EXCEPT !.ended = x]
    OBVIOUS
  <2>2. t = [ended |-> x, dropped |-> b, policy |-> d, transport |-> e,
             total |-> f, messages |-> g, origin |-> h]
    BY <1>1, <2>1
  <2>3. [s EXCEPT !.ended = x, !.total = y] = [t EXCEPT !.total = y]
    BY <2>1
  <2>4. [t EXCEPT !.total = y] = [ended |-> x, dropped |-> b, policy |-> d, transport |-> e,
                                  total |-> y, messages |-> g, origin |-> h]
    BY <2>2
  <2> QED BY <2>3, <2>4
<1> QED BY <1>1, <1>2, <1>3 DEF SessionRow

\* The steps of a recorder touch its own session and state only.
LEMMA RecorderData ==
    ASSUME DataInv, NEW r \in Recorders, NEW rec \in Recording,
           recording' = [recording EXCEPT ![r] = rec],
           UNCHANGED <<baselines, command>>, snapshots' \subseteq snapshots,
           Rows(sessions'), \A id \in DOMAIN sessions' : SessionRow(sessions'[id]), SessionsGrow,
           \A p \in Procs \ {r} : Writing(p) =>
               Target(p) \in DOMAIN sessions' /\ sessions'[Target(p)] = sessions[Target(p)],
           rec.phase \in {"created", "running"} =>
               /\ rec.session \in DOMAIN sessions' /\ sessions'[rec.session].ended = FALSE
               /\ \A p \in Procs \ {r} : Writing(p) => Target(p) # rec.session
    PROVE  DataInv'
<1>1. TablesInv'
  <2>1. \A i \in DOMAIN baselines : baselines[i].session \in DOMAIN sessions'
    BY DEF DataInv, TablesInv, SessionsGrow
  <2>2. recording' \in [Recorders -> Recording]
    BY DEF DataInv, TablesInv, Recording
  <2> QED BY <2>1, <2>2 DEF DataInv, TablesInv, SessionIds, Recording
<1>2. ASSUME NEW p \in Procs \ {r} PROVE Writing(p)' = Writing(p) /\ Target(p)' = Target(p)
  BY DEF Writing, Target, DataInv, TablesInv, Procs
<1>3. /\ Writing(r)' <=> rec.phase \in {"created", "running"}
      /\ Target(r)' = rec.session
  BY DEF Writing, Target, DataInv, TablesInv
<1>4. WriterInv'
  <2>1. ASSUME NEW p \in Procs, Writing(p)'
        PROVE  Target(p)' \in DOMAIN sessions' /\ sessions'[Target(p)'].ended = FALSE
    <3>1. CASE p = r
      BY <1>3, <2>1, <3>1
    <3>2. CASE p # r
      BY <1>2, <2>1, <3>2 DEF DataInv, WriterInv
    <3> QED BY <3>1, <3>2
  <2>2. ASSUME NEW p \in Procs, NEW q \in Procs, Writing(p)', Writing(q)', Target(p)' = Target(q)'
        PROVE  p = q
    <3>1. CASE p = r /\ q # r
      BY <1>2, <1>3, <2>2, <3>1
    <3>2. CASE q = r /\ p # r
      BY <1>2, <1>3, <2>2, <3>2
    <3>3. CASE p # r /\ q # r
      BY <1>2, <2>2, <3>3 DEF DataInv, WriterInv
    <3> QED BY <3>1, <3>2, <3>3
  <2> QED BY <2>1, <2>2 DEF WriterInv, SessionIds
<1>5. OneApproved' /\ BaselinesGrow
  BY DEF DataInv, OneApproved, BaselinesGrow
<1>6. \A i \in DOMAIN baselines' : baselines'[i].state # "candidate" =>
          /\ i \in DOMAIN baselines /\ baselines'[i].session = baselines[i].session
          /\ baselines[i].state # "candidate" \/ Trusted(baselines[i].session)
  OBVIOUS
<1>7. \A c \in Clis : command'[c] = command[c] /\ (c \in snapshots' => c \in snapshots)
  OBVIOUS
<1> QED BY <1>1, <1>4, <1>5, <1>6, <1>7, DataStep

\* A change of the recorder's open session that keeps it open, or ends the
\* recording.
LEMMA RecorderUpdates ==
    ASSUME DataInv, NEW r \in Recorders, recording[r].phase \in {"created", "running"},
           NEW row, SessionRow(row), sessions' = [sessions EXCEPT ![recording[r].session] = row],
           NEW rec \in Recording, recording' = [recording EXCEPT ![r] = rec],
           rec.session = recording[r].session, rec.phase = "ended" \/ row.ended = FALSE,
           UNCHANGED <<baselines, command>>, snapshots' \subseteq snapshots
    PROVE  DataInv'
<1>1. PICK at : at = recording[r].session
  OBVIOUS
<1>2. r \in Procs /\ Writing(r) /\ Target(r) = at
  BY <1>1 DEF Procs, Writing, Target
<1>3. at \in SessionIds /\ sessions[at].ended = FALSE
  BY <1>2 DEF DataInv, WriterInv
<1>4. \A p \in Procs \ {r} : Writing(p) => Target(p) \in SessionIds /\ Target(p) # at
  BY <1>2 DEF DataInv, WriterInv
<1>5. /\ Rows(sessions') /\ DOMAIN sessions' = SessionIds /\ sessions'[at] = row
      /\ \A id \in SessionIds \ {at} : sessions'[id] = sessions[id]
      /\ \A id \in DOMAIN sessions' : SessionRow(sessions'[id])
      /\ SessionsGrow
  BY <1>1, <1>3, UpdateSession DEF DataInv
<1> QED BY <1>1, <1>3, <1>4, <1>5, RecorderData

LEMMA RecorderStepData ==
    ASSUME DataInv, NEW r \in Recorders, RecorderStep(r)
    PROVE  DataInv' /\ UNCHANGED openVars /\ UNCHANGED baselines
<1> DEFINE at == recording[r].session
<1>0. UNCHANGED openVars /\ UNCHANGED baselines /\ UNCHANGED command /\ snapshots' \subseteq snapshots
  BY DEF RecorderStep, create_session, set_redaction_policy, write_messages, LoseMessage,
         increment_dropped_messages, close_session, recorderFrame, catalog, openVars, Commits
<1>1. recording[r] \in Recording
  BY DEF DataInv, TablesInv, Recording
<1>2. recording[r].phase \in {"created", "running"} => SessionRow(sessions[at])
      /\ sessions[at].ended = FALSE /\ at \in SessionIds
  BY DEF DataInv, TablesInv, WriterInv, Writing, Target, Procs
<1>3. CASE create_session(r)
  <2> DEFINE row == NewSession(OpenSummary, <<>>, [kind |-> "record", of |-> <<>>])
  <2> DEFINE rec == [recording[r] EXCEPT !.phase = "created", !.session = Len(sessions) + 1]
  <2>1. Insert(row) /\ recording' = [recording EXCEPT ![r] = rec]
    BY <1>3 DEF create_session
  <2>2. SessionRow(row) /\ row.ended = FALSE
    BY DEF SessionRow, NewSession, OpenSummary
  <2> HIDE DEF row
  <2>3. /\ Rows(sessions') /\ DOMAIN sessions' = SessionIds \cup {Len(sessions) + 1}
        /\ Len(sessions) + 1 \in Nat \ {0} /\ Len(sessions) + 1 \notin SessionIds
        /\ \A id \in SessionIds : sessions'[id] = sessions[id]
        /\ sessions'[Len(sessions) + 1] = row
        /\ \A id \in DOMAIN sessions' : SessionRow(sessions'[id])
        /\ SessionsGrow
    BY <2>1, <2>2, InsertSession DEF DataInv
  <2>4. rec \in Recording /\ rec.session = Len(sessions) + 1
    BY <1>1, <2>3 DEF Recording
  <2>5. \A p \in Procs : Writing(p) => Target(p) \in SessionIds
    BY DEF DataInv, WriterInv
  <2> HIDE DEF rec
  <2>6. /\ \A p \in Procs \ {r} : Writing(p) =>
              Target(p) \in DOMAIN sessions' /\ sessions'[Target(p)] = sessions[Target(p)]
        /\ rec.session \in DOMAIN sessions' /\ sessions'[rec.session].ended = FALSE
        /\ \A p \in Procs \ {r} : Writing(p) => Target(p) # rec.session
    BY <2>2, <2>3, <2>4, <2>5
  <2> QED BY <1>0, <2>1, <2>3, <2>4, <2>6, RecorderData
<1>4. CASE set_redaction_policy(r)
  <2> DEFINE row == [sessions[at] EXCEPT !.policy = "default"]
  <2> DEFINE rec == [recording[r] EXCEPT !.phase = "running"]
  <2>1. /\ recording[r].phase = "created" /\ recording' = [recording EXCEPT ![r] = rec]
        /\ sessions' = [sessions EXCEPT ![at] = row]
    BY <1>4 DEF set_redaction_policy
  <2>2. SessionRow(row) /\ row.ended = FALSE
    BY <1>2, <2>1 DEF SessionRow
  <2>3. rec \in Recording /\ rec.session = at
    BY <1>1 DEF Recording
  <2> HIDE DEF row, rec
  <2> QED BY <1>0, <2>1, <2>2, <2>3, RecorderUpdates
<1>5. CASE write_messages(r)
  <2>1. PICK last \in recording[r].next..Len(Script[r]) :
           /\ recording[r].phase = "running"
           /\ sessions' = [sessions EXCEPT ![at].messages =
                              @ \o SubSeq(Script[r], recording[r].next, last)]
           /\ recording' = [recording EXCEPT ![r].next = last + 1]
    BY <1>5 DEF write_messages
  <2> DEFINE text == sessions[at].messages \o SubSeq(Script[r], recording[r].next, last)
  <2> DEFINE row == [sessions[at] EXCEPT !.messages = text]
  <2> DEFINE rec == [recording[r] EXCEPT !.next = last + 1]
  <2>2. /\ recording' = [recording EXCEPT ![r] = rec]
        /\ sessions' = [sessions EXCEPT ![at] = row]
    BY <2>1
  <2> HIDE DEF text
  <2>3. SessionRow(row) /\ row.ended = FALSE
    BY <1>2, <2>1, UpdatedRow
  <2>4. rec \in Recording /\ rec.session = at
    BY <1>1 DEF Recording
  <2> HIDE DEF row, rec
  <2> QED BY <1>0, <2>1, <2>2, <2>3, <2>4, RecorderUpdates
<1>6. CASE LoseMessage(r)
  <2> DEFINE rec == [recording[r] EXCEPT !.next = recording[r].next + 1, !.lost = recording[r].lost + 1]
  <2>1. /\ recording[r].phase = "running" /\ recording' = [recording EXCEPT ![r] = rec]
        /\ sessions' = sessions
    BY <1>6 DEF LoseMessage
  <2>2. /\ rec.phase = "running" /\ rec.session = at
        /\ rec.next = recording[r].next + 1 /\ rec.lost = recording[r].lost + 1
    BY <1>1, <2>1 DEF Recording
  <2>3. rec \in Recording
    <3>1. recording[r].next + 1 \in Int /\ recording[r].lost + 1 \in Int
      BY <1>1 DEF Recording
    <3> QED BY <1>1, <2>1, <3>1 DEF Recording
  <2>4. /\ Rows(sessions') /\ \A id \in DOMAIN sessions' : SessionRow(sessions'[id])
        /\ SessionsGrow
    BY <2>1 DEF DataInv, TablesInv, SessionIds, SessionsGrow
  <2>5. \A p \in Procs : Writing(p) => Target(p) \in DOMAIN sessions'
    BY <2>1 DEF DataInv, WriterInv, SessionIds
  <2>6. \A p \in Procs \ {r} : Writing(p) => Target(p) # at
    BY <2>1 DEF DataInv, WriterInv, Procs, Writing, Target
  <2> HIDE DEF rec
  <2> QED BY <1>0, <1>2, <2>1, <2>2, <2>3, <2>4, <2>5, <2>6, RecorderData DEF SessionIds
<1>7. CASE increment_dropped_messages(r)
  <2> DEFINE row == [sessions[at] EXCEPT !.dropped = @ + recording[r].lost]
  <2> DEFINE rec == [recording[r] EXCEPT !.lost = 0]
  <2>1. /\ recording[r].phase = "running" /\ recording' = [recording EXCEPT ![r] = rec]
        /\ sessions' = [sessions EXCEPT ![at] = row]
    BY <1>7 DEF increment_dropped_messages
  <2>2. SessionRow(row) /\ row.ended = FALSE
    BY <1>2, <2>1 DEF SessionRow
  <2>3. rec \in Recording /\ rec.session = at
    BY <1>1 DEF Recording
  <2> HIDE DEF row, rec
  <2> QED BY <1>0, <2>1, <2>2, <2>3, RecorderUpdates
<1>8. CASE close_session(r)
  <2> DEFINE row == Closed(sessions[at])
  <2> DEFINE rec == [recording[r] EXCEPT !.phase = "ended"]
  <2>1. /\ recording[r].phase = "running" /\ recording' = [recording EXCEPT ![r] = rec]
        /\ sessions' = [sessions EXCEPT ![at] = row]
    BY <1>8 DEF close_session
  <2>2. SessionRow(row)
    BY <1>2, <2>1, UpdatedRow DEF Closed
  <2>3. rec \in Recording /\ rec.session = at /\ rec.phase = "ended"
    BY <1>1 DEF Recording
  <2> HIDE DEF row, rec
  <2> QED BY <1>0, <2>1, <2>2, <2>3, RecorderUpdates
<1> QED BY <1>0, <1>3, <1>4, <1>5, <1>6, <1>7, <1>8 DEF RecorderStep

-----------------------------------------------------------------------------
(* Commands *)

\* A step of a command leaves the recorders and the other commands as they are.
LEMMA CommandData ==
    ASSUME DataInv, NEW c \in Clis, NEW cmd, "op" \in DOMAIN cmd,
           DOMAIN command' = Clis, command'[c] = cmd,
           \A d \in Clis \ {c} : command'[d] = command[d],
           UNCHANGED recording,
           Rows(sessions'), \A id \in DOMAIN sessions' : SessionRow(sessions'[id]), SessionsGrow,
           \A p \in Procs \ {c} : Writing(p) =>
               Target(p) \in DOMAIN sessions' /\ sessions'[Target(p)].ended = FALSE,
           cmd.op = "vcr" =>
               /\ cmd.session \in DOMAIN sessions' /\ sessions'[cmd.session].ended = FALSE
               /\ \A p \in Procs \ {c} : Writing(p) => Target(p) # cmd.session,
           Rows(baselines'), BaselinesGrow, OneApproved',
           \A i \in DOMAIN baselines' :
               BaselineRow(baselines'[i]) /\ baselines'[i].session \in DOMAIN sessions',
           \A i \in DOMAIN baselines' : baselines'[i].state # "candidate" =>
               /\ i \in DOMAIN baselines /\ baselines'[i].session = baselines[i].session
               /\ baselines[i].state # "candidate" \/ Trusted(baselines[i].session),
           \A d \in Clis \ {c} : d \in snapshots' => d \in snapshots,
           PromotionInv(c)' \/ (command'[c] = command[c] /\ (c \in snapshots' => c \in snapshots))
    PROVE  DataInv'
<1>0. c \in Procs /\ c \notin Recorders
  BY ProcAssumption DEF Procs
<1>1. TablesInv'
  <2>1. \A d \in Clis : "op" \in DOMAIN command'[d]
    BY DEF DataInv, TablesInv
  <2>2. recording' \in [Recorders -> Recording]
    BY DEF DataInv, TablesInv, Recording
  <2> QED BY <2>1, <2>2 DEF DataInv, TablesInv, SessionIds, Recording
<1>2. ASSUME NEW p \in Procs \ {c} PROVE Writing(p)' = Writing(p) /\ Target(p)' = Target(p)
  BY DEF Writing, Target, Procs
<1>3. /\ Writing(c)' <=> cmd.op = "vcr"
      /\ Target(c)' = cmd.session
  BY <1>0 DEF Writing, Target
<1>4. WriterInv'
  <2>1. ASSUME NEW p \in Procs, Writing(p)'
        PROVE  Target(p)' \in DOMAIN sessions' /\ sessions'[Target(p)'].ended = FALSE
    <3>1. CASE p = c
      BY <1>3, <2>1, <3>1
    <3>2. CASE p # c
      BY <1>2, <2>1, <3>2
    <3> QED BY <3>1, <3>2
  <2>2. ASSUME NEW p \in Procs, NEW q \in Procs, Writing(p)', Writing(q)', Target(p)' = Target(q)'
        PROVE  p = q
    <3>1. CASE p = c /\ q # c
      BY <1>2, <1>3, <2>2, <3>1
    <3>2. CASE q = c /\ p # c
      BY <1>2, <1>3, <2>2, <3>2
    <3>3. CASE p # c /\ q # c
      BY <1>2, <2>2, <3>3 DEF DataInv, WriterInv
    <3> QED BY <3>1, <3>2, <3>3
  <2> QED BY <2>1, <2>2 DEF WriterInv, SessionIds
<1>5. \A d \in Clis : PromotionInv(d)' \/ (command'[d] = command[d] /\ (d \in snapshots' => d \in snapshots))
  OBVIOUS
<1> QED BY <1>1, <1>4, <1>5, DataStep

\* A step that reads, or that writes no session and no baseline.
LEMMA QuietCommand ==
    ASSUME DataInv, NEW c \in Clis, NEW cmd, "op" \in DOMAIN cmd, cmd.op # "vcr",
           command' = [command EXCEPT ![c] = cmd],
           UNCHANGED <<sessions, baselines, recording>>,
           \A d \in Clis \ {c} : d \in snapshots' => d \in snapshots,
           cmd.op \in {"promote", "export"} => cmd.session \in SessionIds,
           cmd.op = "promote" /\ cmd.stage = "checkMessages" => cmd.summary = Summary(cmd.session),
           cmd.op = "promote" /\ cmd.stage \in {"select", "update"} => Trusted(cmd.session),
           cmd.op = "promote" /\ cmd.stage = "update" =>
              /\ cmd.row \in DOMAIN baselines
              /\ baselines[cmd.row].name = cmd.name /\ baselines[cmd.row].session = cmd.session
              /\ baselines[cmd.row].state = "candidate"
    PROVE  DataInv'
<1>1. DOMAIN command' = Clis /\ command'[c] = cmd /\ \A d \in Clis \ {c} : command'[d] = command[d]
  BY DEF DataInv, TablesInv
<1>2. PromotionInv(c)'
  <2>1. SessionIds' = SessionIds /\ Summary(cmd.session)' = Summary(cmd.session)
        /\ Trusted(cmd.session)' = Trusted(cmd.session)
    BY DEF SessionIds, Summary, Trusted
  <2> QED BY <1>1, <2>1 DEF PromotionInv
<1>3. SessionsGrow /\ BaselinesGrow /\ OneApproved'
  BY DEF SessionsGrow, BaselinesGrow, SessionIds, DataInv, OneApproved
<1>4. /\ Rows(sessions') /\ \A id \in DOMAIN sessions' : SessionRow(sessions'[id])
      /\ Rows(baselines')
      /\ \A i \in DOMAIN baselines' :
            BaselineRow(baselines'[i]) /\ baselines'[i].session \in DOMAIN sessions'
  BY DEF DataInv, TablesInv, SessionIds
<1>5. \A p \in Procs \ {c} : Writing(p) =>
          Target(p) \in DOMAIN sessions' /\ sessions'[Target(p)].ended = FALSE
  BY DEF DataInv, WriterInv, SessionIds
<1> QED BY <1>1, <1>2, <1>3, <1>4, <1>5, CommandData

\* What every command step leaves alone.
CommandKeeps == UNCHANGED openVars /\ UNCHANGED recording

\* Commands whose state the tables do not depend on: idle, merge and index.
LEMMA OtherCommand ==
    ASSUME DataInv, NEW c \in Clis, NEW cmd, "op" \in DOMAIN cmd, cmd.op \in {"idle", "merge", "index"},
           command' = [command EXCEPT ![c] = cmd],
           UNCHANGED <<sessions, baselines, recording>>, snapshots' \subseteq snapshots
    PROVE  DataInv'
BY QuietCommand

\* Every step of export and promotion before the approval.
LEMMA ExportSteps ==
    ASSUME DataInv, NEW c \in Clis,
           StartExport(c) \/ ExportSummary(c) \/ ExportMessages(c) \/ PublishArtifact(c)
    PROVE  DataInv' /\ CommandKeeps /\ UNCHANGED baselines
<1>0. CommandKeeps /\ UNCHANGED <<sessions, baselines, snapshots>>
  BY DEF StartExport, Start, ExportSummary, ExportMessages, Read, PublishArtifact, commandFrame, catalog,
         CommandKeeps, openVars
<1>1. UNCHANGED <<sessions, baselines, recording>> /\ UNCHANGED baselines /\ snapshots' \subseteq snapshots
  BY <1>0 DEF CommandKeeps
<1>2. "op" \in DOMAIN Idle /\ Idle.op = "idle"
  BY DEF Idle
<1>3. command[c].op \in {"export", "promote"} => command[c].session \in SessionIds
  BY DEF DataInv, PromotionInv
<1>4. CASE StartExport(c)
  <2>1. PICK op \in {"export", "promote"}, id \in SessionIds, name \in Names :
           Start(c, [op |-> op, session |-> id, name |-> name, stage |-> "summary"])
    BY <1>4 DEF StartExport
  <2>2. PICK cmd : cmd = [op |-> op, session |-> id, name |-> name, stage |-> "summary"]
    OBVIOUS
  <2>3. command' = [command EXCEPT ![c] = cmd]
    BY <2>1, <2>2 DEF Start
  <2>4. "op" \in DOMAIN cmd /\ cmd.op = op /\ cmd.session = id /\ cmd.stage = "summary"
    BY <2>2
  <2> QED BY <1>0, <1>1, <2>3, <2>4, QuietCommand
<1>5. CASE ExportSummary(c)
  <2>1. PICK old : old = command[c]
    OBVIOUS
  <2>2. PICK policy, new :
           /\ new = [op |-> old.op, session |-> old.session, name |-> old.name,
                     stage |-> "messages", summary |-> Summary(old.session), policy |-> policy]
           /\ command' = [command EXCEPT ![c] = IF policy = "refused" THEN Idle ELSE new]
           /\ old.op \in {"export", "promote"}
    BY <1>5, <2>1 DEF ExportSummary, Read
  <2>3. CASE policy = "refused"
    <3>1. command' = [command EXCEPT ![c] = Idle]
      BY <2>2, <2>3
    <3> QED BY <1>0, <1>1, <1>2, <3>1, OtherCommand
  <2>4. CASE policy # "refused"
    <3>1. "op" \in DOMAIN new /\ new.op = old.op /\ new.session = old.session /\ new.stage = "messages"
      BY <2>2
    <3>2. command' = [command EXCEPT ![c] = new]
      BY <2>2, <2>4
    <3> QED BY <1>0, <1>1, <1>3, <2>1, <2>2, <3>1, <3>2, QuietCommand
  <2> QED BY <1>0, <2>3, <2>4
<1>6. CASE ExportMessages(c)
  <2>1. PICK old, whole, new :
           /\ old = command[c]
           /\ new = [op |-> old.op, session |-> old.session, name |-> old.name,
                     stage |-> IF old.op = "export" THEN "publish" ELSE "check",
                     doc |-> MtraceDocument(old.summary, sessions[old.session].messages, old.policy)]
           /\ command' = [command EXCEPT ![c] = IF ~whole THEN Idle ELSE new]
           /\ old.op \in {"export", "promote"}
    BY <1>6 DEF ExportMessages, Read
  <2>2. CASE ~whole
    BY <1>0, <1>1, <1>2, <2>1, <2>2, OtherCommand
  <2>3. CASE whole
    <3>1. /\ "op" \in DOMAIN new /\ new.op = old.op /\ new.session = old.session
          /\ new.stage \in {"publish", "check"}
      BY <2>1
    <3>2. command' = [command EXCEPT ![c] = new]
      BY <2>1, <2>3
    <3> QED BY <1>0, <1>1, <1>3, <2>1, <3>1, <3>2, QuietCommand
  <2> QED BY <1>0, <2>2, <2>3
<1>7. CASE PublishArtifact(c)
  <2>1. command' = [command EXCEPT ![c] = Idle]
    BY <1>7 DEF PublishArtifact, Finish
  <2> QED BY <1>0, <1>1, <1>2, <2>1, OtherCommand
<1> QED BY <1>4, <1>5, <1>6, <1>7

\* A capture found complete is one that has ended, so the summary read before
\* still holds, and nobody changes the session any more.
LEMMA CheckSteps ==
    ASSUME DataInv, NEW c \in Clis, CheckSummary(c) \/ CheckMessages(c) \/ SelectCandidate(c)
    PROVE  DataInv' /\ CommandKeeps /\ UNCHANGED baselines
<1>0. CommandKeeps /\ UNCHANGED <<sessions, baselines, recording>>
  BY DEF CheckSummary, CheckMessages, SelectCandidate, Read, commandFrame, catalog, CommandKeeps, openVars
<1>1. UNCHANGED baselines
  BY <1>0
<1>2. "op" \in DOMAIN Idle /\ Idle.op = "idle"
  BY DEF Idle
<1>3. PICK old : old = command[c]
  OBVIOUS
<1>4. old.op = "promote" /\ old.session \in SessionIds
  BY <1>3 DEF CheckSummary, CheckMessages, SelectCandidate, DataInv, PromotionInv
<1>5. CASE CheckSummary(c)
  <2>1. PICK new :
           /\ new = [op |-> "promote", session |-> old.session, name |-> old.name,
                     stage |-> "checkMessages", doc |-> old.doc, summary |-> Summary(old.session)]
           /\ command' = [command EXCEPT ![c] = new] /\ snapshots' \subseteq snapshots
    BY <1>3, <1>5 DEF CheckSummary, Read
  <2>2. /\ "op" \in DOMAIN new /\ new.op = "promote" /\ new.session = old.session
        /\ new.stage = "checkMessages" /\ new.summary = Summary(new.session)
    BY <2>1
  <2> QED BY <1>0, <1>1, <1>4, <2>1, <2>2, QuietCommand
<1>6. CASE CheckMessages(c)
  <2>1. PICK new :
           /\ new = Checked(old) /\ old.stage = "checkMessages" /\ snapshots' \subseteq snapshots
           /\ command' = [command EXCEPT ![c] =
                 IF CompleteCapture(old.summary, sessions[old.session].messages) THEN new ELSE Idle]
    BY <1>3, <1>6 DEF CheckMessages, Read
  <2>2. /\ "op" \in DOMAIN new /\ new.op = "promote" /\ new.session = old.session
        /\ new.stage = "select"
    BY <2>1 DEF Checked
  <2>3. CASE CompleteCapture(old.summary, sessions[old.session].messages)
    <3>1. old.summary.ended
      BY <2>3, CompleteIsEnded
    <3>2. old.summary = Summary(old.session)
      BY <1>3, <1>4, <2>1, <3>1 DEF DataInv, PromotionInv
    <3>3. Trusted(new.session)
      BY <2>2, <2>3, <3>2 DEF Trusted
    <3>4. command' = [command EXCEPT ![c] = new]
      BY <2>1, <2>3
    <3> QED BY <1>0, <1>1, <1>4, <2>1, <2>2, <3>3, <3>4, QuietCommand
  <2>4. CASE ~CompleteCapture(old.summary, sessions[old.session].messages)
    BY <1>0, <1>1, <1>2, <2>1, <2>4, OtherCommand
  <2> QED BY <2>3, <2>4
<1>7. CASE SelectCandidate(c)
  <2>1. old.stage = "select" /\ Trusted(old.session)
    BY <1>3, <1>7, <1>4 DEF SelectCandidate, DataInv, PromotionInv
  <2>2. CASE command' = [command EXCEPT ![c] = Idle] /\ UNCHANGED snapshots
    BY <1>0, <1>1, <1>2, <2>2, OtherCommand
  <2>3. CASE ~(command' = [command EXCEPT ![c] = Idle] /\ UNCHANGED snapshots)
    <3>1. PICK row, new :
             /\ row \in DOMAIN baselines
             /\ baselines[row].name = old.name /\ baselines[row].session = old.session
             /\ baselines[row].state = "candidate"
             /\ new = [op |-> "promote", session |-> old.session, name |-> old.name,
                       stage |-> "update", doc |-> old.doc, row |-> row]
             /\ command' = [command EXCEPT ![c] = new] /\ snapshots' = snapshots \cup {c}
      BY <1>3, <1>7, <2>3 DEF SelectCandidate, Finish
    <3>2. /\ "op" \in DOMAIN new /\ new.op = "promote" /\ new.session = old.session
          /\ new.stage = "update" /\ new.name = old.name /\ new.row = row
      BY <3>1
    <3>3. \A d \in Clis \ {c} : d \in snapshots' => d \in snapshots
      BY <3>1
    <3> QED BY <1>0, <1>1, <1>4, <2>1, <3>1, <3>2, <3>3, QuietCommand
  <2> QED BY <2>2, <2>3
<1> QED BY <1>5, <1>6, <1>7

\* A rebuild goes on as an index command or ends.
IndexCommand(c) ==
    \E new : /\ "op" \in DOMAIN new /\ new.op \in {"idle", "index"}
             /\ command' = [command EXCEPT ![c] = new]

LEMMA IndexStepCommand ==
    ASSUME NEW c, IndexStep(c)
    PROVE  IndexCommand(c)
<1> USE DEF IndexCommand
<1>1. PICK old : old = command[c]
  OBVIOUS
<1>2. CASE StartRebuild(c) \/ rebuild_memory_for_session(c)
  <2>1. PICK stage, left, whole, new :
           /\ new = [op |-> "index", stage |-> stage, left |-> left, whole |-> whole]
           /\ command' = [command EXCEPT ![c] = new]
    <3>1. CASE StartRebuild(c)
      BY <3>1 DEF StartRebuild, Start
    <3>2. CASE rebuild_memory_for_session(c)
      BY <3>2 DEF rebuild_memory_for_session
    <3> QED BY <1>2, <3>1, <3>2
  <2>2. "op" \in DOMAIN new /\ new.op = "index"
    BY <2>1
  <2> QED BY <2>1, <2>2
<1>3. CASE IndexMessages(c)
  <2>1. PICK x, new :
           /\ new = [op |-> "index", stage |-> "policy", left |-> old.left, whole |-> old.whole, messages |-> x]
           /\ command' = [command EXCEPT ![c] = new]
    BY <1>1, <1>3 DEF IndexMessages, Read
  <2>2. "op" \in DOMAIN new /\ new.op = "index"
    BY <2>1
  <2> QED BY <2>1, <2>2
<1>4. CASE IndexPolicy(c)
  <2>1. PICK x, new :
           /\ new = [op |-> "index", stage |-> "write", left |-> old.left, whole |-> old.whole, new |-> x]
           /\ command' = [command EXCEPT ![c] = new]
    BY <1>1, <1>4 DEF IndexPolicy, Read
  <2>2. "op" \in DOMAIN new /\ new.op = "index"
    BY <2>1
  <2> QED BY <2>1, <2>2
<1>5. CASE IndexVersions(c)
  <2>1. PICK x, new :
           /\ new = [op |-> "index", stage |-> "edges", left |-> old.left, whole |-> old.whole, edges |-> x]
           /\ command' = [command EXCEPT ![c] = new]
    BY <1>1, <1>5 DEF IndexVersions, Read
  <2>2. "op" \in DOMAIN new /\ new.op = "index"
    BY <2>1
  <2> QED BY <2>1, <2>2
<1>6. CASE replace_supersession_edges(c)
  <2>1. command' = [command EXCEPT ![c] = Idle]
    BY <1>6 DEF replace_supersession_edges, Finish
  <2>2. "op" \in DOMAIN Idle /\ Idle.op = "idle"
    BY DEF Idle
  <2> QED BY <2>1, <2>2
<1> QED BY <1>2, <1>3, <1>4, <1>5, <1>6 DEF IndexStep

\* The reads of merge and the steps of an index rebuild.
LEMMA ReadSteps ==
    ASSUME DataInv, NEW c \in Clis,
           StartMerge(c) \/ MergeSummary(c) \/ MergeMessages(c) \/ IndexStep(c)
    PROVE  DataInv' /\ CommandKeeps /\ UNCHANGED baselines
<1>0. CommandKeeps /\ UNCHANGED <<sessions, baselines, recording>> /\ snapshots' \subseteq snapshots
  <2>1. CASE StartMerge(c) \/ MergeSummary(c) \/ MergeMessages(c)
    BY <2>1 DEF StartMerge, Start, MergeSummary, MergeMessages, Read, commandFrame, catalog,
                CommandKeeps, openVars
  <2>2. CASE StartRebuild(c) \/ IndexMessages(c) \/ IndexPolicy(c) \/ IndexVersions(c)
    BY <2>2 DEF StartRebuild, Start, IndexMessages, IndexPolicy, IndexVersions, Read, commandFrame,
                catalog, CommandKeeps, openVars
  <2>3. CASE rebuild_memory_for_session(c) \/ replace_supersession_edges(c)
    BY <2>3 DEF rebuild_memory_for_session, replace_supersession_edges, Commits, indexFrame, commandFrame,
                catalog, CommandKeeps, openVars
  <2> QED BY <2>1, <2>2, <2>3 DEF IndexStep
<1>1. UNCHANGED baselines
  BY <1>0
<1>2. PICK old : old = command[c]
  OBVIOUS
<1>3. "op" \in DOMAIN old
  BY <1>2 DEF DataInv, TablesInv
<1> SUFFICES \E new : /\ "op" \in DOMAIN new /\ new.op \in {"idle", "merge", "index"}
                      /\ command' = [command EXCEPT ![c] = new]
  BY <1>0, <1>1, OtherCommand
<1>4. CASE StartMerge(c)
  <2>1. PICK ids, new : /\ new = [op |-> "merge", of |-> ids, stage |-> "summary",
                                  summaries |-> <<>>, messages |-> <<>>]
                        /\ command' = [command EXCEPT ![c] = new]
    BY <1>4 DEF StartMerge, Start
  <2>2. "op" \in DOMAIN new /\ new.op = "merge"
    BY <2>1
  <2> QED BY <2>1, <2>2
<1>5. CASE MergeSummary(c)
  <2>1. PICK again, summaries :
           /\ old.op = "merge"
           /\ command' = [command EXCEPT ![c] =
                 IF again THEN Idle ELSE [old EXCEPT !.summaries = summaries, !.stage = "messages"]]
    BY <1>2, <1>5 DEF MergeSummary, Read
  <2>2. PICK new : new = [old EXCEPT !.summaries = summaries, !.stage = "messages"]
    OBVIOUS
  <2>3. "op" \in DOMAIN new /\ new.op = "merge"
    BY <1>3, <2>1, <2>2
  <2>4. CASE again
    <3>1. "op" \in DOMAIN Idle /\ Idle.op = "idle"
      BY DEF Idle
    <3> QED BY <2>1, <2>4, <3>1
  <2> QED BY <2>1, <2>2, <2>3, <2>4
<1>6. CASE MergeMessages(c)
  <2>1. PICK messages, stage :
           /\ old.op = "merge"
           /\ command' = [command EXCEPT ![c] = [old EXCEPT !.messages = messages, !.stage = stage]]
    BY <1>2, <1>6 DEF MergeMessages, Read
  <2>2. PICK new : new = [old EXCEPT !.messages = messages, !.stage = stage]
    OBVIOUS
  <2>3. "op" \in DOMAIN new /\ new.op = "merge"
    BY <1>3, <2>1, <2>2
  <2> QED BY <2>1, <2>2, <2>3
<1>7. CASE IndexStep(c)
  BY <1>7, IndexStepCommand DEF IndexCommand
<1> QED BY <1>4, <1>5, <1>6, <1>7

\* A command inserts a session that is whole, or open and its own to write.
LEMMA CommandInserts ==
    ASSUME DataInv, NEW c \in Clis, NEW row, SessionRow(row), Insert(row),
           UNCHANGED <<baselines, recording>>, snapshots' = {},
           NEW cmd, "op" \in DOMAIN cmd,
           cmd.op = "vcr" => cmd.session = Len(sessions) + 1 /\ row.ended = FALSE,
           \/ command' = [command EXCEPT ![c] = cmd] /\ cmd.op \in {"idle", "vcr"}
           \/ command' = command /\ cmd = command[c] /\ cmd.op # "vcr"
    PROVE  DataInv'
<1>1. PICK at : at = Len(sessions) + 1
  OBVIOUS
<1>2. /\ Rows(sessions') /\ DOMAIN sessions' = SessionIds \cup {at} /\ at \notin SessionIds
      /\ \A id \in SessionIds : sessions'[id] = sessions[id]
      /\ sessions'[at] = row
      /\ \A id \in DOMAIN sessions' : SessionRow(sessions'[id])
      /\ SessionsGrow
  BY <1>1, InsertSession DEF DataInv
<1>3. DOMAIN command' = Clis /\ command'[c] = cmd /\ \A d \in Clis \ {c} : command'[d] = command[d]
  BY DEF DataInv, TablesInv
<1>4. \A p \in Procs : Writing(p) => Target(p) \in SessionIds /\ sessions[Target(p)].ended = FALSE
  BY DEF DataInv, WriterInv
<1>5. /\ \A p \in Procs \ {c} : Writing(p) =>
            Target(p) \in DOMAIN sessions' /\ sessions'[Target(p)].ended = FALSE
      /\ cmd.op = "vcr" =>
            /\ cmd.session \in DOMAIN sessions' /\ sessions'[cmd.session].ended = FALSE
            /\ \A p \in Procs \ {c} : Writing(p) => Target(p) # cmd.session
  BY <1>1, <1>2, <1>4
<1>6. /\ Rows(baselines') /\ BaselinesGrow /\ OneApproved'
      /\ \A i \in DOMAIN baselines' :
            BaselineRow(baselines'[i]) /\ baselines'[i].session \in DOMAIN sessions'
      /\ \A i \in DOMAIN baselines' : baselines'[i].state # "candidate" =>
            /\ i \in DOMAIN baselines /\ baselines'[i].session = baselines[i].session
            /\ baselines[i].state # "candidate" \/ Trusted(baselines[i].session)
  BY <1>2 DEF DataInv, TablesInv, BaselinesGrow, OneApproved
<1>7. PromotionInv(c)' \/ (command'[c] = command[c] /\ (c \in snapshots' => c \in snapshots))
  BY <1>3 DEF PromotionInv
<1> QED BY <1>2, <1>3, <1>5, <1>6, <1>7, CommandData

LEMMA NewSessionRow ==
    ASSUME NEW summary, NEW messages, NEW origin
    PROVE  SessionRow(NewSession(summary, messages, origin))
           /\ NewSession(summary, messages, origin).ended = summary.ended
BY DEF SessionRow, NewSession

LEMMA InsertSteps ==
    ASSUME DataInv, NEW c \in Clis, import_mtrace_document(c) \/ merge_sessions(c) \/ ImportVcrCreate(c)
    PROVE  DataInv' /\ CommandKeeps /\ UNCHANGED baselines
<1>0. CommandKeeps /\ UNCHANGED <<baselines, recording>>
  BY DEF import_mtrace_document, merge_sessions, ImportVcrCreate, commandFrame, catalog, CommandKeeps, openVars
<1>1. UNCHANGED baselines
  BY <1>0
<1>2. "op" \in DOMAIN Idle /\ Idle.op = "idle"
  BY DEF Idle
<1>3. CASE import_mtrace_document(c)
  <2>1. PICK row : /\ row = NewSession(artifact.doc, artifact.doc.messages,
                                       [kind |-> "import", of |-> <<artifact.of>>])
                   /\ Insert(row) /\ command' = command /\ snapshots' = {} /\ command[c] = Idle
    BY <1>3 DEF import_mtrace_document, Given, Commits
  <2>2. SessionRow(row)
    BY <2>1, NewSessionRow
  <2>3. PICK cmd : cmd = command[c] /\ "op" \in DOMAIN cmd /\ cmd.op = "idle"
    BY <1>2, <2>1
  <2> QED BY <1>0, <1>1, <2>1, <2>2, <2>3, CommandInserts
<1>4. CASE merge_sessions(c)
  <2>1. command' = [command EXCEPT ![c] = Idle]
    BY <1>4 DEF merge_sessions, Finish
  <2>2. CASE UNCHANGED <<sessions, snapshots>>
    BY <1>0, <1>1, <1>2, <2>1, <2>2, OtherCommand
  <2>3. CASE InsertMerged(command[c], command[c].summaries) /\ Commits
    <3>1. PICK summary, messages, origin : Insert(NewSession(summary, messages, origin))
      BY <2>3 DEF InsertMerged
    <3>2. PICK row : row = NewSession(summary, messages, origin) /\ Insert(row)
      BY <3>1
    <3>3. SessionRow(row)
      BY <3>2, NewSessionRow
    <3>4. snapshots' = {}
      BY <2>3 DEF Commits
    <3> QED BY <1>0, <1>1, <1>2, <2>1, <3>2, <3>3, <3>4, CommandInserts
  <2> QED BY <1>4, <2>2, <2>3 DEF merge_sessions
<1>5. CASE ImportVcrCreate(c)
  <2>1. PICK row, cmd :
           /\ row = NewSession(OpenSummary, <<>>, [kind |-> "vcr", of |-> <<>>]) /\ Insert(row)
           /\ cmd = [op |-> "vcr", stage |-> "write", session |-> Len(sessions) + 1]
           /\ command' = [command EXCEPT ![c] = cmd] /\ snapshots' = {}
    BY <1>5 DEF ImportVcrCreate, Commits
  <2>2. SessionRow(row) /\ row.ended = FALSE
    BY <2>1, NewSessionRow DEF OpenSummary
  <2>3. "op" \in DOMAIN cmd /\ cmd.op = "vcr" /\ cmd.session = Len(sessions) + 1
    BY <2>1
  <2> QED BY <1>0, <1>1, <2>1, <2>2, <2>3, CommandInserts
<1> QED BY <1>3, <1>4, <1>5

\* import_vcr writes to the session it created and nobody else knows.
LEMMA VcrSteps ==
    ASSUME DataInv, NEW c \in Clis, ImportVcrWrite(c) \/ ImportVcrClose(c)
    PROVE  DataInv' /\ CommandKeeps /\ UNCHANGED baselines
<1>0. CommandKeeps /\ UNCHANGED <<baselines, recording>> /\ snapshots' = {}
  BY DEF ImportVcrWrite, ImportVcrClose, Commits, commandFrame, catalog, CommandKeeps, openVars
<1>1. PICK at : at = command[c].session
  OBVIOUS
<1>2. c \in Procs /\ Writing(c) /\ Target(c) = at
  BY <1>1, ProcAssumption DEF ImportVcrWrite, ImportVcrClose, Procs, Writing, Target
<1>3. at \in SessionIds /\ sessions[at].ended = FALSE /\ SessionRow(sessions[at])
  BY <1>2 DEF DataInv, WriterInv, TablesInv
<1>4. \A p \in Procs \ {c} : Writing(p) =>
          Target(p) \in SessionIds /\ Target(p) # at /\ sessions[Target(p)].ended = FALSE
  BY <1>2 DEF DataInv, WriterInv
<1>5. ASSUME NEW row, SessionRow(row), sessions' = [sessions EXCEPT ![at] = row],
             NEW cmd, "op" \in DOMAIN cmd, command' = [command EXCEPT ![c] = cmd],
             \/ cmd.op = "idle"
             \/ cmd.op = "vcr" /\ cmd.session = at /\ row.ended = FALSE
      PROVE  DataInv'
  <2>1. /\ Rows(sessions') /\ DOMAIN sessions' = SessionIds /\ sessions'[at] = row
        /\ \A id \in SessionIds \ {at} : sessions'[id] = sessions[id]
        /\ \A id \in DOMAIN sessions' : SessionRow(sessions'[id])
        /\ SessionsGrow
    BY <1>3, <1>5, UpdateSession DEF DataInv
  <2>2. DOMAIN command' = Clis /\ command'[c] = cmd /\ \A d \in Clis \ {c} : command'[d] = command[d]
    BY <1>5 DEF DataInv, TablesInv
  <2>3. /\ \A p \in Procs \ {c} : Writing(p) =>
              Target(p) \in DOMAIN sessions' /\ sessions'[Target(p)].ended = FALSE
        /\ cmd.op = "vcr" =>
              /\ cmd.session \in DOMAIN sessions' /\ sessions'[cmd.session].ended = FALSE
              /\ \A p \in Procs \ {c} : Writing(p) => Target(p) # cmd.session
    BY <1>3, <1>4, <1>5, <2>1
  <2>4. /\ Rows(baselines') /\ BaselinesGrow /\ OneApproved'
        /\ \A i \in DOMAIN baselines' :
              BaselineRow(baselines'[i]) /\ baselines'[i].session \in DOMAIN sessions'
        /\ \A i \in DOMAIN baselines' : baselines'[i].state # "candidate" =>
              /\ i \in DOMAIN baselines /\ baselines'[i].session = baselines[i].session
              /\ baselines[i].state # "candidate" \/ Trusted(baselines[i].session)
    BY <1>0, <2>1 DEF DataInv, TablesInv, BaselinesGrow, OneApproved
  <2>5. PromotionInv(c)'
    BY <1>5, <2>2 DEF PromotionInv
  <2> QED BY <1>0, <1>5, <2>1, <2>2, <2>3, <2>4, <2>5, CommandData
<1>6. CASE ImportVcrWrite(c)
  <2>1. PICK text, row, cmd :
           /\ row = [sessions[at] EXCEPT !.messages = text]
           /\ sessions' = [sessions EXCEPT ![at] = row]
           /\ cmd = [op |-> "vcr", stage |-> "close", session |-> at]
           /\ command' = [command EXCEPT ![c] = cmd]
    BY <1>1, <1>6 DEF ImportVcrWrite
  <2>2. SessionRow(row) /\ row.ended = FALSE
    BY <1>3, <2>1, UpdatedRow
  <2>3. "op" \in DOMAIN cmd /\ cmd.op = "vcr" /\ cmd.session = at
    BY <2>1
  <2> QED BY <1>0, <1>5, <2>1, <2>2, <2>3
<1>7. CASE ImportVcrClose(c)
  <2>1. PICK row : /\ row = Closed(sessions[at]) /\ sessions' = [sessions EXCEPT ![at] = row]
                   /\ command' = [command EXCEPT ![c] = Idle]
    BY <1>1, <1>7 DEF ImportVcrClose, Finish
  <2>2. SessionRow(row)
    BY <1>3, <2>1, UpdatedRow DEF Closed
  <2>3. "op" \in DOMAIN Idle /\ Idle.op = "idle"
    BY DEF Idle
  <2> QED BY <1>0, <1>5, <2>1, <2>2, <2>3
<1> QED BY <1>6, <1>7

-----------------------------------------------------------------------------
(* Baselines *)

\* What a step may do to the rows there are (the action of BaselineLifecycle).
Settled ==
    \A i \in DOMAIN baselines :
        \/ baselines'[i] = baselines[i]
        \/ baselines[i].state = "candidate" /\ baselines'[i].state = "approved"
        \/ /\ baselines[i].state = "approved" /\ baselines'[i].state \in {"superseded", "revoked"}
           /\ baselines'[i].digest = baselines[i].digest

\* A command changes baselines only, and the rows stay rows of their sessions.
LEMMA BaselineData ==
    ASSUME DataInv, NEW c \in Clis, UNCHANGED <<sessions, recording>>, snapshots' = {},
           \/ command' = command
           \/ command' = [command EXCEPT ![c] = Idle] /\ command[c].op = "promote",
           Rows(baselines'), BaselinesGrow, OneApproved',
           \A i \in DOMAIN baselines' :
               BaselineRow(baselines'[i]) /\ baselines'[i].session \in SessionIds,
           \A i \in DOMAIN baselines' : baselines'[i].state # "candidate" =>
               /\ i \in DOMAIN baselines /\ baselines'[i].session = baselines[i].session
               /\ baselines[i].state # "candidate" \/ Trusted(baselines[i].session)
    PROVE  DataInv'
<1>1. PICK cmd : cmd = command'[c]
  OBVIOUS
<1>2. Idle.op = "idle" /\ "op" \in DOMAIN Idle
  BY DEF Idle
<1>3. /\ DOMAIN command' = Clis /\ "op" \in DOMAIN cmd
      /\ \A d \in Clis \ {c} : command'[d] = command[d]
      /\ cmd = command[c] \/ cmd.op = "idle"
  BY <1>1, <1>2 DEF DataInv, TablesInv
<1>4. /\ Rows(sessions') /\ \A id \in DOMAIN sessions' : SessionRow(sessions'[id])
      /\ SessionsGrow
  BY DEF DataInv, TablesInv, SessionIds, SessionsGrow
<1>5. \A p \in Procs : Writing(p) => Target(p) \in DOMAIN sessions' /\ sessions'[Target(p)].ended = FALSE
  BY DEF DataInv, WriterInv, SessionIds
<1>6. cmd.op = "vcr" =>
          /\ cmd.session \in DOMAIN sessions' /\ sessions'[cmd.session].ended = FALSE
          /\ \A p \in Procs \ {c} : Writing(p) => Target(p) # cmd.session
  <2> SUFFICES ASSUME cmd.op = "vcr"
               PROVE  /\ cmd.session \in DOMAIN sessions' /\ sessions'[cmd.session].ended = FALSE
                      /\ \A p \in Procs \ {c} : Writing(p) => Target(p) # cmd.session
    OBVIOUS
  <2>1. cmd = command[c] /\ c \in Procs /\ c \notin Recorders
    BY <1>3, ProcAssumption DEF Procs
  <2>2. Writing(c) /\ Target(c) = cmd.session
    BY <2>1 DEF Writing, Target
  <2>3. \A p \in Procs \ {c} : Writing(p) => Target(p) # cmd.session
    BY <2>1, <2>2 DEF DataInv, WriterInv
  <2> QED BY <1>5, <2>1, <2>2, <2>3
<1>7. PromotionInv(c)' \/ (command'[c] = command[c] /\ (c \in snapshots' => c \in snapshots))
  BY <1>1, <1>3 DEF PromotionInv
<1>8. \A i \in DOMAIN baselines' :
          BaselineRow(baselines'[i]) /\ baselines'[i].session \in DOMAIN sessions'
  BY DEF SessionIds
<1>9. /\ recording' = recording /\ \A d \in Clis \ {c} : d \in snapshots' => d \in snapshots
      /\ \A p \in Procs \ {c} : Writing(p) =>
            Target(p) \in DOMAIN sessions' /\ sessions'[Target(p)].ended = FALSE
      /\ command'[c] = cmd
  BY <1>1, <1>5
<1>10. Rows(baselines') /\ BaselinesGrow /\ OneApproved'
  OBVIOUS
<1> QED
  BY ONLY DataInv, c \in Clis, <1>3, <1>4, <1>6, <1>7, <1>8, <1>9, <1>10, CommandData,
     \A i \in DOMAIN baselines' : baselines'[i].state # "candidate" =>
         /\ i \in DOMAIN baselines /\ baselines'[i].session = baselines[i].session
         /\ baselines[i].state # "candidate" \/ Trusted(baselines[i].session)

\* Setting the state, or the state and the digest, keeps the row a row.
LEMMA UpdatedBaseline ==
    ASSUME NEW b, BaselineRow(b), NEW x, NEW y, NEW new
    PROVE  /\ [b EXCEPT !.state = x] = [name |-> b.name, session |-> b.session, state |-> x, digest |-> b.digest]
           /\ new = [b EXCEPT !.state = x, !.digest = y]
                 => new = [name |-> b.name, session |-> b.session, state |-> x, digest |-> y]
<1>1. PICK n, s, z, d : b = [name |-> n, session |-> s, state |-> z, digest |-> d]
  BY DEF BaselineRow
<1>2. PICK t : t = [b EXCEPT !.state = x]
  OBVIOUS
<1>3. t = [name |-> n, session |-> s, state |-> x, digest |-> d]
  BY <1>1, <1>2
<1>4. [b EXCEPT !.state = x, !.digest = y] = [t EXCEPT !.digest = y]
  BY <1>2
<1>5. [t EXCEPT !.digest = y] = [name |-> n, session |-> s, state |-> x, digest |-> y]
  BY <1>3
<1> QED BY <1>1, <1>2, <1>3, <1>4, <1>5

LEMMA CandidateStep ==
    ASSUME DataInv, NEW c \in Clis, create_baseline_candidate(c)
    PROVE  DataInv' /\ CommandKeeps /\ Settled
<1>1. PICK name, id, row :
         /\ name \in Names /\ id \in SessionIds
         /\ row = [name |-> name, session |-> id, state |-> "candidate", digest |-> NoDocument]
         /\ baselines' = Append(baselines, row)
  BY DEF create_baseline_candidate
<1>2. /\ BaselineRow(row) /\ row.session = id /\ row.state = "candidate"
  BY <1>1 DEF BaselineRow
<1>3. CommandKeeps /\ UNCHANGED <<sessions, recording>> /\ snapshots' = {} /\ command' = command
  BY DEF create_baseline_candidate, Commits, commandFrame, catalog, CommandKeeps, openVars
<1>4. /\ Rows(baselines') /\ Len(baselines) \in Nat /\ DOMAIN baselines = 1..Len(baselines)
      /\ DOMAIN baselines' = 1..(Len(baselines) + 1)
      /\ \A i \in DOMAIN baselines : baselines'[i] = baselines[i]
      /\ baselines'[Len(baselines) + 1] = row
  BY <1>1, AppendRow DEF DataInv, TablesInv
<1>5. \A i \in DOMAIN baselines' : i \in DOMAIN baselines \/ baselines'[i] = row
  BY <1>4
<1>6. DOMAIN baselines \subseteq DOMAIN baselines'
  BY <1>4
<1>7. BaselinesGrow /\ Settled
  BY <1>4, <1>6 DEF BaselinesGrow, Settled
<1>8. OneApproved'
  <2> SUFFICES ASSUME NEW i \in DOMAIN baselines', NEW j \in DOMAIN baselines',
                      baselines'[i].name = baselines'[j].name, baselines'[i].state = "approved",
                      baselines'[j].state = "approved"
               PROVE  i = j
    BY DEF OneApproved
  <2>1. i \in DOMAIN baselines /\ j \in DOMAIN baselines
    BY <1>2, <1>5
  <2> QED BY <1>4, <2>1 DEF DataInv, OneApproved
<1>9. /\ \A i \in DOMAIN baselines' :
            BaselineRow(baselines'[i]) /\ baselines'[i].session \in SessionIds
      /\ \A i \in DOMAIN baselines' : baselines'[i].state # "candidate" =>
            /\ i \in DOMAIN baselines /\ baselines'[i].session = baselines[i].session
            /\ baselines[i].state # "candidate"
  <2> SUFFICES ASSUME NEW i \in DOMAIN baselines'
               PROVE  /\ BaselineRow(baselines'[i]) /\ baselines'[i].session \in SessionIds
                      /\ baselines'[i].state # "candidate" =>
                            /\ i \in DOMAIN baselines /\ baselines'[i].session = baselines[i].session
                            /\ baselines[i].state # "candidate"
    OBVIOUS
  <2>1. CASE i \in DOMAIN baselines
    BY <1>4, <2>1 DEF DataInv, TablesInv
  <2>2. CASE i \notin DOMAIN baselines
    BY <1>1, <1>2, <1>5, <2>2
  <2> QED BY <2>1, <2>2
<1> QED BY <1>3, <1>4, <1>7, <1>8, <1>9, BaselineData

LEMMA RevokeStep ==
    ASSUME DataInv, NEW c \in Clis, revoke_baseline(c)
    PROVE  DataInv' /\ CommandKeeps /\ Settled
<1>1. PICK name \in Names :
         baselines' = [i \in DOMAIN baselines |->
             IF baselines[i].name = name /\ baselines[i].state = "approved"
             THEN [baselines[i] EXCEPT !.state = "revoked"] ELSE baselines[i]]
  BY DEF revoke_baseline
<1>2. CommandKeeps /\ UNCHANGED <<sessions, recording>> /\ snapshots' = {} /\ command' = command
  BY DEF revoke_baseline, Commits, commandFrame, catalog, CommandKeeps, openVars
<1>3. baselines' = [i \in DOMAIN baselines |-> baselines'[i]]
  BY <1>1
<1>4. Rows(baselines') /\ DOMAIN baselines' = DOMAIN baselines
  BY <1>3, SameRows DEF DataInv, TablesInv
<1>5. ASSUME NEW i \in DOMAIN baselines
      PROVE  /\ BaselineRow(baselines'[i])
             /\ baselines'[i].name = baselines[i].name /\ baselines'[i].session = baselines[i].session
             /\ baselines'[i].digest = baselines[i].digest
             /\ \/ baselines'[i] = baselines[i]
                \/ baselines[i].state = "approved" /\ baselines'[i].state = "revoked"
  <2>1. BaselineRow(baselines[i])
    BY DEF DataInv, TablesInv
  <2>2. CASE baselines[i].name = name /\ baselines[i].state = "approved"
    <3>1. baselines'[i] = [baselines[i] EXCEPT !.state = "revoked"]
      BY <1>1, <2>2
    <3>2. baselines'[i] = [name |-> baselines[i].name, session |-> baselines[i].session,
                           state |-> "revoked", digest |-> baselines[i].digest]
      BY <2>1, <3>1, UpdatedBaseline
    <3> QED BY <2>2, <3>2 DEF BaselineRow
  <2>3. CASE ~(baselines[i].name = name /\ baselines[i].state = "approved")
    <3>1. baselines'[i] = baselines[i]
      BY <1>1, <2>3
    <3> QED BY <2>1, <3>1
  <2> QED BY <2>2, <2>3
<1>6. BaselinesGrow /\ Settled
  BY <1>2, <1>4, <1>5 DEF BaselinesGrow, Settled
<1>7. OneApproved'
  BY <1>4, <1>5 DEF DataInv, OneApproved
<1>8. /\ \A i \in DOMAIN baselines' :
            BaselineRow(baselines'[i]) /\ baselines'[i].session \in SessionIds
      /\ \A i \in DOMAIN baselines' : baselines'[i].state # "candidate" =>
            /\ i \in DOMAIN baselines /\ baselines'[i].session = baselines[i].session
            /\ baselines[i].state # "candidate"
  BY <1>4, <1>5 DEF DataInv, TablesInv
<1> QED BY <1>2, <1>4, <1>6, <1>7, <1>8, BaselineData

\* The promotion writes only while its read transaction is current: the row it
\* selected is still a candidate, and its session is a complete capture.
LEMMA PromoteStep ==
    ASSUME DataInv, NEW c \in Clis, promote_baseline(c)
    PROVE  DataInv' /\ CommandKeeps /\ Settled
<1>1. /\ CommandKeeps /\ UNCHANGED <<sessions, recording>>
      /\ command' = [command EXCEPT ![c] = Idle] /\ command[c].op = "promote"
  BY DEF promote_baseline, Finish, commandFrame, catalog, CommandKeeps, openVars
<1>2. CASE UNCHANGED <<baselines, snapshots>>
  <2>1. "op" \in DOMAIN Idle /\ Idle.op = "idle"
    BY DEF Idle
  <2>2. DataInv'
    BY <1>1, <1>2, <2>1, OtherCommand
  <2>3. Settled
    BY <1>2 DEF Settled
  <2> QED BY <1>1, <2>2, <2>3
<1>3. CASE baselines' = Promoted(command[c]) /\ CurrentSnapshot(c) /\ Commits
  <2>1. PICK cmd, digest : cmd = command[c] /\ digest = CanonicalDigest(cmd.doc)
    OBVIOUS
  <2>2. /\ cmd.row \in DOMAIN baselines /\ Trusted(cmd.session)
        /\ baselines[cmd.row].name = cmd.name /\ baselines[cmd.row].session = cmd.session
        /\ baselines[cmd.row].state = "candidate"
    BY <1>3, <2>1 DEF promote_baseline, CurrentSnapshot, DataInv, PromotionInv
  <2>3. baselines' = [i \in DOMAIN baselines |->
            IF i = cmd.row THEN [baselines[i] EXCEPT !.state = "approved", !.digest = digest]
            ELSE IF baselines[i].name = cmd.name /\ baselines[i].state = "approved"
            THEN [baselines[i] EXCEPT !.state = "superseded"]
            ELSE baselines[i]]
    BY <1>3, <2>1 DEF Promoted
  <2>4. Rows(baselines') /\ DOMAIN baselines' = DOMAIN baselines
    <3>1. baselines' = [i \in DOMAIN baselines |-> baselines'[i]]
      BY <2>3
    <3> QED BY <3>1, SameRows DEF DataInv, TablesInv
  <2>5. \A i \in DOMAIN baselines : BaselineRow(baselines[i]) /\ baselines[i].session \in SessionIds
    BY DEF DataInv, TablesInv
  <2>6. baselines'[cmd.row] = [name |-> cmd.name, session |-> cmd.session, state |-> "approved",
                               digest |-> digest]
    <3>1. PICK old, new : old = baselines[cmd.row] /\ new = baselines'[cmd.row]
      OBVIOUS
    <3>2. new = [old EXCEPT !.state = "approved", !.digest = digest]
      BY <2>2, <2>3, <3>1
    <3>3. BaselineRow(old) /\ old.name = cmd.name /\ old.session = cmd.session
      BY <2>2, <2>5, <3>1
    <3>4. new = [name |-> old.name, session |-> old.session, state |-> "approved", digest |-> digest]
      BY <3>2, <3>3, UpdatedBaseline
    <3> QED BY <3>1, <3>3, <3>4
  <2>7. ASSUME NEW i \in DOMAIN baselines, i # cmd.row
        PROVE  /\ BaselineRow(baselines'[i])
               /\ baselines'[i].name = baselines[i].name /\ baselines'[i].session = baselines[i].session
               /\ baselines'[i].digest = baselines[i].digest
               /\ \/ baselines'[i] = baselines[i] /\ ~(baselines[i].name = cmd.name /\ baselines[i].state = "approved")
                  \/ baselines[i].state = "approved" /\ baselines'[i].state = "superseded"
    <3>1. CASE baselines[i].name = cmd.name /\ baselines[i].state = "approved"
      <4>1. baselines'[i] = [baselines[i] EXCEPT !.state = "superseded"]
        BY <2>3, <2>7, <3>1
      <4>2. baselines'[i] = [name |-> baselines[i].name, session |-> baselines[i].session,
                             state |-> "superseded", digest |-> baselines[i].digest]
        BY <2>5, <4>1, UpdatedBaseline
      <4> QED BY <3>1, <4>2 DEF BaselineRow
    <3>2. CASE ~(baselines[i].name = cmd.name /\ baselines[i].state = "approved")
      <4>1. baselines'[i] = baselines[i]
        BY <2>3, <2>7, <3>2
      <4>2. BaselineRow(baselines'[i])
        BY <2>5, <4>1
      <4> QED BY ONLY <3>2, <4>1, <4>2, Zenon
    <3> QED BY <3>1, <3>2
  <2>8. BaselineRow(baselines'[cmd.row]) /\ baselines'[cmd.row].name = cmd.name
        /\ baselines'[cmd.row].session = cmd.session /\ baselines'[cmd.row].state = "approved"
    BY <2>6 DEF BaselineRow
  <2>9. snapshots' = {}
    BY <1>3 DEF Commits
  <2>10. BaselinesGrow
    BY <2>2, <2>4, <2>7, <2>8, <2>9 DEF BaselinesGrow
  <2>11. Settled
    BY <2>2, <2>7, <2>8 DEF Settled
  <2>12. OneApproved'
    <3> SUFFICES ASSUME NEW i \in DOMAIN baselines, NEW j \in DOMAIN baselines,
                        baselines'[i].name = baselines'[j].name, baselines'[i].state = "approved",
                        baselines'[j].state = "approved"
                 PROVE  i = j
      BY <2>4 DEF OneApproved
    <3>1. CASE i = cmd.row /\ j # cmd.row
      BY <2>7, <2>8, <3>1
    <3>2. CASE i # cmd.row /\ j = cmd.row
      BY <2>7, <2>8, <3>2
    <3>3. CASE i # cmd.row /\ j # cmd.row
      BY <2>7, <3>3 DEF DataInv, OneApproved
    <3> QED BY <3>1, <3>2, <3>3
  <2>13. ASSUME NEW i \in DOMAIN baselines'
         PROVE  /\ BaselineRow(baselines'[i]) /\ baselines'[i].session \in SessionIds
                /\ baselines'[i].state # "candidate" =>
                      /\ i \in DOMAIN baselines /\ baselines'[i].session = baselines[i].session
                      /\ baselines[i].state # "candidate" \/ Trusted(baselines[i].session)
    <3>1. CASE i = cmd.row
      BY <2>2, <2>5, <2>8, <3>1
    <3>2. CASE i # cmd.row
      BY <2>4, <2>5, <2>7, <3>2
    <3> QED BY <3>1, <3>2
  <2>14. DataInv'
    BY <1>1, <2>4, <2>9, <2>10, <2>12, <2>13, BaselineData
  <2> QED BY <1>1, <2>11, <2>14
<1> QED BY <1>2, <1>3 DEF promote_baseline

LEMMA CommandStepData ==
    ASSUME DataInv, NEW c \in Clis, CommandStep(c) \/ IndexStep(c)
    PROVE  DataInv' /\ UNCHANGED openVars /\ Settled
<1>1. UNCHANGED baselines => Settled
  BY DEF Settled
<1> QED
  BY <1>1, ExportSteps, CheckSteps, ReadSteps, InsertSteps, VcrSteps, CandidateStep, RevokeStep, PromoteStep
  DEF CommandStep, CommandKeeps

-----------------------------------------------------------------------------
(* Opening, and processes that die *)

LEMMA OpenStepData ==
    ASSUME DataInv, NEW p \in Procs, OpenStep(p)
    PROVE  DataInv' /\ Settled
<1>1. UNCHANGED data
  BY DEF OpenStep, Bootstrap, BeginMigration, ApplyMigration, CommitMigration, GiveUpOpening
<1>2. UNCHANGED <<sessions, baselines, recording, command, snapshots>>
  BY <1>1 DEF data
<1>3. \A q : Writing(q)' = Writing(q) /\ Target(q)' = Target(q)
  BY <1>2 DEF Writing, Target
<1>4. \A id : Summary(id)' = Summary(id) /\ Trusted(id)' = Trusted(id)
  BY <1>2 DEF Summary, Trusted
<1>5. TablesInv' /\ WriterInv'
  BY <1>2, <1>3 DEF DataInv, TablesInv, WriterInv, SessionIds
<1>6. ASSUME NEW c \in Clis PROVE PromotionInv(c)'
  BY <1>2, <1>4 DEF DataInv, PromotionInv, SessionIds
<1>7. OneApproved' /\ ApprovedIsComplete' /\ Settled
  BY <1>2 DEF DataInv, OneApproved, ApprovedIsComplete, Settled, Summary
<1> QED BY <1>5, <1>6, <1>7 DEF DataInv

\* Death ends writing, and starts none.
LEMMA CrashedWriters ==
    ASSUME DataInv, NEW p \in Procs, Crash(p), NEW q \in Procs, Writing(q)'
    PROVE  Writing(q) /\ Target(q)' = Target(q)
<1>1. /\ command' = [c \in Clis |-> IF c = p THEN Idle ELSE command[c]]
      /\ recording' = [r \in Recorders |-> IF r = p /\ recording[r].phase # "new"
                                           THEN [recording[r] EXCEPT !.phase = "ended"] ELSE recording[r]]
  BY DEF Crash
<1>2. Idle.op = "idle"
  BY DEF Idle
<1>3. CASE q \in Recorders
  <2>1. recording[q] \in Recording
    BY <1>3 DEF DataInv, TablesInv, Recording
  <2>2. ~(q = p /\ recording[q].phase # "new")
    BY <1>1, <1>3, <2>1 DEF Writing, Recording
  <2>3. recording'[q] = recording[q]
    BY <1>1, <1>3, <2>2
  <2> QED BY <1>3, <2>3 DEF Writing, Target
<1>4. CASE q \notin Recorders
  <2>1. q \in Clis /\ q # p
    BY <1>1, <1>2, <1>4 DEF Procs, Writing
  <2> QED BY <1>1, <1>4, <2>1 DEF Writing, Target
<1> QED BY <1>3, <1>4

LEMMA CrashData ==
    ASSUME DataInv, NEW p \in Procs, Crash(p)
    PROVE  DataInv' /\ Settled
<1>1. /\ UNCHANGED <<sessions, baselines>> /\ snapshots' = snapshots \ {p}
      /\ command' = [c \in Clis |-> IF c = p THEN Idle ELSE command[c]]
      /\ recording' = [r \in Recorders |-> IF r = p /\ recording[r].phase # "new"
                                           THEN [recording[r] EXCEPT !.phase = "ended"] ELSE recording[r]]
  BY DEF Crash
<1>2. Idle.op = "idle" /\ "op" \in DOMAIN Idle
  BY DEF Idle
<1>3. recording' \in [Recorders -> Recording]
  <2>1. recording \in [Recorders -> Recording]
    BY DEF DataInv, TablesInv, Recording
  <2>2. ASSUME NEW r \in Recorders PROVE [recording[r] EXCEPT !.phase = "ended"] \in Recording
    BY <2>1 DEF Recording
  <2> QED BY <1>1, <2>1, <2>2
<1>4. TablesInv'
  <2>1. DOMAIN command' = Clis /\ \A c \in Clis : "op" \in DOMAIN command'[c]
    BY <1>1, <1>2 DEF DataInv, TablesInv
  <2> QED BY <1>1, <1>3, <2>1 DEF DataInv, TablesInv, SessionIds, Recording
<1>5. \A q \in Procs : Writing(q)' => Writing(q) /\ Target(q)' = Target(q)
  BY CrashedWriters
<1>6. WriterInv'
  BY <1>1, <1>5 DEF DataInv, WriterInv, SessionIds
<1>7. SessionsGrow /\ BaselinesGrow /\ Settled /\ OneApproved'
  BY <1>1 DEF SessionsGrow, BaselinesGrow, Settled, DataInv, OneApproved, SessionIds
<1>8. ASSUME NEW c \in Clis
      PROVE  PromotionInv(c)' \/ (command'[c] = command[c] /\ (c \in snapshots' => c \in snapshots))
  <2>1. CASE c = p
    <3>1. command'[c] = Idle
      BY <1>1, <2>1
    <3> QED BY <1>2, <3>1 DEF PromotionInv
  <2>2. CASE c # p
    BY <1>1, <2>2
  <2> QED BY <2>1, <2>2
<1>9. \A i \in DOMAIN baselines' : baselines'[i].state # "candidate" =>
          /\ i \in DOMAIN baselines /\ baselines'[i].session = baselines[i].session
          /\ baselines[i].state # "candidate" \/ Trusted(baselines[i].session)
  BY <1>1
<1> QED BY <1>4, <1>6, <1>7, <1>8, <1>9, DataStep

-----------------------------------------------------------------------------
(* What a copied session is built with *)

\* The sum over one or two sources, as the fold computes it.
LEMMA TotalOfOne ==
    ASSUME NEW d \in Int
    PROVE  Total(<<d>>) = d
<1> DEFINE counts == <<d>>
<1> DEFINE step(it) == [s \in SUBSET DOMAIN counts |->
                           IF s = {} THEN 0 ELSE it[s \ {Max(s)}] + counts[Max(s)]]
<1> DEFINE fold == CHOOSE it : it = step(it)
<1>1. Total(<<d>>) = fold[DOMAIN counts]
  BY DEF Total, FoldLeft, MapThenFoldSet
<1>2. /\ DOMAIN counts = {1} /\ counts[1] = d /\ Max({1}) = 1
      /\ SUBSET DOMAIN counts = {{}, {1}} /\ {1} \ {1} = {} /\ {1} # {}
  BY DEF Max
<1> HIDE DEF counts
<1>3. DOMAIN counts = {1} /\ 0 + d = d
  BY <1>2
<1>4. \E it : it = step(it)
  <2>1. PICK g : g = [s \in SUBSET DOMAIN counts |-> IF s = {} THEN 0 ELSE d]
    OBVIOUS
  <2>2. g[{}] = 0 /\ g[{1}] = d
    BY <1>2, <2>1
  <2>3. ASSUME NEW s \in SUBSET DOMAIN counts
        PROVE  g[s] = IF s = {} THEN 0 ELSE g[s \ {Max(s)}] + counts[Max(s)]
    <3>1. CASE s = {}
      BY <2>2, <3>1
    <3>2. CASE s = {1}
      BY <1>2, <2>2, <3>2
    <3> QED BY <1>2, <3>1, <3>2
  <2>4. g = step(g)
    BY <2>1, <2>3
  <2> QED BY <2>4
<1>5. fold = step(fold)
  BY <1>4
<1> HIDE DEF fold
<1>6. \A s \in SUBSET DOMAIN counts :
          fold[s] = IF s = {} THEN 0 ELSE fold[s \ {Max(s)}] + counts[Max(s)]
  BY <1>5
<1>7. fold[{}] = 0
  BY <1>2, <1>6
<1>8. fold[{1}] = 0 + d
  <2>1. fold[{1}] = fold[{1} \ {Max({1})}] + counts[Max({1})]
    BY <1>2, <1>6
  <2> QED BY <1>2, <1>7, <2>1
<1> QED BY <1>1, <1>3, <1>8

LEMMA TotalOfTwo ==
    ASSUME NEW d \in Int, NEW e \in Int
    PROVE  Total(<<d, e>>) = d + e
<1> DEFINE counts == <<d, e>>
<1> DEFINE step(it) == [s \in SUBSET DOMAIN counts |->
                           IF s = {} THEN 0 ELSE it[s \ {Max(s)}] + counts[Max(s)]]
<1> DEFINE fold == CHOOSE it : it = step(it)
<1>1. Total(<<d, e>>) = fold[DOMAIN counts]
  BY DEF Total, FoldLeft, MapThenFoldSet
<1>2. /\ DOMAIN counts = {1, 2} /\ counts[1] = d /\ counts[2] = e
      /\ Max({1}) = 1 /\ Max({2}) = 2 /\ Max({1, 2}) = 2
      /\ {1} \ {1} = {} /\ {2} \ {2} = {} /\ {1, 2} \ {2} = {1}
      /\ {1} # {} /\ {2} # {} /\ {1, 2} # {} /\ {1} # {2} /\ {1} # {1, 2} /\ {2} # {1, 2}
  BY DEF Max
<1>3. \A s \in SUBSET DOMAIN counts : s \in {{}, {1}, {2}, {1, 2}}
  BY <1>2
<1>4. {{}, {1}, {2}, {1, 2}} \subseteq SUBSET DOMAIN counts
  BY <1>2
<1> HIDE DEF counts
<1>5. \E it : it = step(it)
  <2>1. PICK g : g = [s \in SUBSET DOMAIN counts |->
                         IF s = {} THEN 0 ELSE IF s = {1} THEN d ELSE IF s = {2} THEN e ELSE d + e]
    OBVIOUS
  <2>2. g[{}] = 0 /\ g[{1}] = d /\ g[{2}] = e /\ g[{1, 2}] = d + e
    <3> HIDE <1>3
    <3> QED BY <1>2, <1>4, <2>1
  <2>3. ASSUME NEW s \in SUBSET DOMAIN counts
        PROVE  g[s] = IF s = {} THEN 0 ELSE g[s \ {Max(s)}] + counts[Max(s)]
    <3>1. CASE s = {}
      BY <2>2, <3>1
    <3>2. CASE s = {1}
      BY <1>2, <2>2, <3>2
    <3>3. CASE s = {2}
      BY <1>2, <2>2, <3>3
    <3>4. CASE s = {1, 2}
      BY <1>2, <2>2, <3>4
    <3> QED BY <1>3, <3>1, <3>2, <3>3, <3>4
  <2>4. g = step(g)
    BY <2>1, <2>3
  <2> QED BY <2>4
<1>6. fold = step(fold)
  BY <1>5
<1> HIDE DEF fold
<1>7. \A s \in SUBSET DOMAIN counts :
          fold[s] = IF s = {} THEN 0 ELSE fold[s \ {Max(s)}] + counts[Max(s)]
  BY <1>6
<1>8. fold[{}] = 0
  BY <1>4, <1>7
<1>9. fold[{1}] = 0 + d
  <2>1. fold[{1}] = fold[{1} \ {Max({1})}] + counts[Max({1})]
    BY <1>2, <1>4, <1>7
  <2> QED BY <1>2, <1>8, <2>1
<1>10. fold[{1, 2}] = (0 + d) + e
  <2>1. fold[{1, 2}] = fold[{1, 2} \ {Max({1, 2})}] + counts[Max({1, 2})]
    BY <1>2, <1>4, <1>7
  <2> QED BY <1>2, <1>9, <2>1
<1>11. DOMAIN counts = {1, 2} /\ (0 + d) + e = d + e
  BY <1>2
<1> QED BY <1>1, <1>10, <1>11

\* The messages of one or two sources in a row.
LEMMA FlatOfOne ==
    ASSUME NEW m
    PROVE  FlattenSeq(<<m>>) = m
<1> DEFINE seqs == <<m>>
<1> DEFINE step(f) == [i \in 1..Len(seqs) |-> IF i = 1 THEN seqs[i] ELSE f[i-1] \o seqs[i]]
<1> DEFINE flatten == CHOOSE f : f = step(f)
<1>1. Len(seqs) = 1 /\ 1..1 = {1} /\ seqs[1] = m
  OBVIOUS
<1>2. \E f : f = step(f)
  <2>1. PICK g : g = [i \in 1..Len(seqs) |-> m]
    OBVIOUS
  <2>2. g = step(g)
    BY <1>1, <2>1
  <2> QED BY <2>2
<1>3. flatten = step(flatten)
  BY <1>2
<1>4. FlattenSeq(seqs) = IF Len(seqs) = 0 THEN seqs ELSE flatten[Len(seqs)]
  BY DEF FlattenSeq
<1> HIDE DEF flatten
<1>5. flatten[1] = m
  BY <1>1, <1>3
<1> QED BY <1>1, <1>4, <1>5

\* Neither masking nor numbering anew changes what a message says.
LEMMA SameContent ==
    ASSUME NEW messages, NEW policy
    PROVE  /\ Content(Redacted(messages, policy)) = Content(messages)
           /\ Content(Renumbered(messages)) = Content(messages)
<1>1. ASSUME NEW m, NEW x
      PROVE  /\ [[m EXCEPT !.bare = x] EXCEPT !.seq = 0, !.bare = {}] = [m EXCEPT !.seq = 0, !.bare = {}]
             /\ [[m EXCEPT !.seq = x] EXCEPT !.seq = 0, !.bare = {}] = [m EXCEPT !.seq = 0, !.bare = {}]
  OBVIOUS
<1>2. PICK masked, numbered : masked = Redacted(messages, policy) /\ numbered = Renumbered(messages)
  OBVIOUS
<1>3. /\ DOMAIN masked = DOMAIN messages /\ DOMAIN numbered = DOMAIN messages
      /\ \A i \in DOMAIN messages :
            masked[i] = messages[i] \/ \E x : masked[i] = [messages[i] EXCEPT !.bare = x]
      /\ \A i \in DOMAIN messages : \E x : numbered[i] = [messages[i] EXCEPT !.seq = x]
  BY <1>2 DEF Redacted, RedactMessage, Renumbered
<1>4. \A i \in DOMAIN messages :
          /\ [masked[i] EXCEPT !.seq = 0, !.bare = {}] = [messages[i] EXCEPT !.seq = 0, !.bare = {}]
          /\ [numbered[i] EXCEPT !.seq = 0, !.bare = {}] = [messages[i] EXCEPT !.seq = 0, !.bare = {}]
  BY <1>1, <1>3
<1> QED BY <1>2, <1>3, <1>4 DEF Content

\* A session that was recorded here or imported from a cassette.
Original(s) == s.origin.kind \in {"record", "vcr"}

\* A closed copy names stored sessions and holds what they hold.
CopyRow(s) ==
    /\ s.dropped \in Int
    /\ ClosedCopy(s) => /\ \A i \in DOMAIN s.origin.of : s.origin.of[i] \in SessionIds
                        /\ WholeCopy(s)

\* Only originals are written to.
OriginalsInv == \A p \in Procs : Writing(p) => Original(sessions[Target(p)])

\* A summary that says ended, and messages read after it, are still true.
SummaryRead(summary, id) ==
    /\ summary.dropped \in Int
    /\ summary.ended => summary = Summary(id)

SourceRead(summary, messages, id) ==
    /\ SummaryRead(summary, id)
    /\ summary.ended => messages = sessions[id].messages

\* So is a document that says its session has ended.
DocWhole(doc, id) ==
    /\ doc.dropped \in Int
    /\ doc.ended => /\ sessions[id].ended /\ doc.dropped = sessions[id].dropped
                    /\ Content(doc.messages) = Content(sessions[id].messages)

ArtifactInv ==
    artifact # NoDocument => artifact.of \in SessionIds /\ DocWhole(artifact.doc, artifact.of)

ExportInv(c) ==
    LET cmd == command[c]
    IN  cmd.op = "export" =>
           /\ cmd.session \in SessionIds
           /\ cmd.stage = "messages" => SummaryRead(cmd.summary, cmd.session)
           /\ cmd.stage = "publish" => DocWhole(cmd.doc, cmd.session)

MergeCommand(ids, stage, summaries, messages) ==
    [op |-> "merge", of |-> ids, stage |-> stage, summaries |-> summaries, messages |-> messages]

\* How far a merge of two sessions has come.
MergeOf(cmd, a, b) ==
    \/ cmd = MergeCommand(<<a, b>>, "summary", <<>>, <<>>)
    \/ \E s : SummaryRead(s, a) /\ cmd = MergeCommand(<<a, b>>, "messages", <<s>>, <<>>)
    \/ \E s, m : SourceRead(s, m, a) /\ cmd = MergeCommand(<<a, b>>, "summary", <<s>>, <<m>>)
    \/ \E s, m, t : /\ SourceRead(s, m, a) /\ SummaryRead(t, b)
                    /\ cmd = MergeCommand(<<a, b>>, "messages", <<s, t>>, <<m>>)
    \/ \E s, m, t, n : /\ SourceRead(s, m, a) /\ SourceRead(t, n, b)
                       /\ cmd = MergeCommand(<<a, b>>, "insert", <<s, t>>, <<m, n>>)

MergeInv(c) ==
    command[c].op = "merge" => \E a, b \in SessionIds : MergeOf(command[c], a, b)

CopyInv ==
    /\ \A id \in SessionIds : CopyRow(sessions[id])
    /\ OriginalsInv /\ ArtifactInv
    /\ \A c \in Clis : ExportInv(c) /\ MergeInv(c)

\* What a step may do to the sessions: insert one, or change one that is open
\* and no copy.
Inserts(row) == SessionRow(row) /\ Insert(row) /\ CopyRow(row)

Changes(at, row) ==
    /\ at \in SessionIds /\ sessions[at].ended = FALSE /\ Original(sessions[at])
    /\ SessionRow(row) /\ row.origin = sessions[at].origin /\ row.dropped \in Int
    /\ sessions' = [sessions EXCEPT ![at] = row]

SessionEffect == sessions' = sessions \/ (\E row : Inserts(row)) \/ (\E at, row : Changes(at, row))

OriginsKept == \A id \in SessionIds : sessions'[id].origin = sessions[id].origin

\* Finished sources do not change, so neither does what a copy took from them.
LEMMA CopyStaysWhole ==
    ASSUME SessionsGrow, NEW s, CopyRow(s)
    PROVE  CopyRow(s)'
<1> SUFFICES ASSUME ClosedCopy(s)
             PROVE  (\A i \in DOMAIN s.origin.of : s.origin.of[i] \in SessionIds)' /\ WholeCopy(s)'
  BY Zenon DEF CopyRow, ClosedCopy
<1>1. WholeCopy(s) /\ \A i \in DOMAIN s.origin.of : s.origin.of[i] \in SessionIds
  BY DEF CopyRow
<1>2. \A i \in DOMAIN s.origin.of : sessions[s.origin.of[i]].ended
  BY <1>1 DEF WholeCopy, Sources
<1>3. \A i \in DOMAIN s.origin.of :
          s.origin.of[i] \in DOMAIN sessions' /\ sessions'[s.origin.of[i]] = sessions[s.origin.of[i]]
  BY <1>1, <1>2 DEF SessionsGrow
<1>4. Sources(s)' = Sources(s)
  BY <1>3 DEF Sources
<1>5. WholeCopy(s)'
  BY <1>1, <1>4 DEF WholeCopy
<1> QED BY <1>3, <1>5 DEF SessionIds

LEMMA EffectKeeps ==
    ASSUME TablesInv, \A id \in SessionIds : CopyRow(sessions[id]), SessionEffect
    PROVE  /\ SessionsGrow /\ OriginsKept
           /\ (\A id \in SessionIds : CopyRow(sessions[id]))'
<1>1. CASE sessions' = sessions
  <2>1. SessionsGrow /\ OriginsKept
    BY <1>1 DEF SessionsGrow, OriginsKept, SessionIds
  <2>2. ASSUME NEW id \in SessionIds PROVE CopyRow(sessions[id])'
    <3>1. CopyRow(sessions[id])
      OBVIOUS
    <3>2. PICK s : s = sessions[id]
      OBVIOUS
    <3>3. CopyRow(s)'
      BY <2>1, <3>1, <3>2, CopyStaysWhole
    <3> QED BY <1>1, <3>2, <3>3
  <2> QED BY <1>1, <2>1, <2>2 DEF SessionIds
<1>2. ASSUME NEW row, Inserts(row)
      PROVE  SessionsGrow /\ OriginsKept /\ (\A id \in SessionIds : CopyRow(sessions[id]))'
  <2>1. /\ DOMAIN sessions' = SessionIds \cup {Len(sessions) + 1}
        /\ \A id \in SessionIds : sessions'[id] = sessions[id]
        /\ sessions'[Len(sessions) + 1] = row
        /\ SessionsGrow
    BY <1>2, InsertSession DEF Inserts
  <2>2. OriginsKept
    BY <2>1 DEF OriginsKept
  <2>3. ASSUME NEW id \in DOMAIN sessions', NEW s, s = sessions'[id] PROVE CopyRow(s)'
    <3>1. s = row \/ \E old \in SessionIds : s = sessions[old]
      BY <2>1, <2>3
    <3>2. CopyRow(s)
      BY <1>2, <3>1 DEF Inserts
    <3> QED BY <2>1, <3>2, CopyStaysWhole
  <2> QED BY <2>1, <2>2, <2>3 DEF SessionIds
<1>3. ASSUME NEW at, NEW row, Changes(at, row)
      PROVE  SessionsGrow /\ OriginsKept /\ (\A id \in SessionIds : CopyRow(sessions[id]))'
  <2>1. /\ DOMAIN sessions' = SessionIds /\ sessions'[at] = row
        /\ \A id \in SessionIds \ {at} : sessions'[id] = sessions[id]
        /\ SessionsGrow
    BY <1>3, UpdateSession DEF Changes
  <2>2. OriginsKept
    BY <1>3, <2>1 DEF OriginsKept, Changes
  <2>3. CopyRow(row)
    BY <1>3 DEF Changes, CopyRow, ClosedCopy, Original
  <2>4. ASSUME NEW id \in DOMAIN sessions', NEW s, s = sessions'[id] PROVE CopyRow(s)'
    <3>1. s = row \/ \E old \in SessionIds : s = sessions[old]
      BY <2>1, <2>4
    <3>2. CopyRow(s)
      BY <2>3, <3>1
    <3> QED BY <2>1, <3>2, CopyStaysWhole
  <2> QED BY <2>1, <2>2, <2>4 DEF SessionIds
<1> QED BY <1>1, <1>2, <1>3 DEF SessionEffect

\* What was read of a session that had ended stays true.
LEMMA ReadsStayTrue ==
    ASSUME SessionsGrow, NEW id \in SessionIds
    PROVE  /\ id \in SessionIds'
           /\ \A s : SummaryRead(s, id) => SummaryRead(s, id)'
           /\ \A s, m : SourceRead(s, m, id) => SourceRead(s, m, id)'
           /\ \A d : DocWhole(d, id) => DocWhole(d, id)'
<1>1. id \in DOMAIN sessions' /\ (sessions[id].ended => sessions'[id] = sessions[id])
  BY DEF SessionsGrow
<1>2. Summary(id).ended => sessions[id].ended
  BY DEF Summary
<1>3. sessions[id].ended => Summary(id)' = Summary(id)
  BY <1>1 DEF Summary
<1>4. \A s : SummaryRead(s, id) => SummaryRead(s, id)' /\ (s.ended => sessions'[id] = sessions[id])
  BY <1>1, <1>2, <1>3 DEF SummaryRead
<1>5. \A s, m : SourceRead(s, m, id) => SourceRead(s, m, id)'
  BY <1>4 DEF SourceRead
<1>6. \A d : DocWhole(d, id) => DocWhole(d, id)'
  BY <1>1 DEF DocWhole
<1> QED BY <1>1, <1>4, <1>5, <1>6 DEF SessionIds

LEMMA MergeStaysTrue ==
    ASSUME SessionsGrow, NEW a \in SessionIds, NEW b \in SessionIds, NEW cmd, MergeOf(cmd, a, b)
    PROVE  MergeOf(cmd, a, b)'
<1>1. /\ \A s : SummaryRead(s, a) => SummaryRead(s, a)'
      /\ \A s, m : SourceRead(s, m, a) => SourceRead(s, m, a)'
      /\ \A s : SummaryRead(s, b) => SummaryRead(s, b)'
      /\ \A s, m : SourceRead(s, m, b) => SourceRead(s, m, b)'
  BY ReadsStayTrue
<1> QED BY <1>1, Zenon DEF MergeOf

LEMMA CommandsKept ==
    ASSUME SessionsGrow, NEW c \in Clis, ExportInv(c), MergeInv(c), command'[c] = command[c]
    PROVE  ExportInv(c)' /\ MergeInv(c)'
<1>1. PICK cmd : cmd = command[c]
  OBVIOUS
<1>2. ASSUME cmd.op = "export"
      PROVE  /\ cmd.session \in SessionIds'
             /\ cmd.stage = "messages" => SummaryRead(cmd.summary, cmd.session)'
             /\ cmd.stage = "publish" => DocWhole(cmd.doc, cmd.session)'
  <2>1. /\ cmd.session \in SessionIds
        /\ cmd.stage = "messages" => SummaryRead(cmd.summary, cmd.session)
        /\ cmd.stage = "publish" => DocWhole(cmd.doc, cmd.session)
    BY <1>1, <1>2 DEF ExportInv
  <2> QED BY <2>1, ReadsStayTrue
<1>3. ASSUME cmd.op = "merge" PROVE (\E a, b \in SessionIds : MergeOf(cmd, a, b))'
  <2>1. PICK a \in SessionIds, b \in SessionIds : MergeOf(cmd, a, b)
    BY <1>1, <1>3 DEF MergeInv
  <2>2. a \in SessionIds' /\ b \in SessionIds' /\ MergeOf(cmd, a, b)'
    BY <2>1, ReadsStayTrue, MergeStaysTrue
  <2> QED BY <2>2
<1>4. command'[c] = cmd
  BY <1>1
<1> QED BY <1>2, <1>3, <1>4 DEF ExportInv, MergeInv

\* A step keeps the copies whole when its effect on the sessions is one of the
\* three, it starts to write to originals only, and what it reads or publishes
\* is true.
LEMMA CopyStep ==
    ASSUME DataInv, CopyInv, SessionEffect,
           \A p \in Procs : Writing(p)' =>
               (Writing(p) /\ Target(p)' = Target(p)) \/ Original(sessions'[Target(p)']),
           UNCHANGED artifact \/ ArtifactInv',
           \A c \in Clis : command'[c] = command[c] \/ (ExportInv(c)' /\ MergeInv(c)')
    PROVE  CopyInv' /\ SessionsGrow
<1>1. SessionsGrow /\ OriginsKept /\ (\A id \in SessionIds : CopyRow(sessions[id]))'
  BY EffectKeeps DEF DataInv, CopyInv
<1>2. OriginalsInv'
  <2> SUFFICES ASSUME NEW p \in Procs, Writing(p)', NEW t, t = Target(p)'
               PROVE  Original(sessions'[t])
    BY DEF OriginalsInv, Original
  <2>1. CASE Writing(p) /\ Target(p)' = Target(p)
    <3>1. t \in SessionIds /\ Original(sessions[t])
      BY <2>1 DEF DataInv, WriterInv, CopyInv, OriginalsInv
    <3> QED BY <1>1, <3>1 DEF OriginsKept, Original
  <2>2. CASE Original(sessions'[Target(p)'])
    BY <2>2
  <2> QED BY <2>1, <2>2
<1>3. ArtifactInv'
  <2>1. CASE UNCHANGED artifact
    <3>1. PICK a : a = artifact
      OBVIOUS
    <3>2. a # NoDocument => a.of \in SessionIds /\ DocWhole(a.doc, a.of)
      BY <3>1 DEF CopyInv, ArtifactInv
    <3>3. a # NoDocument => a.of \in SessionIds' /\ DocWhole(a.doc, a.of)'
      BY <1>1, <3>2, ReadsStayTrue
    <3>4. artifact' = a
      BY <2>1, <3>1
    <3> QED BY <3>3, <3>4 DEF ArtifactInv
  <2> QED BY <2>1
<1>4. \A c \in Clis : ExportInv(c)' /\ MergeInv(c)'
  BY <1>1, CommandsKept DEF CopyInv
<1> QED BY <1>1, <1>2, <1>3, <1>4 DEF CopyInv

-----------------------------------------------------------------------------
(* The steps and the copies *)

\* An update keeps the columns it does not set.
LEMMA UpdatedColumns ==
    ASSUME NEW s, SessionRow(s), NEW x, NEW y
    PROVE  /\ [s EXCEPT !.messages = x].origin = s.origin /\ [s EXCEPT !.messages = x].dropped = s.dropped
           /\ [s EXCEPT !.policy = x].origin = s.origin /\ [s EXCEPT !.policy = x].dropped = s.dropped
           /\ [s EXCEPT !.dropped = x].origin = s.origin /\ [s EXCEPT !.dropped = x].dropped = x
           /\ [s EXCEPT !.ended = x, !.total = y].origin = s.origin
           /\ [s EXCEPT !.ended = x, !.total = y].dropped = s.dropped
<1>1. {"origin", "dropped"} \subseteq DOMAIN s
  BY DEF SessionRow
<1> QED BY <1>1

LEMMA RecorderCopies ==
    ASSUME DataInv, CopyInv, NEW r \in Recorders, NEW rec \in Recording,
           recording' = [recording EXCEPT ![r] = rec], UNCHANGED <<artifact, command>>, SessionEffect,
           rec.phase \in {"created", "running"} =>
               \/ recording[r].phase \in {"created", "running"} /\ rec.session = recording[r].session
               \/ Original(sessions'[rec.session])
    PROVE  CopyInv' /\ SessionsGrow
<1>1. ASSUME NEW p \in Procs \ {r} PROVE Writing(p)' = Writing(p) /\ Target(p)' = Target(p)
  BY DEF Writing, Target, DataInv, TablesInv, Procs
<1>2. /\ Writing(r)' <=> rec.phase \in {"created", "running"}
      /\ Target(r)' = rec.session
      /\ Writing(r) <=> recording[r].phase \in {"created", "running"}
      /\ Target(r) = recording[r].session
  BY DEF Writing, Target, DataInv, TablesInv
<1>3. ASSUME NEW p \in Procs, Writing(p)'
      PROVE  (Writing(p) /\ Target(p)' = Target(p)) \/ Original(sessions'[Target(p)'])
  <2>1. CASE p = r
    BY <1>2, <1>3, <2>1
  <2>2. CASE p # r
    BY <1>1, <1>3, <2>2
  <2> QED BY <2>1, <2>2
<1> QED BY <1>3, CopyStep

LEMMA RecorderStepCopies ==
    ASSUME DataInv, CopyInv, NEW r \in Recorders, RecorderStep(r)
    PROVE  CopyInv' /\ SessionsGrow
<1> DEFINE at == recording[r].session
<1>0. UNCHANGED <<artifact, command>>
  BY DEF RecorderStep, create_session, set_redaction_policy, write_messages, LoseMessage,
         increment_dropped_messages, close_session, recorderFrame
<1>1. recording[r] \in Recording
  BY DEF DataInv, TablesInv, Recording
<1>2. ASSUME recording[r].phase \in {"created", "running"}
      PROVE  /\ at \in SessionIds /\ sessions[at].ended = FALSE /\ Original(sessions[at])
             /\ SessionRow(sessions[at]) /\ sessions[at].dropped \in Int
  <2>1. r \in Procs /\ Writing(r) /\ Target(r) = at
    BY <1>2 DEF Procs, Writing, Target
  <2> QED BY <2>1 DEF DataInv, TablesInv, WriterInv, CopyInv, OriginalsInv, CopyRow
<1>3. CASE create_session(r)
  <2>1. PICK row : row = NewSession(OpenSummary, <<>>, [kind |-> "record", of |-> <<>>])
    OBVIOUS
  <2>2. PICK rec : rec = [recording[r] EXCEPT !.phase = "created", !.session = Len(sessions) + 1]
    OBVIOUS
  <2>3. Insert(row) /\ recording' = [recording EXCEPT ![r] = rec]
    BY <1>3, <2>1, <2>2 DEF create_session
  <2>4. SessionRow(row) /\ Original(row) /\ CopyRow(row)
    BY <2>1 DEF SessionRow, NewSession, OpenSummary, Original, CopyRow, ClosedCopy
  <2>5. sessions'[Len(sessions) + 1] = row /\ Len(sessions) + 1 \in Nat
    BY <2>3, <2>4, InsertSession DEF DataInv
  <2>6. rec \in Recording /\ rec.session = Len(sessions) + 1
    BY <1>1, <2>2, <2>5 DEF Recording
  <2>7. SessionEffect
    BY <2>3, <2>4 DEF SessionEffect, Inserts
  <2> QED BY <1>0, <2>3, <2>4, <2>5, <2>6, <2>7, RecorderCopies
<1>4. CASE set_redaction_policy(r)
  <2>1. PICK row : row = [sessions[at] EXCEPT !.policy = "default"]
    OBVIOUS
  <2>2. PICK rec : rec = [recording[r] EXCEPT !.phase = "running"]
    OBVIOUS
  <2>3. /\ recording[r].phase = "created" /\ recording' = [recording EXCEPT ![r] = rec]
        /\ sessions' = [sessions EXCEPT ![at] = row]
    BY <1>4, <2>1, <2>2 DEF set_redaction_policy
  <2>4. SessionRow(row) /\ row.origin = sessions[at].origin /\ row.dropped \in Int
    <3>1. SessionRow(row)
      BY <1>2, <2>1, <2>3 DEF SessionRow
    <3> QED BY <1>2, <2>1, <2>3, <3>1, UpdatedColumns
  <2>5. rec \in Recording /\ rec.session = at
    BY <1>1, <2>2 DEF Recording
  <2>6. SessionEffect
    BY <1>2, <2>3, <2>4 DEF SessionEffect, Changes
  <2> QED BY <1>0, <2>3, <2>5, <2>6, RecorderCopies
<1>5. CASE write_messages(r)
  <2>1. PICK last \in recording[r].next..Len(Script[r]) :
           /\ recording[r].phase = "running"
           /\ sessions' = [sessions EXCEPT ![at].messages =
                              @ \o SubSeq(Script[r], recording[r].next, last)]
           /\ recording' = [recording EXCEPT ![r].next = last + 1]
    BY <1>5 DEF write_messages
  <2>2. PICK text : text = sessions[at].messages \o SubSeq(Script[r], recording[r].next, last)
    OBVIOUS
  <2>3. PICK row, rec : row = [sessions[at] EXCEPT !.messages = text]
                        /\ rec = [recording[r] EXCEPT !.next = last + 1]
    OBVIOUS
  <2>4. /\ recording' = [recording EXCEPT ![r] = rec]
        /\ sessions' = [sessions EXCEPT ![at] = row]
    BY <2>1, <2>2, <2>3
  <2>5. SessionRow(row) /\ row.origin = sessions[at].origin /\ row.dropped \in Int
    <3>1. PICK s : s = sessions[at] /\ SessionRow(s) /\ s.dropped \in Int
      BY <1>2, <2>1
    <3>2. row = [s EXCEPT !.messages = text]
      BY <2>3, <3>1
    <3>3. SessionRow(row)
      BY <3>1, <3>2, UpdatedRow
    <3>4. row.origin = s.origin /\ row.dropped = s.dropped
      BY <3>1, <3>2, UpdatedColumns
    <3> QED BY <3>1, <3>3, <3>4
  <2>6. rec \in Recording /\ rec.session = at
    BY <1>1, <2>3 DEF Recording
  <2>7. SessionEffect
    BY <1>2, <2>1, <2>4, <2>5 DEF SessionEffect, Changes
  <2> QED BY <1>0, <2>1, <2>4, <2>6, <2>7, RecorderCopies
<1>6. CASE LoseMessage(r)
  <2>1. PICK rec : rec = [recording[r] EXCEPT !.next = recording[r].next + 1, !.lost = recording[r].lost + 1]
    OBVIOUS
  <2>2. /\ recording[r].phase = "running" /\ recording' = [recording EXCEPT ![r] = rec]
        /\ sessions' = sessions
    BY <1>6, <2>1 DEF LoseMessage
  <2>3. rec \in Recording /\ rec.session = at
    <3>1. recording[r].next + 1 \in Int /\ recording[r].lost + 1 \in Int
      BY <1>1 DEF Recording
    <3> QED BY <1>1, <2>1, <2>2, <3>1 DEF Recording
  <2>4. SessionEffect
    BY <2>2 DEF SessionEffect
  <2> QED BY <1>0, <2>2, <2>3, <2>4, RecorderCopies
<1>7. CASE increment_dropped_messages(r)
  <2>1. PICK count : count = sessions[at].dropped + recording[r].lost
    OBVIOUS
  <2>2. PICK row, rec : row = [sessions[at] EXCEPT !.dropped = count]
                        /\ rec = [recording[r] EXCEPT !.lost = 0]
    OBVIOUS
  <2>3. /\ recording[r].phase = "running" /\ recording' = [recording EXCEPT ![r] = rec]
        /\ sessions' = [sessions EXCEPT ![at] = row]
    BY <1>7, <2>1, <2>2 DEF increment_dropped_messages
  <2>4. SessionRow(row) /\ row.origin = sessions[at].origin /\ row.dropped \in Int
    <3>1. SessionRow(row)
      BY <1>2, <2>2, <2>3 DEF SessionRow
    <3>2. count \in Int
      BY <1>1, <1>2, <2>1, <2>3 DEF Recording
    <3> QED BY <1>2, <2>2, <2>3, <3>1, <3>2, UpdatedColumns
  <2>5. rec \in Recording /\ rec.session = at
    BY <1>1, <2>2 DEF Recording
  <2>6. SessionEffect
    BY <1>2, <2>3, <2>4 DEF SessionEffect, Changes
  <2> QED BY <1>0, <2>3, <2>5, <2>6, RecorderCopies
<1>8. CASE close_session(r)
  <2>1. PICK row, rec : row = Closed(sessions[at]) /\ rec = [recording[r] EXCEPT !.phase = "ended"]
    OBVIOUS
  <2>2. /\ recording[r].phase = "running" /\ recording' = [recording EXCEPT ![r] = rec]
        /\ sessions' = [sessions EXCEPT ![at] = row]
    BY <1>8, <2>1 DEF close_session
  <2>3. SessionRow(row) /\ row.origin = sessions[at].origin /\ row.dropped \in Int
    <3>1. PICK s, n : s = sessions[at] /\ SessionRow(s) /\ s.dropped \in Int /\ n = Len(s.messages)
      BY <1>2, <2>2
    <3>2. row = [s EXCEPT !.ended = TRUE, !.total = n]
      BY <2>1, <3>1 DEF Closed
    <3>3. SessionRow(row)
      BY <3>1, <3>2, UpdatedRow
    <3>4. row.origin = s.origin /\ row.dropped = s.dropped
      BY <3>1, <3>2, UpdatedColumns
    <3> QED BY <3>1, <3>3, <3>4
  <2>4. rec \in Recording /\ rec.phase = "ended"
    BY <1>1, <2>1 DEF Recording
  <2>5. SessionEffect
    BY <1>2, <2>2, <2>3 DEF SessionEffect, Changes
  <2> QED BY <1>0, <2>2, <2>4, <2>5, RecorderCopies
<1> QED BY <1>3, <1>4, <1>5, <1>6, <1>7, <1>8 DEF RecorderStep

\* A step of one command.
LEMMA CommandCopies ==
    ASSUME DataInv, CopyInv, NEW c \in Clis, NEW cmd, command' = [command EXCEPT ![c] = cmd],
           UNCHANGED recording, SessionEffect,
           cmd.op = "vcr" => \/ command[c].op = "vcr" /\ cmd.session = command[c].session
                             \/ Original(sessions'[cmd.session]),
           UNCHANGED artifact \/ ArtifactInv',
           cmd.op \in {"export", "merge"} => ExportInv(c)' /\ MergeInv(c)'
    PROVE  CopyInv' /\ SessionsGrow
<1>0. c \in Procs /\ c \notin Recorders
  BY ProcAssumption DEF Procs
<1>1. command'[c] = cmd /\ \A d \in Clis \ {c} : command'[d] = command[d]
  BY DEF DataInv, TablesInv
<1>2. ASSUME NEW p \in Procs, Writing(p)'
      PROVE  (Writing(p) /\ Target(p)' = Target(p)) \/ Original(sessions'[Target(p)'])
  <2>1. CASE p = c
    BY <1>0, <1>1, <1>2, <2>1 DEF Writing, Target
  <2>2. CASE p # c
    BY <1>1, <1>2, <2>2 DEF Writing, Target, Procs
  <2> QED BY <2>1, <2>2
<1>3. ExportInv(c)' /\ MergeInv(c)'
  BY <1>1 DEF ExportInv, MergeInv
<1> QED BY <1>1, <1>2, <1>3, CopyStep

\* Commands that neither write sessions nor read what they will copy.
LEMMA PlainCommand ==
    ASSUME DataInv, CopyInv, NEW c \in Clis, NEW cmd, command' = [command EXCEPT ![c] = cmd],
           cmd.op \in {"idle", "promote", "index"}, UNCHANGED <<recording, sessions, artifact>>
    PROVE  CopyInv' /\ SessionsGrow
BY CommandCopies DEF SessionEffect

LEMMA SameCommand ==
    ASSUME DataInv, CopyInv, UNCHANGED <<command, recording, artifact>>, SessionEffect
    PROVE  CopyInv' /\ SessionsGrow
<1>1. \A p : Writing(p)' = Writing(p) /\ Target(p)' = Target(p)
  BY DEF Writing, Target
<1> QED BY <1>1, CopyStep

\* The document that is published is the one made of a true summary and the
\* messages read after it.
LEMMA ExportCopies ==
    ASSUME DataInv, CopyInv, NEW c \in Clis,
           StartExport(c) \/ ExportSummary(c) \/ ExportMessages(c) \/ PublishArtifact(c)
    PROVE  CopyInv' /\ SessionsGrow
<1>0. UNCHANGED <<sessions, recording>> /\ SessionEffect
  BY DEF StartExport, Start, ExportSummary, ExportMessages, Read, PublishArtifact, commandFrame, SessionEffect
<1>1. Idle.op = "idle"
  BY DEF Idle
<1>2. PICK old : old = command[c]
  OBVIOUS
<1>3. SessionIds' = SessionIds /\ \A id : Summary(id)' = Summary(id)
  BY <1>0 DEF SessionIds, Summary
<1>4. old.op = "export" =>
          /\ old.session \in SessionIds
          /\ old.stage = "messages" => SummaryRead(old.summary, old.session)
          /\ old.stage = "publish" => DocWhole(old.doc, old.session)
  BY <1>2 DEF CopyInv, ExportInv
<1>5. ASSUME NEW new, command' = [command EXCEPT ![c] = new], new.op = "export", UNCHANGED artifact,
             new.session \in SessionIds,
             new.stage = "messages" => SummaryRead(new.summary, new.session),
             new.stage = "publish" => DocWhole(new.doc, new.session)
      PROVE  CopyInv' /\ SessionsGrow
  <2>1. command'[c] = new
    BY <1>5 DEF DataInv, TablesInv
  <2>2. \A s, id : SummaryRead(s, id)' = SummaryRead(s, id)
    BY <1>3 DEF SummaryRead
  <2>3. \A d, id : DocWhole(d, id)' = DocWhole(d, id)
    BY <1>0 DEF DocWhole
  <2>4. ExportInv(c)' /\ MergeInv(c)'
    BY <1>3, <1>5, <2>1, <2>2, <2>3 DEF ExportInv, MergeInv
  <2> QED BY <1>0, <1>5, <2>4, CommandCopies
<1>6. CASE StartExport(c)
  <2>1. PICK op \in {"export", "promote"}, id \in SessionIds, name \in Names :
           Start(c, [op |-> op, session |-> id, name |-> name, stage |-> "summary"])
    BY <1>6 DEF StartExport
  <2>2. PICK new : new = [op |-> op, session |-> id, name |-> name, stage |-> "summary"]
    OBVIOUS
  <2>3. command' = [command EXCEPT ![c] = new] /\ UNCHANGED artifact
    BY <2>1, <2>2 DEF Start
  <2>4. new.op = op /\ new.session = id /\ new.stage = "summary"
    BY <2>2
  <2> QED BY <1>0, <1>5, <2>3, <2>4, PlainCommand
<1>7. CASE ExportSummary(c)
  <2>1. PICK policy, new :
           /\ new = [op |-> old.op, session |-> old.session, name |-> old.name,
                     stage |-> "messages", summary |-> Summary(old.session), policy |-> policy]
           /\ command' = [command EXCEPT ![c] = IF policy = "refused" THEN Idle ELSE new]
           /\ old.op \in {"export", "promote"} /\ UNCHANGED artifact
    BY <1>2, <1>7 DEF ExportSummary, Read
  <2>2. CASE policy = "refused"
    <3>1. command' = [command EXCEPT ![c] = Idle]
      BY <2>1, <2>2
    <3> QED BY <1>0, <1>1, <2>1, <3>1, PlainCommand
  <2>3. CASE policy # "refused"
    <3>1. /\ new.op = old.op /\ new.session = old.session /\ new.stage = "messages"
          /\ new.summary = Summary(old.session)
      BY <2>1
    <3>2. command' = [command EXCEPT ![c] = new]
      BY <2>1, <2>3
    <3>3. CASE old.op = "promote"
      BY <1>0, <2>1, <3>1, <3>2, <3>3, PlainCommand
    <3>4. CASE old.op = "export"
      <4>1. SummaryRead(new.summary, new.session)
        BY <1>4, <3>1, <3>4 DEF SummaryRead, Summary, CopyInv, CopyRow
      <4> QED BY <1>4, <1>5, <2>1, <3>1, <3>2, <3>4, <4>1
    <3> QED BY <2>1, <3>3, <3>4
  <2> QED BY <2>2, <2>3
<1>8. CASE ExportMessages(c)
  <2>1. PICK whole, doc, new :
           /\ doc = MtraceDocument(old.summary, sessions[old.session].messages, old.policy)
           /\ new = [op |-> old.op, session |-> old.session, name |-> old.name,
                     stage |-> IF old.op = "export" THEN "publish" ELSE "check", doc |-> doc]
           /\ command' = [command EXCEPT ![c] = IF ~whole THEN Idle ELSE new]
           /\ old.op \in {"export", "promote"} /\ old.stage = "messages" /\ UNCHANGED artifact
    BY <1>2, <1>8 DEF ExportMessages, Read
  <2>2. CASE ~whole
    <3>1. command' = [command EXCEPT ![c] = Idle]
      BY <2>1, <2>2
    <3> QED BY <1>0, <1>1, <2>1, <3>1, PlainCommand
  <2>3. CASE whole
    <3>1. /\ new.op = old.op /\ new.session = old.session /\ new.doc = doc
          /\ new.stage # "messages"
      BY <2>1
    <3>2. command' = [command EXCEPT ![c] = new]
      BY <2>1, <2>3
    <3>3. CASE old.op = "promote"
      BY <1>0, <2>1, <3>1, <3>2, <3>3, PlainCommand
    <3>4. CASE old.op = "export"
      <4>1. SummaryRead(old.summary, old.session)
        BY <1>4, <2>1, <3>4
      <4>2. PICK text : text = sessions[old.session].messages
        OBVIOUS
      <4>3. /\ doc.ended = old.summary.ended /\ doc.dropped = old.summary.dropped
            /\ doc.messages = Redacted(text, old.policy)
        BY <2>1, <4>2 DEF MtraceDocument
      <4>4. Content(doc.messages) = Content(text)
        BY <4>3, SameContent
      <4>5. old.summary.ended => sessions[old.session].ended
                                 /\ old.summary.dropped = sessions[old.session].dropped
        BY <4>1 DEF SummaryRead, Summary
      <4>6. DocWhole(doc, old.session)
        BY <4>1, <4>2, <4>3, <4>4, <4>5 DEF DocWhole, SummaryRead
      <4> QED BY <1>4, <1>5, <2>1, <3>1, <3>2, <3>4, <4>6
    <3> QED BY <2>1, <3>3, <3>4
  <2> QED BY <2>2, <2>3
<1>9. CASE PublishArtifact(c)
  <2>1. /\ command' = [command EXCEPT ![c] = Idle] /\ old.op = "export" /\ old.stage = "publish"
        /\ artifact' = artifact \/ artifact' = [doc |-> old.doc, of |-> old.session]
    BY <1>2, <1>9 DEF PublishArtifact, Finish
  <2>2. CASE UNCHANGED artifact
    BY <1>0, <1>1, <2>1, <2>2, PlainCommand
  <2>3. CASE artifact' = [doc |-> old.doc, of |-> old.session]
    <3>1. artifact'.doc = old.doc /\ artifact'.of = old.session
      BY <2>3
    <3>2. DocWhole(old.doc, old.session)' /\ old.session \in SessionIds'
      BY <1>0, <1>3, <1>4, <2>1 DEF DocWhole
    <3>3. ArtifactInv'
      BY <3>1, <3>2 DEF ArtifactInv
    <3> QED BY <1>0, <1>1, <2>1, <3>3, CommandCopies
  <2> QED BY <2>1, <2>2, <2>3
<1> QED BY <1>6, <1>7, <1>8, <1>9

\* Checking and approving a promotion, and the steps of an index rebuild, leave
\* sessions and files alone.
LEMMA OtherCopies ==
    ASSUME DataInv, CopyInv, NEW c \in Clis,
           \/ CheckSummary(c) \/ CheckMessages(c) \/ SelectCandidate(c) \/ promote_baseline(c)
           \/ create_baseline_candidate(c) \/ revoke_baseline(c) \/ IndexStep(c)
    PROVE  CopyInv' /\ SessionsGrow
<1>1. Idle.op = "idle"
  BY DEF Idle
<1>2. PICK old : old = command[c]
  OBVIOUS
<1>3. ASSUME CheckSummary(c) \/ CheckMessages(c) \/ SelectCandidate(c) \/ promote_baseline(c)
      PROVE  CopyInv' /\ SessionsGrow
  <2>1. UNCHANGED <<recording, sessions, artifact>>
    BY <1>3 DEF CheckSummary, CheckMessages, SelectCandidate, promote_baseline, Read, commandFrame
  <2>2. CASE CheckSummary(c)
    <3>1. PICK new :
             /\ new = [op |-> "promote", session |-> old.session, name |-> old.name,
                       stage |-> "checkMessages", doc |-> old.doc, summary |-> Summary(old.session)]
             /\ command' = [command EXCEPT ![c] = new]
      BY <1>2, <2>2 DEF CheckSummary, Read
    <3>2. new.op = "promote"
      BY <3>1
    <3> QED BY <2>1, <3>1, <3>2, PlainCommand
  <2>3. CASE CheckMessages(c)
    <3>1. PICK whole, new :
             new = Checked(old) /\ command' = [command EXCEPT ![c] = IF whole THEN new ELSE Idle]
      BY <1>2, <2>3 DEF CheckMessages, Read
    <3>2. new.op = "promote"
      BY <3>1 DEF Checked
    <3>3. PICK next : next = IF whole THEN new ELSE Idle
      OBVIOUS
    <3>4. next.op \in {"promote", "idle"} /\ command' = [command EXCEPT ![c] = next]
      BY <1>1, <3>1, <3>2, <3>3
    <3> QED BY <2>1, <3>4, PlainCommand
  <2>4. CASE SelectCandidate(c)
    <3>1. \/ command' = [command EXCEPT ![c] = Idle]
          \/ \E row : command' = [command EXCEPT ![c] =
                 [op |-> "promote", session |-> old.session, name |-> old.name,
                  stage |-> "update", doc |-> old.doc, row |-> row]]
      BY <1>2, <2>4 DEF SelectCandidate, Finish
    <3>2. CASE command' = [command EXCEPT ![c] = Idle]
      BY <1>1, <2>1, <3>2, PlainCommand
    <3>3. ASSUME NEW row, NEW new,
                 new = [op |-> "promote", session |-> old.session, name |-> old.name,
                        stage |-> "update", doc |-> old.doc, row |-> row],
                 command' = [command EXCEPT ![c] = new]
          PROVE  CopyInv' /\ SessionsGrow
      <4>1. new.op = "promote"
        BY <3>3
      <4> QED BY <2>1, <3>3, <4>1, PlainCommand
    <3> QED BY <3>1, <3>2, <3>3
  <2>5. CASE promote_baseline(c)
    <3>1. command' = [command EXCEPT ![c] = Idle]
      BY <2>5 DEF promote_baseline, Finish
    <3> QED BY <1>1, <2>1, <3>1, PlainCommand
  <2> QED BY <1>3, <2>2, <2>3, <2>4, <2>5
<1>4. ASSUME create_baseline_candidate(c) \/ revoke_baseline(c)
      PROVE  CopyInv' /\ SessionsGrow
  <2>1. UNCHANGED <<command, recording, artifact, sessions>>
    BY <1>4 DEF create_baseline_candidate, revoke_baseline, commandFrame
  <2> QED BY <2>1, SameCommand DEF SessionEffect
<1>5. ASSUME IndexStep(c)
      PROVE  CopyInv' /\ SessionsGrow
  <2>1. UNCHANGED <<recording, sessions, artifact>>
    BY <1>5 DEF IndexStep, StartRebuild, Start, IndexMessages, IndexPolicy, IndexVersions, Read,
                rebuild_memory_for_session, replace_supersession_edges, indexFrame, commandFrame
  <2>2. IndexCommand(c)
    BY <1>5, IndexStepCommand
  <2>3. PICK new : /\ "op" \in DOMAIN new /\ new.op \in {"idle", "index"}
                   /\ command' = [command EXCEPT ![c] = new]
    BY <2>2 DEF IndexCommand
  <2> QED BY <2>1, <2>3, PlainCommand
<1> QED BY <1>3, <1>4, <1>5

LEMMA AppendSecond ==
    ASSUME NEW s, NEW t
    PROVE  Append(<<s>>, t) = <<s, t>>
<1>1. <<s>> \in Seq({s, t}) /\ Len(<<s>>) = 1
  OBVIOUS
<1>2. PICK pair : pair = Append(<<s>>, t)
  OBVIOUS
<1>3. pair \in Seq({s, t}) /\ Len(pair) = 2 /\ pair[1] = s /\ pair[2] = t
  BY <1>1, <1>2, AppendProperties
<1>4. pair \in [1..2 -> {s, t}] /\ 1..2 = {1, 2}
  BY <1>3
<1>5. <<s, t>> \in [1..2 -> {s, t}] /\ <<s, t>>[1] = s /\ <<s, t>>[2] = t
  OBVIOUS
<1>6. pair = <<s, t>>
  BY <1>3, <1>4, <1>5
<1> QED BY <1>2, <1>6

\* A merge reads the summary and then the messages of each source.
LEMMA MergeReads ==
    ASSUME DataInv, CopyInv, NEW c \in Clis, StartMerge(c) \/ MergeSummary(c) \/ MergeMessages(c)
    PROVE  CopyInv' /\ SessionsGrow
<1>0. UNCHANGED <<recording, sessions, artifact>> /\ SessionEffect
  BY DEF StartMerge, Start, MergeSummary, MergeMessages, Read, commandFrame, SessionEffect
<1>1. PICK old : old = command[c]
  OBVIOUS
<1>2. ASSUME NEW a \in SessionIds, NEW b \in SessionIds, NEW new, MergeOf(new, a, b), new.op = "merge",
             command' = [command EXCEPT ![c] = new]
      PROVE  CopyInv' /\ SessionsGrow
  <2>1. command'[c] = new
    BY <1>2 DEF DataInv, TablesInv
  <2>2. SessionsGrow
    BY <1>0 DEF SessionsGrow, SessionIds
  <2>3. MergeOf(new, a, b)' /\ a \in SessionIds' /\ b \in SessionIds'
    BY <1>2, <2>2, MergeStaysTrue, ReadsStayTrue
  <2>4. ExportInv(c)' /\ MergeInv(c)'
    BY <1>2, <2>1, <2>3 DEF ExportInv, MergeInv
  <2> QED BY <1>0, <1>2, <2>4, CommandCopies
<1>3. \A ids, stage, s, m : MergeCommand(ids, stage, s, m).op = "merge"
  BY DEF MergeCommand
<1>4. \A id \in SessionIds : SummaryRead(Summary(id), id)
  BY DEF SummaryRead, Summary, CopyInv, CopyRow
<1>5. CASE StartMerge(c)
  <2>1. PICK ids \in SessionIds \X SessionIds :
           Start(c, [op |-> "merge", of |-> ids, stage |-> "summary", summaries |-> <<>>, messages |-> <<>>])
    BY <1>5 DEF StartMerge
  <2>2. PICK a \in SessionIds, b \in SessionIds : ids = <<a, b>>
    BY <2>1
  <2>3. PICK new : new = MergeCommand(<<a, b>>, "summary", <<>>, <<>>)
    OBVIOUS
  <2>4. command' = [command EXCEPT ![c] = new]
    BY <2>1, <2>2, <2>3 DEF Start, MergeCommand
  <2>5. MergeOf(new, a, b)
    BY <2>3 DEF MergeOf
  <2> QED BY <1>2, <1>3, <2>3, <2>4, <2>5
<1>6. ASSUME old.op = "merge", MergeSummary(c) \/ MergeMessages(c)
      PROVE  CopyInv' /\ SessionsGrow
  <2>1. PICK a \in SessionIds, b \in SessionIds : MergeOf(old, a, b)
    BY <1>1, <1>6 DEF CopyInv, MergeInv
  <2>2. CASE MergeSummary(c)
    <3>1. PICK at, again, next :
             /\ at = Len(old.summaries) + 1 /\ old.stage = "summary"
             /\ next = [old EXCEPT !.summaries = Append(@, Summary(old.of[at])), !.stage = "messages"]
             /\ command' = [command EXCEPT ![c] = IF again THEN Idle ELSE next]
      BY <1>1, <2>2 DEF MergeSummary, Read
    <3>2. CASE again
      <4>1. command' = [command EXCEPT ![c] = Idle] /\ Idle.op = "idle"
        BY <3>1, <3>2 DEF Idle
      <4> QED BY <1>0, <4>1, PlainCommand
    <3>3. CASE ~again /\ old = MergeCommand(<<a, b>>, "summary", <<>>, <<>>)
      <4>1. old.summaries = <<>> /\ old.of = <<a, b>> /\ at = 1
        BY <3>1, <3>3 DEF MergeCommand
      <4>2. PICK s : s = Summary(a)
        OBVIOUS
      <4>3. next = [old EXCEPT !.summaries = <<s>>, !.stage = "messages"]
        <5>1. old.of[at] = a /\ Append(<<>>, s) = <<s>>
          BY <4>1, AppendSecond
        <5> QED BY <3>1, <4>1, <4>2, <5>1, Zenon
      <4>4. next = MergeCommand(<<a, b>>, "messages", <<s>>, <<>>)
        BY <3>3, <4>3 DEF MergeCommand
      <4>5. MergeOf(next, a, b)
        BY <1>4, <4>2, <4>4 DEF MergeOf
      <4>6. next.op = "merge" /\ command' = [command EXCEPT ![c] = next]
        <5>1. next.op = "merge"
          BY <1>3, <4>4
        <5> QED BY <3>1, <3>3, <5>1, Zenon
      <4> QED BY <1>2, <4>5, <4>6
    <3>4. ASSUME ~again, NEW s, NEW m, SourceRead(s, m, a),
                 old = MergeCommand(<<a, b>>, "summary", <<s>>, <<m>>)
          PROVE  CopyInv' /\ SessionsGrow
      <4>1. old.summaries = <<s>> /\ old.of = <<a, b>> /\ at = 2
        BY <3>1, <3>4 DEF MergeCommand
      <4>2. PICK t : t = Summary(b)
        OBVIOUS
      <4>3. next = [old EXCEPT !.summaries = <<s, t>>, !.stage = "messages"]
        <5>1. old.of[at] = b /\ Append(<<s>>, t) = <<s, t>>
          BY <4>1, AppendSecond
        <5> QED BY <3>1, <4>1, <4>2, <5>1, Zenon
      <4>4. next = MergeCommand(<<a, b>>, "messages", <<s, t>>, <<m>>)
        BY <3>4, <4>3 DEF MergeCommand
      <4>5. MergeOf(next, a, b)
        BY <1>4, <3>4, <4>2, <4>4 DEF MergeOf
      <4>6. next.op = "merge" /\ command' = [command EXCEPT ![c] = next]
        <5>1. next.op = "merge"
          BY <1>3, <4>4
        <5> QED BY <3>1, <3>4, <5>1, Zenon
      <4> QED BY <1>2, <4>5, <4>6
    <3>5. \A s, m, ids : MergeCommand(ids, "messages", s, m).stage # "summary"
                         /\ MergeCommand(ids, "insert", s, m).stage # "summary"
      BY DEF MergeCommand
    <3> QED BY <2>1, <3>1, <3>2, <3>3, <3>4, <3>5 DEF MergeOf
  <2>3. CASE MergeMessages(c)
    <3>1. PICK at, next :
             /\ at = Len(old.messages) + 1 /\ old.stage = "messages"
             /\ next = [old EXCEPT !.messages = Append(@, sessions[old.of[at]].messages),
                                   !.stage = IF at < Len(old.of) THEN "summary" ELSE "insert"]
             /\ command' = [command EXCEPT ![c] = next]
      BY <1>1, <2>3 DEF MergeMessages, Read
    <3>2. ASSUME NEW s, SummaryRead(s, a), old = MergeCommand(<<a, b>>, "messages", <<s>>, <<>>)
          PROVE  CopyInv' /\ SessionsGrow
      <4>1. old.messages = <<>> /\ old.of = <<a, b>> /\ at = 1
        BY <3>1, <3>2 DEF MergeCommand
      <4>2. PICK m : m = sessions[a].messages
        OBVIOUS
      <4>3. next = [old EXCEPT !.messages = <<m>>, !.stage = "summary"]
        <5>1. old.of[at] = a /\ Append(<<>>, m) = <<m>> /\ at < Len(old.of)
          BY <4>1, AppendSecond
        <5> QED BY <3>1, <4>1, <4>2, <5>1, Zenon
      <4>4. next = MergeCommand(<<a, b>>, "summary", <<s>>, <<m>>)
        BY <3>2, <4>3 DEF MergeCommand
      <4>5. MergeOf(next, a, b)
        BY <3>2, <4>2, <4>4 DEF MergeOf, SourceRead
      <4>6. next.op = "merge" /\ command' = [command EXCEPT ![c] = next]
        <5>1. next.op = "merge"
          BY <1>3, <4>4
        <5> QED BY <3>1, <5>1, Zenon
      <4> QED BY <1>2, <4>5, <4>6
    <3>3. ASSUME NEW s, NEW m, NEW t, SourceRead(s, m, a), SummaryRead(t, b),
                 old = MergeCommand(<<a, b>>, "messages", <<s, t>>, <<m>>)
          PROVE  CopyInv' /\ SessionsGrow
      <4>1. old.messages = <<m>> /\ old.of = <<a, b>> /\ at = 2
        BY <3>1, <3>3 DEF MergeCommand
      <4>2. PICK n : n = sessions[b].messages
        OBVIOUS
      <4>3. next = [old EXCEPT !.messages = <<m, n>>, !.stage = "insert"]
        <5>1. old.of[at] = b /\ Append(<<m>>, n) = <<m, n>> /\ ~(at < Len(old.of))
          BY <4>1, AppendSecond
        <5> QED BY <3>1, <4>1, <4>2, <5>1, Zenon
      <4>4. next = MergeCommand(<<a, b>>, "insert", <<s, t>>, <<m, n>>)
        BY <3>3, <4>3 DEF MergeCommand
      <4>5. SourceRead(t, n, b)
        BY <3>3, <4>2 DEF SourceRead
      <4>6. MergeOf(next, a, b)
        BY <3>3, <4>4, <4>5 DEF MergeOf
      <4>7. next.op = "merge" /\ command' = [command EXCEPT ![c] = next]
        <5>1. next.op = "merge"
          BY <1>3, <4>4
        <5> QED BY <3>1, <5>1, Zenon
      <4> QED BY <1>2, <4>6, <4>7
    <3>4. \A s, m, ids : MergeCommand(ids, "summary", s, m).stage # "messages"
                         /\ MergeCommand(ids, "insert", s, m).stage # "messages"
      BY DEF MergeCommand
    <3> QED BY <2>1, <3>1, <3>2, <3>3, <3>4 DEF MergeOf
  <2> QED BY <1>6, <2>2, <2>3
<1>7. (MergeSummary(c) \/ MergeMessages(c)) => old.op = "merge"
  BY <1>1 DEF MergeSummary, MergeMessages
<1> QED BY <1>5, <1>6, <1>7

\* The merged row adds up two sources, and claims to be finished only when both
\* had ended before their messages were read.
LEMMA MergedIsWhole ==
    ASSUME NEW a \in SessionIds, NEW b \in SessionIds, NEW s, NEW t, NEW m, NEW n,
           SourceRead(s, m, a), SourceRead(t, n, b), NEW deduplicate, NEW row,
           row = NewSession(MergedSummary(<<s, t>>), MergedMessages(<<m, n>>, deduplicate),
                            [kind |-> "merge", of |-> <<a, b>>, deduplicated |-> deduplicate])
    PROVE  CopyRow(row)
<1>1. PICK text, summary, origin :
         /\ text = MergedMessages(<<m, n>>, deduplicate) /\ summary = MergedSummary(<<s, t>>)
         /\ origin = [kind |-> "merge", of |-> <<a, b>>, deduplicated |-> deduplicate]
  OBVIOUS
<1>2. /\ row.ended = summary.ended /\ row.dropped = summary.dropped
      /\ row.messages = text /\ row.origin = origin
  BY <1>1 DEF NewSession
<1>3. /\ origin.kind = "merge" /\ origin.of = <<a, b>> /\ origin.deduplicated = deduplicate
  BY <1>1
<1>4. s.dropped \in Int /\ t.dropped \in Int
  BY DEF SourceRead, SummaryRead
<1>5. /\ summary.ended => s.ended /\ t.ended
      /\ summary.dropped = Total(<<s.dropped, t.dropped>>)
  <2>1. PICK both : both = <<s, t>>
    OBVIOUS
  <2>2. DOMAIN both = {1, 2} /\ both[1] = s /\ both[2] = t
    BY <2>1
  <2>3. [i \in DOMAIN both |-> both[i].dropped] = <<s.dropped, t.dropped>>
    BY <2>1
  <2>4. /\ summary.ended = \A i \in DOMAIN both : both[i].ended
        /\ summary.dropped = Total([i \in DOMAIN both |-> both[i].dropped])
    BY <1>1, <2>1 DEF MergedSummary
  <2> QED BY <2>2, <2>3, <2>4
<1>6. row.dropped \in Int
  BY <1>2, <1>4, <1>5, TotalOfTwo
<1>7. \A i \in DOMAIN row.origin.of : row.origin.of[i] \in SessionIds
  <2>1. \A i \in DOMAIN <<a, b>> : <<a, b>>[i] \in SessionIds
    OBVIOUS
  <2> QED BY <1>2, <1>3, <2>1
<1>8. ASSUME ClosedCopy(row) PROVE WholeCopy(row)
  <2>1. s.ended /\ t.ended
    BY <1>2, <1>5, <1>8 DEF ClosedCopy
  <2>2. /\ sessions[a].ended /\ s.dropped = sessions[a].dropped /\ m = sessions[a].messages
        /\ sessions[b].ended /\ t.dropped = sessions[b].dropped /\ n = sessions[b].messages
    BY <2>1 DEF SourceRead, SummaryRead, Summary
  <2>3. PICK sources : sources = <<sessions[a], sessions[b]>>
    OBVIOUS
  <2>4. Sources(row) = sources
    <3>1. [i \in DOMAIN <<a, b>> |-> sessions[<<a, b>>[i]]] = <<sessions[a], sessions[b]>>
      OBVIOUS
    <3> QED BY <1>2, <1>3, <2>3, <3>1 DEF Sources
  <2>5. DOMAIN sources = {1, 2} /\ sources[1] = sessions[a] /\ sources[2] = sessions[b]
    BY <2>3
  <2>6. /\ [i \in DOMAIN sources |-> sources[i].dropped] = <<s.dropped, t.dropped>>
        /\ [i \in DOMAIN sources |-> sources[i].messages] = <<m, n>>
    BY <2>2, <2>3
  <2>7. ~Deduplicated(row) => Content(row.messages) = Content(FlattenSeq(<<m, n>>))
    <3>1. ASSUME ~deduplicate PROVE text = Renumbered(FlattenSeq(<<m, n>>))
      BY <1>1, <3>1 DEF MergedMessages
    <3>2. Deduplicated(row) <=> deduplicate
      BY <1>2, <1>3 DEF Deduplicated
    <3> QED BY <1>2, <3>1, <3>2, SameContent
  <2>8. \A i \in DOMAIN sources : sources[i].ended
    BY <2>2, <2>5
  <2>9. row.dropped = Total([i \in DOMAIN sources |-> sources[i].dropped])
    BY <1>2, <1>5, <2>6
  <2> QED BY <2>4, <2>6, <2>7, <2>8, <2>9 DEF WholeCopy
<1> QED BY <1>6, <1>7, <1>8 DEF CopyRow

\* The imported row is the document.
LEMMA ImportedIsWhole ==
    ASSUME NEW id \in SessionIds, NEW doc, DocWhole(doc, id), NEW row,
           row = NewSession(doc, doc.messages, [kind |-> "import", of |-> <<id>>]),
           \A i \in SessionIds : sessions[i].dropped \in Int
    PROVE  CopyRow(row)
<1>1. /\ row.ended = doc.ended /\ row.dropped = doc.dropped /\ row.messages = doc.messages
      /\ row.origin = [kind |-> "import", of |-> <<id>>]
  BY DEF NewSession
<1>2. row.origin.kind = "import" /\ row.origin.of = <<id>>
  BY <1>1
<1>3. \A i \in DOMAIN row.origin.of : row.origin.of[i] \in SessionIds
  <2>1. \A i \in DOMAIN <<id>> : <<id>>[i] \in SessionIds
    OBVIOUS
  <2> QED BY <1>2, <2>1
<1>4. ASSUME ClosedCopy(row) PROVE WholeCopy(row)
  <2>1. /\ sessions[id].ended /\ doc.dropped = sessions[id].dropped
        /\ Content(doc.messages) = Content(sessions[id].messages)
    BY <1>1, <1>4 DEF ClosedCopy, DocWhole
  <2>2. PICK sources : sources = <<sessions[id]>>
    OBVIOUS
  <2>3. Sources(row) = sources
    <3>1. [i \in DOMAIN <<id>> |-> sessions[<<id>>[i]]] = <<sessions[id]>>
      OBVIOUS
    <3> QED BY <1>2, <2>2, <3>1 DEF Sources
  <2>4. DOMAIN sources = {1} /\ sources[1] = sessions[id]
    BY <2>2
  <2>5. /\ [i \in DOMAIN sources |-> sources[i].dropped] = <<sessions[id].dropped>>
        /\ [i \in DOMAIN sources |-> sources[i].messages] = <<sessions[id].messages>>
    BY <2>2
  <2>6. row.dropped = Total(<<sessions[id].dropped>>)
    BY <1>1, <2>1, TotalOfOne
  <2>7. Content(row.messages) = Content(FlattenSeq(<<sessions[id].messages>>))
    BY <1>1, <2>1, FlatOfOne
  <2> QED BY <2>1, <2>3, <2>4, <2>5, <2>6, <2>7 DEF WholeCopy
<1> QED BY <1>1, <1>3, <1>4 DEF CopyRow, DocWhole

LEMMA InsertCopies ==
    ASSUME DataInv, CopyInv, NEW c \in Clis,
           import_mtrace_document(c) \/ merge_sessions(c) \/ ImportVcrCreate(c)
    PROVE  CopyInv' /\ SessionsGrow
<1>0. UNCHANGED <<recording, artifact>>
  BY DEF import_mtrace_document, merge_sessions, ImportVcrCreate, commandFrame
<1>1. Idle.op = "idle"
  BY DEF Idle
<1>2. CASE import_mtrace_document(c)
  <2>1. PICK row : row = NewSession(artifact.doc, artifact.doc.messages,
                                    [kind |-> "import", of |-> <<artifact.of>>])
    OBVIOUS
  <2>2. Insert(row) /\ UNCHANGED command /\ artifact # NoDocument
    BY <1>2, <2>1 DEF import_mtrace_document
  <2>3. artifact.of \in SessionIds /\ DocWhole(artifact.doc, artifact.of)
    BY <2>2 DEF CopyInv, ArtifactInv
  <2>4. SessionRow(row) /\ CopyRow(row)
    BY <2>1, <2>3, ImportedIsWhole, NewSessionRow DEF CopyInv, CopyRow
  <2>5. SessionEffect
    BY <2>2, <2>4 DEF SessionEffect, Inserts
  <2> QED BY <1>0, <2>2, <2>5, SameCommand
<1>3. CASE merge_sessions(c)
  <2>1. PICK old : old = command[c]
    OBVIOUS
  <2>2. /\ command' = [command EXCEPT ![c] = Idle] /\ old.op = "merge" /\ old.stage = "insert"
        /\ InsertMerged(old, old.summaries) \/ UNCHANGED sessions
    BY <1>3, <2>1 DEF merge_sessions, Finish
  <2>3. CASE UNCHANGED sessions
    BY <1>0, <1>1, <2>2, <2>3, PlainCommand
  <2>4. CASE InsertMerged(old, old.summaries)
    <3>1. PICK a \in SessionIds, b \in SessionIds : MergeOf(old, a, b)
      BY <2>1, <2>2 DEF CopyInv, MergeInv
    <3>2. \A s, m, ids : MergeCommand(ids, "summary", s, m).stage # "insert"
                         /\ MergeCommand(ids, "messages", s, m).stage # "insert"
      BY DEF MergeCommand
    <3>3. PICK s, m, t, n : /\ SourceRead(s, m, a) /\ SourceRead(t, n, b)
                            /\ old = MergeCommand(<<a, b>>, "insert", <<s, t>>, <<m, n>>)
      BY <2>2, <3>1, <3>2, Zenon DEF MergeOf
    <3>4. old.of = <<a, b>> /\ old.summaries = <<s, t>> /\ old.messages = <<m, n>>
      BY <3>3 DEF MergeCommand
    <3>5. PICK deduplicate, row :
             /\ row = NewSession(MergedSummary(<<s, t>>), MergedMessages(<<m, n>>, deduplicate),
                                 [kind |-> "merge", of |-> <<a, b>>, deduplicated |-> deduplicate])
             /\ Insert(row)
      BY <2>4, <3>4, Zenon DEF InsertMerged
    <3>6. SessionRow(row) /\ CopyRow(row)
      BY <3>3, <3>5, MergedIsWhole, NewSessionRow
    <3>7. SessionEffect
      BY <3>5, <3>6 DEF SessionEffect, Inserts
    <3> QED BY <1>0, <1>1, <2>2, <3>7, CommandCopies
  <2> QED BY <2>2, <2>3, <2>4
<1>4. CASE ImportVcrCreate(c)
  <2>1. PICK row, new :
           /\ row = NewSession(OpenSummary, <<>>, [kind |-> "vcr", of |-> <<>>])
           /\ new = [op |-> "vcr", stage |-> "write", session |-> Len(sessions) + 1]
    OBVIOUS
  <2>2. Insert(row) /\ command' = [command EXCEPT ![c] = new]
    BY <1>4, <2>1 DEF ImportVcrCreate
  <2>3. SessionRow(row) /\ Original(row) /\ CopyRow(row)
    BY <2>1 DEF SessionRow, NewSession, OpenSummary, Original, CopyRow, ClosedCopy
  <2>4. sessions'[Len(sessions) + 1] = row
    BY <2>2, <2>3, InsertSession DEF DataInv
  <2>5. new.op = "vcr" /\ new.session = Len(sessions) + 1
    BY <2>1
  <2>6. SessionEffect
    BY <2>2, <2>3 DEF SessionEffect, Inserts
  <2> QED BY <1>0, <2>2, <2>3, <2>4, <2>5, <2>6, CommandCopies
<1> QED BY <1>2, <1>3, <1>4

LEMMA VcrCopies ==
    ASSUME DataInv, CopyInv, NEW c \in Clis, ImportVcrWrite(c) \/ ImportVcrClose(c)
    PROVE  CopyInv' /\ SessionsGrow
<1>0. UNCHANGED <<recording, artifact>>
  BY DEF ImportVcrWrite, ImportVcrClose, commandFrame
<1>1. PICK old, at : old = command[c] /\ at = old.session
  OBVIOUS
<1>2. old.op = "vcr"
  BY <1>1 DEF ImportVcrWrite, ImportVcrClose
<1>3. /\ at \in SessionIds /\ sessions[at].ended = FALSE /\ Original(sessions[at])
      /\ SessionRow(sessions[at]) /\ sessions[at].dropped \in Int
  <2>1. c \in Procs /\ Writing(c) /\ Target(c) = at
    BY <1>1, <1>2, ProcAssumption DEF Procs, Writing, Target
  <2> QED BY <2>1 DEF DataInv, TablesInv, WriterInv, CopyInv, OriginalsInv, CopyRow
<1>4. PICK s : s = sessions[at] /\ SessionRow(s) /\ s.dropped \in Int
  BY <1>3
<1>5. CASE ImportVcrWrite(c)
  <2>1. PICK text, row, new :
           /\ text = cassette_to_messages(Cassette)
           /\ row = [s EXCEPT !.messages = text]
           /\ new = [op |-> "vcr", stage |-> "close", session |-> at]
    OBVIOUS
  <2>2. /\ sessions' = [sessions EXCEPT ![at] = row]
        /\ command' = [command EXCEPT ![c] = new]
    BY <1>1, <1>4, <1>5, <2>1 DEF ImportVcrWrite
  <2>3. SessionRow(row)
    BY <1>4, <2>1, UpdatedRow
  <2>4. row.origin = s.origin /\ row.dropped = s.dropped
    BY <1>4, <2>1, UpdatedColumns
  <2>5. SessionEffect
    BY <1>3, <1>4, <2>2, <2>3, <2>4 DEF SessionEffect, Changes
  <2>6. new.op = "vcr" /\ new.session = at
    BY <2>1
  <2> QED BY <1>0, <1>1, <1>2, <2>2, <2>5, <2>6, CommandCopies
<1>6. CASE ImportVcrClose(c)
  <2>1. PICK n, row : n = Len(s.messages) /\ row = [s EXCEPT !.ended = TRUE, !.total = n]
    OBVIOUS
  <2>2. /\ sessions' = [sessions EXCEPT ![at] = row]
        /\ command' = [command EXCEPT ![c] = Idle]
    BY <1>1, <1>4, <1>6, <2>1 DEF ImportVcrClose, Closed, Finish
  <2>3. SessionRow(row)
    BY <1>4, <2>1, UpdatedRow
  <2>4. row.origin = s.origin /\ row.dropped = s.dropped
    BY <1>4, <2>1, UpdatedColumns
  <2>5. SessionEffect
    BY <1>3, <1>4, <2>2, <2>3, <2>4 DEF SessionEffect, Changes
  <2>6. Idle.op = "idle"
    BY DEF Idle
  <2> QED BY <1>0, <2>2, <2>5, <2>6, CommandCopies
<1> QED BY <1>5, <1>6

LEMMA CrashCopies ==
    ASSUME DataInv, CopyInv, NEW p \in Procs, Crash(p)
    PROVE  CopyInv' /\ SessionsGrow
<1>1. /\ UNCHANGED <<sessions, artifact>>
      /\ command' = [c \in Clis |-> IF c = p THEN Idle ELSE command[c]]
  BY DEF Crash
<1>2. \A q \in Procs : Writing(q)' => Writing(q) /\ Target(q)' = Target(q)
  BY CrashedWriters
<1>3. ASSUME NEW c \in Clis
      PROVE  command'[c] = command[c] \/ (ExportInv(c)' /\ MergeInv(c)')
  <2>1. CASE c = p
    <3>1. command'[c] = Idle /\ Idle.op = "idle"
      BY <1>1, <2>1 DEF Idle
    <3> QED BY <3>1 DEF ExportInv, MergeInv
  <2>2. CASE c # p
    BY <1>1, <2>2
  <2> QED BY <2>1, <2>2
<1> QED BY <1>1, <1>2, <1>3, CopyStep DEF SessionEffect

LEMMA StepCopies ==
    ASSUME DataInv, CopyInv, [IndexNext]_indexVars
    PROVE  CopyInv' /\ SessionsGrow
<1>1. CASE UNCHANGED indexVars
  <2>1. UNCHANGED <<command, recording, artifact, sessions>>
    BY <1>1 DEF indexVars, vars
  <2> QED BY <2>1, SameCommand DEF SessionEffect
<1>2. ASSUME NEW p \in Procs, OpenStep(p)
      PROVE  CopyInv' /\ SessionsGrow
  <2>1. UNCHANGED data
    BY <1>2 DEF OpenStep, Bootstrap, BeginMigration, ApplyMigration, CommitMigration, GiveUpOpening
  <2>2. UNCHANGED <<command, recording, artifact, sessions>>
    BY <2>1 DEF data
  <2> QED BY <2>2, SameCommand DEF SessionEffect
<1>3. ASSUME NEW c \in Clis, CommandStep(c) \/ IndexStep(c)
      PROVE  CopyInv' /\ SessionsGrow
  BY <1>3, ExportCopies, OtherCopies, MergeReads, InsertCopies, VcrCopies DEF CommandStep
<1> QED BY <1>1, <1>2, <1>3, CrashCopies, RecorderStepCopies DEF IndexNext, StoreStep, Next

-----------------------------------------------------------------------------
(* Timestamps: every stored message has one, whatever command copied it *)

\* The induction principle the provers can use: a set of numbers has a least one.
LEMMA LeastNumber ==
    ASSUME NEW T \in SUBSET Nat, T # {}
    PROVE  \E n \in T : \A k \in T : n <= k
<1>1. PICK n \in T : \A k \in T : <<k, n>> \notin OpToRel(<, Nat)
  BY NatLessThanWellFounded, WFMin, Zenon
<1>2. ASSUME NEW k \in T PROVE n <= k
  <2> SUFFICES ASSUME k < n PROVE FALSE
    OBVIOUS
  <2>1. <<k, n>> \in OpToRel(<, Nat)
    BY Zenon DEF OpToRel
  <2> QED BY <1>1, <2>1
<1> QED BY <1>2

Stamp(m) == "ts" \in DOMAIN m /\ m.ts \in Int

LEMMA StampedIn ==
    ASSUME NEW M, \A m \in M : Stamp(m), NEW s \in Seq(M)
    PROVE  Stamped(s)
<1>1. \A i \in DOMAIN s : s[i] \in M
  OBVIOUS
<1>2. s \in Seq({s[i] : i \in DOMAIN s})
  <2> DEFINE S == {s[i] : i \in DOMAIN s}
  <2>1. Len(s) \in Nat /\ s \in [1..Len(s) -> M] /\ DOMAIN s = 1..Len(s)
    OBVIOUS
  <2>2. \A i \in 1..Len(s) : s[i] \in S
    BY <2>1
  <2> HIDE DEF S
  <2>3. s \in [1..Len(s) -> S]
    BY <2>1, <2>2
  <2>4. s \in Seq(S)
    BY <2>1, <2>3
  <2> QED BY <2>4 DEF S
<1> QED BY <1>1, <1>2 DEF Stamped, Stamp

LEMMA StampedElements ==
    ASSUME NEW s, Stamped(s)
    PROVE  /\ s \in Seq({s[i] : i \in DOMAIN s})
           /\ \A m \in {s[i] : i \in DOMAIN s} : Stamp(m)
           /\ Len(s) \in Nat /\ DOMAIN s = 1..Len(s)
<1>1. s \in Seq({s[i] : i \in DOMAIN s})
  BY DEF Stamped
<1> QED BY <1>1 DEF Stamped, Stamp

LEMMA StampedNothing == Stamped(<<>>)
<1>1. <<>> \in Seq({}) /\ DOMAIN <<>> = {}
  OBVIOUS
<1> QED BY <1>1, StampedIn

LEMMA StampedConcat ==
    ASSUME NEW s, NEW t, Stamped(s), Stamped(t)
    PROVE  Stamped(s \o t)
<1> DEFINE S == {s[i] : i \in DOMAIN s}
<1> DEFINE T == {t[i] : i \in DOMAIN t}
<1>1. s \in Seq(S) /\ t \in Seq(T) /\ \A m \in S \cup T : Stamp(m)
  BY StampedElements
<1> HIDE DEF S, T
<1>2. s \in Seq(S \cup T) /\ t \in Seq(S \cup T)
  BY <1>1, SeqMonotonic
<1>3. s \o t \in Seq(S \cup T)
  BY <1>2
<1> QED BY <1>1, <1>3, StampedIn

LEMMA StampedPart ==
    ASSUME NEW s, Stamped(s), NEW from \in Nat \ {0}, NEW to \in from..Len(s)
    PROVE  Stamped(SubSeq(s, from, to))
<1> DEFINE S == {s[i] : i \in DOMAIN s}
<1>1. /\ s \in Seq(S) /\ \A m \in S : Stamp(m)
      /\ Len(s) \in Nat /\ DOMAIN s = 1..Len(s)
  BY StampedElements
<1>2. \A i \in from..to : s[i] \in S
  BY <1>1
<1> HIDE DEF S
<1>3. SubSeq(s, from, to) \in Seq(S)
  BY <1>2, SubSeqProperties
<1> QED BY <1>1, <1>3, StampedIn

\* Masking a message or numbering it anew leaves its time alone.
LEMMA StampedCopy ==
    ASSUME NEW s, Stamped(s), NEW t, t = [i \in DOMAIN s |-> t[i]],
           \A i \in DOMAIN s : \/ t[i] = s[i]
                               \/ \E x : t[i] = [s[i] EXCEPT !.bare = x]
                               \/ \E x : t[i] = [s[i] EXCEPT !.seq = x]
    PROVE  Stamped(t)
<1>1. \A i \in DOMAIN s : Stamp(s[i])
  BY StampedElements
<1>2. ASSUME NEW m, Stamp(m), NEW x
      PROVE  Stamp([m EXCEPT !.bare = x]) /\ Stamp([m EXCEPT !.seq = x])
  <2>1. "ts" \in DOMAIN m /\ m.ts \in Int
    BY <1>2 DEF Stamp
  <2>2. [m EXCEPT !.bare = x].ts = m.ts /\ [m EXCEPT !.seq = x].ts = m.ts
    BY <2>1
  <2>3. DOMAIN [m EXCEPT !.bare = x] = DOMAIN m /\ DOMAIN [m EXCEPT !.seq = x] = DOMAIN m
    OBVIOUS
  <2> QED BY <2>1, <2>2, <2>3 DEF Stamp
<1>3. ASSUME NEW i \in DOMAIN s PROVE Stamp(t[i])
  <2>1. PICK m : m = s[i]
    OBVIOUS
  <2>2. \/ t[i] = m
        \/ \E x : t[i] = [m EXCEPT !.bare = x]
        \/ \E x : t[i] = [m EXCEPT !.seq = x]
    BY <2>1
  <2>3. Stamp(m)
    BY <1>1, <2>1
  <2>4. ASSUME NEW x, t[i] = [m EXCEPT !.bare = x] \/ t[i] = [m EXCEPT !.seq = x]
        PROVE  Stamp(t[i])
    <3>1. Stamp([m EXCEPT !.bare = x]) /\ Stamp([m EXCEPT !.seq = x])
      BY <1>2, <2>3
    <3> QED BY <2>4, <3>1
  <2> QED BY <2>2, <2>3, <2>4
<1> DEFINE T == {t[i] : i \in DOMAIN s}
<1>4. Len(s) \in Nat /\ DOMAIN s = 1..Len(s)
  BY StampedElements
<1>5. t = [i \in 1..Len(s) |-> t[i]] /\ \A i \in 1..Len(s) : t[i] \in T
  BY <1>4
<1>6. \A m \in T : Stamp(m)
  BY <1>3
<1> HIDE DEF T
<1>7. t \in Seq(T)
  <2>1. t \in [1..Len(s) -> T]
    BY <1>5
  <2> QED BY <1>4, <2>1
<1> QED BY <1>6, <1>7, StampedIn

LEMMA StampedDocument ==
    ASSUME NEW messages, Stamped(messages), NEW policy
    PROVE  Stamped(Redacted(messages, policy)) /\ Stamped(Renumbered(messages))
<1>1. PICK masked, numbered : masked = Redacted(messages, policy) /\ numbered = Renumbered(messages)
  OBVIOUS
<1>2. /\ masked = [i \in DOMAIN messages |-> masked[i]] /\ numbered = [i \in DOMAIN messages |-> numbered[i]]
      /\ \A i \in DOMAIN messages :
            masked[i] = messages[i] \/ \E x : masked[i] = [messages[i] EXCEPT !.bare = x]
      /\ \A i \in DOMAIN messages : \E x : numbered[i] = [messages[i] EXCEPT !.seq = x]
  BY <1>1 DEF Redacted, RedactMessage, Renumbered
<1>3. Stamped(masked)
  <2>1. \A i \in DOMAIN messages : \/ masked[i] = messages[i]
                                   \/ \E x : masked[i] = [messages[i] EXCEPT !.bare = x]
                                   \/ \E x : masked[i] = [messages[i] EXCEPT !.seq = x]
    BY <1>2
  <2> QED BY <1>2, <2>1, StampedCopy, Zenon
<1>4. Stamped(numbered)
  <2>1. \A i \in DOMAIN messages : \/ numbered[i] = messages[i]
                                   \/ \E x : numbered[i] = [messages[i] EXCEPT !.bare = x]
                                   \/ \E x : numbered[i] = [messages[i] EXCEPT !.seq = x]
    BY <1>2
  <2> QED BY <1>2, <2>1, StampedCopy, Zenon
<1> QED BY <1>1, <1>3, <1>4


LEMMA MaxOfRange ==
    ASSUME NEW k \in Nat, NEW s \in SUBSET (1..k), k \in s
    PROVE  Max(s) = k
<1>1. \A y \in s : k >= y
  OBVIOUS
<1>2. \A x \in s : (\A y \in s : x >= y) => x = k
  OBVIOUS
<1> QED BY <1>1, <1>2 DEF Max

\* What is left out by deduplication takes nothing from the rest.
LEMMA StampedRest ==
    ASSUME NEW messages, Stamped(messages), NEW removed
    PROVE  Stamped(Without(messages, removed))
<1> DEFINE S == {messages[i] : i \in DOMAIN messages}
           n == Len(messages)
           add(kept, m) == IF m.seq \in removed THEN kept ELSE Append(kept, m)
           value(it, s) == IF s = {} THEN <<>> ELSE add(it[s \ {Max(s)}], messages[Max(s)])
           fold == CHOOSE it : it = [s \in SUBSET DOMAIN messages |-> value(it, s)]
<1>1. Without(messages, removed) = fold[DOMAIN messages]
  BY DEF Without, FoldLeft, MapThenFoldSet
<1>2. /\ n \in Nat /\ DOMAIN messages = 1..n /\ messages \in Seq(S)
      /\ (\A m \in S : Stamp(m)) /\ \A i \in 1..n : messages[i] \in S
  BY StampedElements
<1> HIDE DEF S, n
<1> DEFINE Solves(g, k) == g = [s \in SUBSET (1..k) |-> value(g, s)]
           Unsolved == {k \in 0..n : ~\E g : Solves(g, k)}
<1>3. Unsolved = {}
  <2> SUFFICES ASSUME Unsolved # {} PROVE FALSE
    OBVIOUS
  <2>1. Unsolved \in SUBSET Nat
    BY <1>2
  <2>2. PICK k \in Unsolved : \A j \in Unsolved : k <= j
    <3> HIDE DEF Unsolved
    <3> QED BY <2>1, LeastNumber
  <2>3. k \in 0..n /\ ~\E g : Solves(g, k)
    OBVIOUS
  <2>4. CASE k = 0
    <3>1. PICK g : g = [s \in SUBSET (1..k) |-> <<>>]
      OBVIOUS
    <3>2. \A s \in SUBSET (1..k) : s = {}
      BY <2>4
    <3>3. Solves(g, k)
      BY <3>1, <3>2
    <3> QED BY <2>3, <3>3
  <2>5. CASE k # 0
    <3>1. k - 1 \in 0..n /\ ~(k <= k - 1) /\ k \in Nat
      BY <1>2, <2>3, <2>5
    <3>2. PICK g : Solves(g, k - 1)
      <4>1. k - 1 \notin Unsolved
        <5> HIDE DEF Unsolved
        <5> QED BY <2>2, <3>1
      <4> HIDE DEF Solves
      <4> QED BY <3>1, <4>1
    <3>3. PICK h : h = [s \in SUBSET (1..k) |-> IF k \in s THEN add(g[s \ {k}], messages[k]) ELSE g[s]]
      OBVIOUS
    <3> HIDE DEF add
    <3>4. \A s \in SUBSET (1..k) : k \notin s => s \in SUBSET (1..(k - 1)) /\ h[s] = g[s]
      BY <3>1, <3>3
    <3>5. ASSUME NEW s \in SUBSET (1..k) PROVE h[s] = value(h, s)
      <4>1. CASE k \in s
        <5>1. Max(s) = k /\ s # {}
          BY <3>1, <4>1, MaxOfRange
        <5>2. h[s \ {k}] = g[s \ {k}]
          BY <3>4
        <5>3. h[s] = add(g[s \ {k}], messages[k])
          BY <3>3, <4>1
        <5> QED BY <5>1, <5>2, <5>3
      <4>2. CASE k \notin s
        <5>1. s \in SUBSET (1..(k - 1)) /\ h[s] = g[s]
          BY <3>4, <4>2
        <5>2. h[s \ {Max(s)}] = g[s \ {Max(s)}]
          <6>1. s \ {Max(s)} \in SUBSET (1..k) /\ k \notin s \ {Max(s)}
            BY <4>2
          <6> QED BY <3>4, <6>1
        <5>3. g[s] = value(g, s)
          BY <3>2, <5>1
        <5> QED BY <5>1, <5>2, <5>3
      <4> QED BY <4>1, <4>2
    <3>6. Solves(h, k)
      <4> HIDE DEF value
      <4>1. h = [s \in SUBSET (1..k) |-> h[s]]
        BY <3>3
      <4> QED BY <3>5, <4>1
    <3> QED BY <2>3, <3>6
  <2> QED BY <2>4, <2>5
<1>4. \E g : Solves(g, n)
  <2>1. n \in 0..n
    BY <1>2
  <2>2. n \notin Unsolved
    <3> HIDE DEF Unsolved
    <3> QED BY <1>3
  <2> HIDE DEF Solves
  <2> QED BY <2>1, <2>2
<1>5. Solves(fold, n)
  <2> HIDE DEF value
  <2> QED BY <1>2, <1>4
<1> HIDE DEF fold
<1>6. \A s \in SUBSET (1..n) : fold[s] = value(fold, s)
  <2> HIDE DEF value
  <2> QED BY <1>5
<1> DEFINE Untyped == {k \in 0..n : fold[1..k] \notin Seq(S)}
<1>7. Untyped = {}
  <2> SUFFICES ASSUME Untyped # {} PROVE FALSE
    OBVIOUS
  <2>1. Untyped \in SUBSET Nat
    BY <1>2
  <2>2. PICK k \in Untyped : \A j \in Untyped : k <= j
    <3> HIDE DEF Untyped
    <3> QED BY <2>1, LeastNumber
  <2>3. k \in 0..n /\ fold[1..k] \notin Seq(S) /\ 1..k \in SUBSET (1..n)
    BY <1>2
  <2>4. fold[1..k] = value(fold, 1..k)
    <3> HIDE DEF value
    <3> QED BY <1>6, <2>3
  <2>5. k # 0
    <3> SUFFICES ASSUME k = 0 PROVE FALSE
      OBVIOUS
    <3>1. 1..k = {} /\ <<>> \in Seq(S)
      OBVIOUS
    <3> QED BY <2>3, <2>4, <3>1
  <2>6. k - 1 \in 0..n /\ ~(k <= k - 1) /\ k \in Nat /\ k \in 1..n
    BY <1>2, <2>3, <2>5
  <2>7. Max(1..k) = k /\ (1..k) \ {k} = 1..(k - 1) /\ 1..k # {}
    <3>1. 1..k \in SUBSET (1..k) /\ k \in 1..k
      BY <2>5, <2>6
    <3>2. Max(1..k) = k
      BY <2>6, <3>1, MaxOfRange
    <3>3. (1..k) \ {k} = 1..(k - 1)
      BY <2>6
    <3> QED BY <3>1, <3>2, <3>3
  <2>8. fold[1..(k - 1)] \in Seq(S)
    <3>1. k - 1 \notin Untyped
      <4> HIDE DEF Untyped
      <4> QED BY <2>2, <2>6
    <3> QED BY <2>6, <3>1
  <2>9. fold[1..k] = add(fold[1..(k - 1)], messages[k])
    <3> HIDE DEF add
    <3> QED BY <2>4, <2>7
  <2>10. messages[k] \in S
    BY <1>2, <2>6
  <2> QED BY <2>3, <2>8, <2>9, <2>10
<1>8. fold[DOMAIN messages] \in Seq(S)
  <2>1. n \in 0..n /\ n \notin Untyped
    <3> HIDE DEF Untyped
    <3> QED BY <1>2, <1>7
  <2> QED BY <1>2, <2>1
<1> QED BY <1>1, <1>2, <1>8, StampedIn

\* Messages of several sources in a row.
LEMMA StampedAll ==
    ASSUME NEW seqs, seqs \in Seq({seqs[i] : i \in DOMAIN seqs}), \A i \in DOMAIN seqs : Stamped(seqs[i])
    PROVE  Stamped(FlattenSeq(seqs))
<1> DEFINE n == Len(seqs)
           value(f, i) == IF i = 1 THEN seqs[i] ELSE f[i - 1] \o seqs[i]
           flatten == CHOOSE f : f = [i \in 1..n |-> value(f, i)]
<1>1. FlattenSeq(seqs) = IF n = 0 THEN seqs ELSE flatten[n]
  BY DEF FlattenSeq
<1>2. n \in Nat /\ DOMAIN seqs = 1..n
  OBVIOUS
<1>3. CASE n = 0
  <2>1. seqs = <<>>
    BY <1>3
  <2> QED BY <1>1, <1>3, <2>1, StampedNothing
<1>4. CASE n # 0
  <2> HIDE DEF n
  <2> DEFINE Solves(g, k) == g = [i \in 1..k |-> value(g, i)]
             Unsolved == {k \in 0..n : ~\E g : Solves(g, k)}
  <2>1. Unsolved = {}
    <3> SUFFICES ASSUME Unsolved # {} PROVE FALSE
      OBVIOUS
    <3>1. Unsolved \in SUBSET Nat
      <4> HIDE DEF Solves
      <4> QED BY <1>2
    <3>2. PICK k \in Unsolved : \A j \in Unsolved : k <= j
      <4> HIDE DEF Unsolved
      <4> QED BY <3>1, LeastNumber
    <3>3. k \in 0..n /\ ~\E g : Solves(g, k)
      OBVIOUS
    <3>4. CASE k = 0
      <4>1. PICK g : g = [i \in 1..k |-> seqs]
        OBVIOUS
      <4>2. 1..k = {}
        BY <3>4
      <4>3. Solves(g, k)
        BY <4>1, <4>2
      <4> QED BY <3>3, <4>3
    <3>5. CASE k # 0
      <4>1. k - 1 \in 0..n /\ ~(k <= k - 1) /\ k \in Nat
        BY <1>2, <3>3, <3>5
      <4>2. PICK g : Solves(g, k - 1)
        <5>1. k - 1 \notin Unsolved
          <6> HIDE DEF Unsolved
          <6> QED BY <3>2, <4>1
        <5> HIDE DEF Solves
        <5> QED BY <4>1, <5>1
      <4>3. PICK h : h = [i \in 1..k |-> value(g, i)]
        OBVIOUS
      <4>4. \A i \in 1..(k - 1) : h[i] = g[i]
        <5> HIDE DEF value
        <5>1. \A i \in 1..(k - 1) : i \in 1..k
          BY <4>1
        <5>2. \A i \in 1..(k - 1) : g[i] = value(g, i)
          BY <4>2
        <5> QED BY <4>3, <5>1, <5>2
      <4>5. ASSUME NEW i \in 1..k PROVE h[i] = value(h, i)
        <5>1. i # 1 => i - 1 \in 1..(k - 1)
          BY <4>1
        <5>2. i # 1 => h[i - 1] = g[i - 1]
          BY <4>4, <5>1
        <5> QED BY <4>3, <5>2
      <4>6. Solves(h, k)
        <5> HIDE DEF value
        <5>1. h = [i \in 1..k |-> h[i]]
          BY <4>3
        <5> QED BY <4>5, <5>1
      <4> QED BY <3>3, <4>6
    <3> QED BY <3>4, <3>5
  <2>2. \E g : Solves(g, n)
    <3>1. n \in 0..n
      BY <1>2
    <3>2. n \notin Unsolved
      <4> HIDE DEF Unsolved
      <4> QED BY <2>1
    <3> HIDE DEF Solves
    <3> QED BY <3>1, <3>2
  <2>3. Solves(flatten, n)
    <3> HIDE DEF value
    <3> QED BY <2>2
  <2> HIDE DEF flatten
  <2>4. \A i \in 1..n : flatten[i] = value(flatten, i)
    <3> HIDE DEF value
    <3> QED BY <2>3
  <2> DEFINE Unstamped == {k \in 1..n : ~Stamped(flatten[k])}
  <2>5. Unstamped = {}
    <3> SUFFICES ASSUME Unstamped # {} PROVE FALSE
      OBVIOUS
    <3>1. Unstamped \in SUBSET Nat
      BY <1>2
    <3>2. PICK k \in Unstamped : \A j \in Unstamped : k <= j
      <4> HIDE DEF Unstamped
      <4> QED BY <3>1, LeastNumber
    <3>3. k \in 1..n /\ ~Stamped(flatten[k])
      OBVIOUS
    <3>4. flatten[k] = value(flatten, k) /\ Stamped(seqs[k])
      <4> HIDE DEF value
      <4> QED BY <1>2, <2>4, <3>3
    <3>5. CASE k = 1
      BY <3>3, <3>4, <3>5
    <3>6. CASE k # 1
      <4>1. k - 1 \in 1..n /\ ~(k <= k - 1)
        BY <1>2, <3>3, <3>6
      <4>2. Stamped(flatten[k - 1])
        <5>1. k - 1 \notin Unstamped
          <6> HIDE DEF Unstamped
          <6> QED BY <3>2, <4>1
        <5> QED BY <4>1, <5>1
      <4>3. Stamped(flatten[k - 1] \o seqs[k])
        BY <3>4, <4>2, StampedConcat
      <4> QED BY <3>3, <3>4, <3>6, <4>3
    <3> QED BY <3>5, <3>6
  <2>6. n \in 1..n /\ n \notin Unstamped
    <3> HIDE DEF Unstamped
    <3> QED BY <1>2, <1>4, <2>5
  <2> QED BY <1>1, <1>4, <2>6
<1> QED BY <1>3, <1>4

\* Deduplication takes messages out of each of two sources.
LEMMA DeduplicatedTwo ==
    ASSUME NEW m, NEW n
    PROVE  \E x, y : DeduplicatedSources(<<m, n>>) = <<Without(m, x), Without(n, y)>>
<1> DEFINE sources == <<m, n>>
           base == [kept |-> <<>>, seen |-> {}]
           next(acc, messages) ==
               [kept |-> Append(acc.kept, deduplicate_source_messages(messages, acc.seen).messages),
                seen |-> deduplicate_source_messages(messages, acc.seen).seen]
           value(it, s) == IF s = {} THEN base ELSE next(it[s \ {Max(s)}], sources[Max(s)])
           fold == CHOOSE it : it = [s \in SUBSET DOMAIN sources |-> value(it, s)]
<1>1. DeduplicatedSources(<<m, n>>) = fold[DOMAIN sources].kept
  BY DEF DeduplicatedSources, FoldLeft, MapThenFoldSet
<1>2. /\ DOMAIN sources = {1, 2} /\ sources[1] = m /\ sources[2] = n
      /\ Max({1}) = 1 /\ Max({2}) = 2 /\ Max({1, 2}) = 2
      /\ {1} \ {1} = {} /\ {2} \ {2} = {} /\ {1, 2} \ {2} = {1}
      /\ {1} # {} /\ {2} # {} /\ {1, 2} # {} /\ {1} # {2} /\ {1} # {1, 2} /\ {2} # {1, 2}
  BY DEF Max
<1>3. \A s \in SUBSET DOMAIN sources : s \in {{}, {1}, {2}, {1, 2}}
  BY <1>2
<1>4. {{}, {1}, {2}, {1, 2}} \subseteq SUBSET DOMAIN sources
  BY <1>2
<1> HIDE DEF sources, base, next
<1>5. \E it : it = [s \in SUBSET DOMAIN sources |-> value(it, s)]
  <2>1. PICK one, two, both : one = next(base, m) /\ two = next(base, n) /\ both = next(one, n)
    OBVIOUS
  <2>2. PICK g : g = [s \in SUBSET DOMAIN sources |->
                         IF s = {} THEN base ELSE IF s = {1} THEN one ELSE IF s = {2} THEN two ELSE both]
    OBVIOUS
  <2>3. g[{}] = base /\ g[{1}] = one /\ g[{2}] = two /\ g[{1, 2}] = both
    <3> HIDE <1>3
    <3> QED BY <1>2, <1>4, <2>2
  <2>4. ASSUME NEW s \in SUBSET DOMAIN sources PROVE g[s] = value(g, s)
    <3>1. CASE s = {}
      BY <2>3, <3>1
    <3>2. CASE s = {1}
      BY <1>2, <2>1, <2>3, <3>2
    <3>3. CASE s = {2}
      BY <1>2, <2>1, <2>3, <3>3
    <3>4. CASE s = {1, 2}
      BY <1>2, <2>1, <2>3, <3>4
    <3> QED BY <1>3, <3>1, <3>2, <3>3, <3>4
  <2>5. g = [s \in SUBSET DOMAIN sources |-> value(g, s)]
    <3> HIDE DEF value
    <3> QED BY <2>2, <2>4
  <2> HIDE DEF value
  <2> QED BY <2>5
<1>6. \A s \in SUBSET DOMAIN sources : fold[s] = value(fold, s)
  <2>1. fold = [s \in SUBSET DOMAIN sources |-> value(fold, s)]
    <3> HIDE DEF value
    <3> QED BY <1>5
  <2> HIDE DEF fold, value
  <2> QED BY <2>1
<1> HIDE DEF fold
<1>7. fold[{}] = base
  BY <1>4, <1>6
<1>8. fold[{1}] = next(base, m)
  BY <1>2, <1>4, <1>6, <1>7
<1>9. fold[{1, 2}] = next(fold[{1}], n)
  BY <1>2, <1>4, <1>6
<1>10. ASSUME NEW acc, NEW messages
       PROVE  \E x : next(acc, messages).kept = Append(acc.kept, Without(messages, x))
  BY DEF next, deduplicate_source_messages
<1>11. PICK x : fold[{1}].kept = Append(<<>>, Without(m, x))
  <2>1. base.kept = <<>>
    BY DEF base
  <2> QED BY <1>8, <1>10, <2>1
<1>12. PICK y : fold[{1, 2}].kept = Append(fold[{1}].kept, Without(n, y))
  BY <1>9, <1>10
<1>13. fold[{1, 2}].kept = <<Without(m, x), Without(n, y)>>
  <2>1. PICK p, q : p = Without(m, x) /\ q = Without(n, y)
    OBVIOUS
  <2>2. Append(<<>>, p) = <<p>>
    OBVIOUS
  <2>3. fold[{1, 2}].kept = Append(<<p>>, q)
    BY <1>11, <1>12, <2>1, <2>2
  <2> QED BY <2>1, <2>3, AppendSecond
<1> QED BY <1>1, <1>2, <1>13

\* Whatever merge writes keeps the times of what it read.
LEMMA StampedMerge ==
    ASSUME NEW m, NEW n, Stamped(m), Stamped(n), NEW deduplicate
    PROVE  Stamped(MergedMessages(<<m, n>>, deduplicate))
<1>1. ASSUME NEW p, NEW q, Stamped(p), Stamped(q)
      PROVE  Stamped(FlattenSeq(<<p, q>>))
  <2>1. PICK both : both = <<p, q>>
    OBVIOUS
  <2>2. DOMAIN both = {1, 2} /\ both[1] = p /\ both[2] = q /\ both \in Seq({p, q})
    BY <2>1
  <2>3. {both[i] : i \in DOMAIN both} = {p, q}
    BY <2>2
  <2>4. both \in Seq({both[i] : i \in DOMAIN both})
    BY <2>2, <2>3
  <2>5. \A i \in DOMAIN both : Stamped(both[i])
    BY <1>1, <2>2
  <2> QED BY <2>1, <2>4, <2>5, StampedAll
<1>2. PICK x, y : DeduplicatedSources(<<m, n>>) = <<Without(m, x), Without(n, y)>>
  BY DeduplicatedTwo
<1>3. Stamped(Without(m, x)) /\ Stamped(Without(n, y))
  BY StampedRest
<1>4. Stamped(FlattenSeq(<<m, n>>)) /\ Stamped(FlattenSeq(DeduplicatedSources(<<m, n>>)))
  BY <1>1, <1>2, <1>3
<1>5. PICK all : all = FlattenSeq(IF deduplicate THEN DeduplicatedSources(<<m, n>>) ELSE <<m, n>>)
  OBVIOUS
<1>6. Stamped(all)
  BY <1>4, <1>5
<1>7. MergedMessages(<<m, n>>, deduplicate) = Renumbered(all)
  BY <1>5 DEF MergedMessages
<1> QED BY <1>6, <1>7, StampedDocument

LEMMA StampedCassette == Stamped(cassette_to_messages(Cassette))
<1>1. PICK all : all = [i \in DOMAIN Cassette |-> InteractionMessages(Cassette[i])]
  OBVIOUS
<1>2. Len(Cassette) \in Nat /\ DOMAIN Cassette = 1..Len(Cassette)
  BY StampedAssumption
<1>3. all \in Seq({all[i] : i \in DOMAIN all})
  <2> DEFINE T == {all[i] : i \in DOMAIN all}
  <2>1. all = [i \in 1..Len(Cassette) |-> all[i]] /\ \A i \in 1..Len(Cassette) : all[i] \in T
    BY <1>1, <1>2
  <2> HIDE DEF T
  <2>2. all \in [1..Len(Cassette) -> T]
    BY <2>1
  <2>3. all \in Seq(T)
    BY <1>2, <2>2
  <2> QED BY <2>3 DEF T
<1>4. \A i \in DOMAIN all : Stamped(all[i])
  BY <1>1, StampedAssumption
<1>5. Stamped(FlattenSeq(all))
  BY <1>3, <1>4, StampedAll
<1>6. cassette_to_messages(Cassette) = Renumbered(FlattenSeq(all))
  BY <1>1 DEF cassette_to_messages
<1> QED BY <1>5, <1>6, StampedDocument

\* The observations of one extraction, all made by one listing.
ObservedRows(observations) ==
    \A i, j \in DOMAIN observations :
        observations[i].at \in Int /\ observations[i].at = observations[j].at

StampedCommand(cmd) ==
    /\ cmd.op = "export" /\ cmd.stage = "publish" => Stamped(cmd.doc.messages)
    /\ cmd.op = "merge" => \A i \in DOMAIN cmd.messages : Stamped(cmd.messages[i])
    /\ cmd.op = "index" /\ cmd.stage = "policy" => Stamped(cmd.messages)
    /\ cmd.op = "index" /\ cmd.stage = "write" => ObservedRows(cmd.new.observations)

VersionRow(v) ==
    /\ v = [row |-> v.row, first_session |-> v.first_session, first |-> v.first, last |-> v.last]
    /\ v.first \in Int /\ v.last \in Int

\* Every time that is stored or about to be is a number.
StampInv ==
    /\ \A id \in SessionIds : Stamped(sessions[id].messages)
    /\ artifact # NoDocument => Stamped(artifact.doc.messages)
    /\ \A r \in Recorders : recording[r].next >= 1
    /\ \A c \in Clis : StampedCommand(command[c])
    /\ \A k \in DOMAIN memory.versions : VersionRow(memory.versions[k])

\* What a step of the rest of the database stores, and that it starts no rebuild.
SessionStamps ==
    \A id \in DOMAIN sessions' :
        \/ id \in SessionIds /\ sessions'[id].messages = sessions[id].messages
        \/ Stamped(sessions'[id].messages)

StepStamps ==
    /\ SessionStamps
    /\ UNCHANGED artifact \/ Stamped(artifact'.doc.messages)
    /\ \A r \in Recorders : recording'[r].next >= 1
    /\ \A c \in Clis : command'[c] = command[c] \/ (command'[c].op # "index" /\ StampedCommand(command'[c]))

LEMMA SameStamps ==
    ASSUME UNCHANGED sessions
    PROVE  SessionStamps
BY DEF SessionStamps, SessionIds

LEMMA InsertStamps ==
    ASSUME DataInv, NEW row, SessionRow(row), Insert(row), Stamped(row.messages)
    PROVE  SessionStamps
<1>1. /\ DOMAIN sessions' = SessionIds \cup {Len(sessions) + 1}
      /\ \A id \in SessionIds : sessions'[id] = sessions[id]
      /\ sessions'[Len(sessions) + 1] = row
  BY InsertSession DEF DataInv
<1> QED BY <1>1 DEF SessionStamps

LEMMA UpdateStamps ==
    ASSUME NEW at \in SessionIds, NEW row, sessions' = [sessions EXCEPT ![at] = row],
           row.messages = sessions[at].messages \/ Stamped(row.messages)
    PROVE  SessionStamps
<1>1. DOMAIN sessions' = SessionIds /\ sessions'[at] = row
      /\ \A id \in SessionIds \ {at} : sessions'[id] = sessions[id]
  BY DEF SessionIds
<1> QED BY <1>1 DEF SessionStamps

LEMMA UpdatedMessages ==
    ASSUME NEW s, SessionRow(s), NEW x, NEW y
    PROVE  /\ [s EXCEPT !.messages = x].messages = x
           /\ [s EXCEPT !.policy = x].messages = s.messages
           /\ [s EXCEPT !.dropped = x].messages = s.messages
           /\ [s EXCEPT !.ended = x, !.total = y].messages = s.messages
<1>1. "messages" \in DOMAIN s
  BY DEF SessionRow
<1> QED BY <1>1

LEMMA RecorderStamps ==
    ASSUME DataInv, StampInv, NEW r \in Recorders, RecorderStep(r)
    PROVE  StepStamps
<1> DEFINE at == recording[r].session
<1>0. UNCHANGED <<artifact, command>>
  BY DEF RecorderStep, create_session, set_redaction_policy, write_messages, LoseMessage,
         increment_dropped_messages, close_session, recorderFrame
<1>1. /\ recording \in [Recorders -> Recording]
      /\ recording[r].next \in Nat \ {0}
  BY DEF DataInv, TablesInv, Recording, StampInv
<1>2. ASSUME recording[r].phase \in {"created", "running"}
      PROVE  at \in SessionIds /\ SessionRow(sessions[at]) /\ Stamped(sessions[at].messages)
  <2>1. r \in Procs /\ Writing(r) /\ Target(r) = at
    BY <1>2 DEF Procs, Writing, Target
  <2> QED BY <2>1 DEF DataInv, TablesInv, WriterInv, StampInv
<1>3. ASSUME NEW rec, recording' = [recording EXCEPT ![r] = rec], rec.next >= 1, SessionStamps
      PROVE  StepStamps
  <2>1. \A q \in Recorders : recording'[q].next >= 1
    BY <1>1, <1>3 DEF StampInv
  <2> QED BY <1>0, <1>3, <2>1 DEF StepStamps
<1>4. PICK old : old = recording[r]
  OBVIOUS
<1>5. "next" \in DOMAIN old /\ old.next \in Nat \ {0}
  BY <1>1, <1>4 DEF Recording
<1>6. CASE create_session(r)
  <2>1. PICK row : row = NewSession(OpenSummary, <<>>, [kind |-> "record", of |-> <<>>])
    OBVIOUS
  <2>2. PICK rec : rec = [old EXCEPT !.phase = "created", !.session = Len(sessions) + 1]
    OBVIOUS
  <2>3. Insert(row) /\ recording' = [recording EXCEPT ![r] = rec]
    BY <1>4, <1>6, <2>1, <2>2 DEF create_session
  <2>4. SessionRow(row) /\ row.messages = <<>>
    BY <2>1, NewSessionRow DEF NewSession
  <2>5. rec.next >= 1
    BY <1>5, <2>2
  <2> QED BY <1>3, <2>3, <2>4, <2>5, StampedNothing, InsertStamps
<1>7. CASE set_redaction_policy(r)
  <2>1. PICK row, rec : row = [sessions[at] EXCEPT !.policy = "default"] /\ rec = [old EXCEPT !.phase = "running"]
    OBVIOUS
  <2>2. /\ recording[r].phase = "created" /\ recording' = [recording EXCEPT ![r] = rec]
        /\ sessions' = [sessions EXCEPT ![at] = row]
    BY <1>4, <1>7, <2>1 DEF set_redaction_policy
  <2>3. row.messages = sessions[at].messages
    BY <1>2, <2>1, <2>2, UpdatedMessages
  <2>4. rec.next >= 1
    BY <1>5, <2>1
  <2> QED BY <1>2, <1>3, <2>2, <2>3, <2>4, UpdateStamps
<1>8. CASE write_messages(r)
  <2>1. PICK last \in recording[r].next..Len(Script[r]) :
           /\ recording[r].phase = "running"
           /\ sessions' = [sessions EXCEPT ![at].messages =
                              @ \o SubSeq(Script[r], recording[r].next, last)]
           /\ recording' = [recording EXCEPT ![r].next = last + 1]
    BY <1>8 DEF write_messages
  <2>2. PICK text : text = sessions[at].messages \o SubSeq(Script[r], recording[r].next, last)
    OBVIOUS
  <2>3. PICK row, rec : row = [sessions[at] EXCEPT !.messages = text] /\ rec = [old EXCEPT !.next = last + 1]
    OBVIOUS
  <2>4. /\ recording' = [recording EXCEPT ![r] = rec]
        /\ sessions' = [sessions EXCEPT ![at] = row]
    BY <1>4, <2>1, <2>2, <2>3
  <2>5. Stamped(SubSeq(Script[r], recording[r].next, last))
    <3>1. Stamped(Script[r])
      BY StampedAssumption
    <3> QED BY <1>1, <2>1, <3>1, StampedPart
  <2>6. Stamped(text)
    BY <1>2, <2>1, <2>2, <2>5, StampedConcat
  <2>7. row.messages = text
    BY <1>2, <2>1, <2>3, UpdatedMessages
  <2>8. rec.next >= 1
    <3>1. last + 1 >= 1
      BY <1>1, <2>1
    <3>2. rec.next = last + 1
      BY <1>5, <2>3
    <3> QED BY <3>1, <3>2
  <2> QED BY <1>2, <1>3, <2>1, <2>4, <2>6, <2>7, <2>8, UpdateStamps
<1>9. CASE LoseMessage(r)
  <2>1. PICK rec : rec = [old EXCEPT !.next = old.next + 1, !.lost = old.lost + 1]
    OBVIOUS
  <2>2. recording' = [recording EXCEPT ![r] = rec] /\ UNCHANGED sessions
    BY <1>4, <1>9, <2>1 DEF LoseMessage
  <2>3. rec.next >= 1
    BY <1>5, <2>1
  <2> QED BY <1>3, <2>2, <2>3, SameStamps
<1>10. CASE increment_dropped_messages(r)
  <2>1. PICK count : count = sessions[at].dropped + recording[r].lost
    OBVIOUS
  <2>2. PICK row, rec : row = [sessions[at] EXCEPT !.dropped = count] /\ rec = [old EXCEPT !.lost = 0]
    OBVIOUS
  <2>3. /\ recording[r].phase = "running" /\ recording' = [recording EXCEPT ![r] = rec]
        /\ sessions' = [sessions EXCEPT ![at] = row]
    BY <1>4, <1>10, <2>1, <2>2 DEF increment_dropped_messages
  <2>4. row.messages = sessions[at].messages
    BY <1>2, <2>2, <2>3, UpdatedMessages
  <2>5. rec.next >= 1
    BY <1>5, <2>2
  <2> QED BY <1>2, <1>3, <2>3, <2>4, <2>5, UpdateStamps
<1>11. CASE close_session(r)
  <2>1. PICK row, rec : row = Closed(sessions[at]) /\ rec = [old EXCEPT !.phase = "ended"]
    OBVIOUS
  <2>2. /\ recording[r].phase = "running" /\ recording' = [recording EXCEPT ![r] = rec]
        /\ sessions' = [sessions EXCEPT ![at] = row]
    BY <1>4, <1>11, <2>1 DEF close_session
  <2>3. row.messages = sessions[at].messages
    BY <1>2, <2>1, <2>2, UpdatedMessages DEF Closed
  <2>4. rec.next >= 1
    BY <1>5, <2>1
  <2> QED BY <1>2, <1>3, <2>2, <2>3, <2>4, UpdateStamps
<1> QED BY <1>6, <1>7, <1>8, <1>9, <1>10, <1>11 DEF RecorderStep

LEMMA CommandStamps ==
    ASSUME DataInv, StampInv, NEW c \in Clis, NEW cmd, command' = [command EXCEPT ![c] = cmd],
           cmd.op # "index", StampedCommand(cmd), UNCHANGED recording, SessionStamps,
           UNCHANGED artifact \/ Stamped(artifact'.doc.messages)
    PROVE  StepStamps
<1>1. \A d \in Clis : command'[d] = command[d] \/ (command'[d].op # "index" /\ StampedCommand(command'[d]))
  BY DEF DataInv, TablesInv
<1> QED BY <1>1 DEF StepStamps, StampInv

LEMMA PlainStamps ==
    ASSUME DataInv, StampInv, NEW c \in Clis, NEW cmd, command' = [command EXCEPT ![c] = cmd],
           cmd.op \in {"idle", "promote", "vcr"}, UNCHANGED <<recording, artifact>>, SessionStamps
    PROVE  StepStamps
<1>1. cmd.op # "index" /\ StampedCommand(cmd)
  BY DEF StampedCommand
<1> QED BY <1>1, CommandStamps

LEMMA ExportStamps ==
    ASSUME DataInv, CopyInv, StampInv, NEW c \in Clis,
           StartExport(c) \/ ExportSummary(c) \/ ExportMessages(c) \/ PublishArtifact(c)
    PROVE  StepStamps
<1>0. UNCHANGED recording /\ SessionStamps
  BY SameStamps DEF StartExport, Start, ExportSummary, ExportMessages, Read, PublishArtifact, commandFrame
<1>1. Idle.op = "idle"
  BY DEF Idle
<1>2. PICK old : old = command[c]
  OBVIOUS
<1>3. CASE StartExport(c)
  <2>1. PICK op \in {"export", "promote"}, id \in SessionIds, name \in Names :
           Start(c, [op |-> op, session |-> id, name |-> name, stage |-> "summary"])
    BY <1>3 DEF StartExport
  <2>2. PICK new : new = [op |-> op, session |-> id, name |-> name, stage |-> "summary"]
    OBVIOUS
  <2>3. command' = [command EXCEPT ![c] = new] /\ UNCHANGED artifact
    BY <2>1, <2>2 DEF Start
  <2>4. new.op # "index" /\ StampedCommand(new)
    BY <2>2 DEF StampedCommand
  <2> QED BY <1>0, <2>3, <2>4, CommandStamps
<1>4. CASE ExportSummary(c)
  <2>1. PICK policy, new :
           /\ new = [op |-> old.op, session |-> old.session, name |-> old.name,
                     stage |-> "messages", summary |-> Summary(old.session), policy |-> policy]
           /\ command' = [command EXCEPT ![c] = IF policy = "refused" THEN Idle ELSE new]
           /\ old.op \in {"export", "promote"} /\ UNCHANGED artifact
    BY <1>2, <1>4 DEF ExportSummary, Read
  <2>2. CASE policy = "refused"
    <3>1. command' = [command EXCEPT ![c] = Idle]
      BY <2>1, <2>2
    <3> QED BY <1>0, <1>1, <2>1, <3>1, PlainStamps
  <2>3. CASE policy # "refused"
    <3>1. new.op # "index" /\ StampedCommand(new)
      BY <2>1 DEF StampedCommand
    <3>2. command' = [command EXCEPT ![c] = new]
      BY <2>1, <2>3
    <3> QED BY <1>0, <2>1, <3>1, <3>2, CommandStamps
  <2> QED BY <2>2, <2>3
<1>5. CASE ExportMessages(c)
  <2>1. PICK whole, doc, new :
           /\ doc = MtraceDocument(old.summary, sessions[old.session].messages, old.policy)
           /\ new = [op |-> old.op, session |-> old.session, name |-> old.name,
                     stage |-> IF old.op = "export" THEN "publish" ELSE "check", doc |-> doc]
           /\ command' = [command EXCEPT ![c] = IF ~whole THEN Idle ELSE new]
           /\ old.op \in {"export", "promote"} /\ UNCHANGED artifact
    BY <1>2, <1>5 DEF ExportMessages, Read
  <2>2. CASE ~whole
    <3>1. command' = [command EXCEPT ![c] = Idle]
      BY <2>1, <2>2
    <3> QED BY <1>0, <1>1, <2>1, <3>1, PlainStamps
  <2>3. CASE whole
    <3>1. new.op = old.op /\ new.doc = doc
      BY <2>1
    <3>2. command' = [command EXCEPT ![c] = new]
      BY <2>1, <2>3
    <3>3. old.op = "export" => Stamped(doc.messages)
      <4> SUFFICES ASSUME old.op = "export" PROVE Stamped(doc.messages)
        OBVIOUS
      <4>1. old.session \in SessionIds
        BY <1>2 DEF CopyInv, ExportInv
      <4>2. PICK text : text = sessions[old.session].messages
        OBVIOUS
      <4>3. Stamped(text)
        BY <4>1, <4>2 DEF StampInv
      <4>4. doc.messages = Redacted(text, old.policy)
        BY <2>1, <4>2 DEF MtraceDocument
      <4> QED BY <4>3, <4>4, StampedDocument
    <3>4. new.op # "index" /\ StampedCommand(new)
      BY <2>1, <3>1, <3>3 DEF StampedCommand
    <3> QED BY <1>0, <2>1, <3>2, <3>4, CommandStamps
  <2> QED BY <2>2, <2>3
<1>6. CASE PublishArtifact(c)
  <2>1. /\ command' = [command EXCEPT ![c] = Idle] /\ old.op = "export" /\ old.stage = "publish"
        /\ artifact' = artifact \/ artifact' = [doc |-> old.doc, of |-> old.session]
    BY <1>2, <1>6 DEF PublishArtifact, Finish
  <2>2. Stamped(old.doc.messages)
    BY <1>2, <2>1 DEF StampInv, StampedCommand
  <2>3. UNCHANGED artifact \/ Stamped(artifact'.doc.messages)
    BY <2>1, <2>2
  <2>4. Idle.op # "index" /\ StampedCommand(Idle)
    BY DEF Idle, StampedCommand
  <2> QED BY <1>0, <2>1, <2>3, <2>4, CommandStamps
<1> QED BY <1>3, <1>4, <1>5, <1>6

LEMMA PromoteStamps ==
    ASSUME DataInv, StampInv, NEW c \in Clis,
           \/ CheckSummary(c) \/ CheckMessages(c) \/ SelectCandidate(c) \/ promote_baseline(c)
           \/ create_baseline_candidate(c) \/ revoke_baseline(c)
    PROVE  StepStamps
<1>0. UNCHANGED <<recording, artifact>> /\ SessionStamps
  BY SameStamps DEF CheckSummary, CheckMessages, SelectCandidate, promote_baseline, Read,
                    create_baseline_candidate, revoke_baseline, commandFrame
<1>1. Idle.op = "idle"
  BY DEF Idle
<1>2. PICK old : old = command[c]
  OBVIOUS
<1>3. CASE CheckSummary(c)
  <2>1. PICK new :
           /\ new = [op |-> "promote", session |-> old.session, name |-> old.name,
                     stage |-> "checkMessages", doc |-> old.doc, summary |-> Summary(old.session)]
           /\ command' = [command EXCEPT ![c] = new]
    BY <1>2, <1>3 DEF CheckSummary, Read
  <2>2. new.op = "promote"
    BY <2>1
  <2> QED BY <1>0, <2>1, <2>2, PlainStamps
<1>4. CASE CheckMessages(c)
  <2>1. PICK whole, new :
           new = Checked(old) /\ command' = [command EXCEPT ![c] = IF whole THEN new ELSE Idle]
    BY <1>2, <1>4 DEF CheckMessages, Read
  <2>2. new.op = "promote"
    BY <2>1 DEF Checked
  <2>3. PICK next : next = IF whole THEN new ELSE Idle
    OBVIOUS
  <2>4. next.op \in {"promote", "idle"} /\ command' = [command EXCEPT ![c] = next]
    BY <1>1, <2>1, <2>2, <2>3
  <2> QED BY <1>0, <2>4, PlainStamps
<1>5. CASE SelectCandidate(c)
  <2>1. \/ command' = [command EXCEPT ![c] = Idle]
        \/ \E row : command' = [command EXCEPT ![c] =
               [op |-> "promote", session |-> old.session, name |-> old.name,
                stage |-> "update", doc |-> old.doc, row |-> row]]
    BY <1>2, <1>5 DEF SelectCandidate, Finish
  <2>2. CASE command' = [command EXCEPT ![c] = Idle]
    BY <1>0, <1>1, <2>2, PlainStamps
  <2>3. ASSUME NEW row, NEW new,
               new = [op |-> "promote", session |-> old.session, name |-> old.name,
                      stage |-> "update", doc |-> old.doc, row |-> row],
               command' = [command EXCEPT ![c] = new]
        PROVE  StepStamps
    <3>1. new.op = "promote"
      BY <2>3
    <3> QED BY <1>0, <2>3, <3>1, PlainStamps
  <2> QED BY <2>1, <2>2, <2>3
<1>6. CASE promote_baseline(c)
  <2>1. command' = [command EXCEPT ![c] = Idle]
    BY <1>6 DEF promote_baseline, Finish
  <2> QED BY <1>0, <1>1, <2>1, PlainStamps
<1>7. CASE create_baseline_candidate(c) \/ revoke_baseline(c)
  <2>1. UNCHANGED command
    BY <1>7 DEF create_baseline_candidate, revoke_baseline
  <2> QED BY <1>0, <2>1 DEF StepStamps, StampInv
<1> QED BY <1>3, <1>4, <1>5, <1>6, <1>7

LEMMA MergeStamps ==
    ASSUME DataInv, CopyInv, StampInv, NEW c \in Clis, StartMerge(c) \/ MergeSummary(c) \/ MergeMessages(c)
    PROVE  StepStamps
<1>0. UNCHANGED <<recording, artifact>> /\ SessionStamps
  BY SameStamps DEF StartMerge, Start, MergeSummary, MergeMessages, Read, commandFrame
<1>1. PICK old : old = command[c]
  OBVIOUS
<1>2. ASSUME NEW new, new.op = "merge", \A i \in DOMAIN new.messages : Stamped(new.messages[i]),
             command' = [command EXCEPT ![c] = new]
      PROVE  StepStamps
  <2>1. new.op # "index" /\ StampedCommand(new)
    BY <1>2 DEF StampedCommand
  <2> QED BY <1>0, <1>2, <2>1, CommandStamps
<1>3. CASE StartMerge(c)
  <2>1. PICK ids, new :
           /\ new = [op |-> "merge", of |-> ids, stage |-> "summary", summaries |-> <<>>, messages |-> <<>>]
           /\ command' = [command EXCEPT ![c] = new]
    BY <1>3 DEF StartMerge, Start
  <2>2. new.op = "merge" /\ DOMAIN new.messages = {}
    BY <2>1
  <2> QED BY <1>2, <2>1, <2>2
<1>4. ASSUME MergeSummary(c) \/ MergeMessages(c)
      PROVE  StepStamps
  <2>0. old.op = "merge" /\ \A i \in DOMAIN old.messages : Stamped(old.messages[i])
    BY <1>1, <1>4 DEF MergeSummary, MergeMessages, StampInv, StampedCommand
  <2>1. PICK a \in SessionIds, b \in SessionIds : MergeOf(old, a, b)
    BY <1>1, <2>0 DEF CopyInv, MergeInv
  <2>2. CASE MergeSummary(c)
    <3>1. PICK again, next, summaries :
             /\ next = [old EXCEPT !.summaries = summaries, !.stage = "messages"]
             /\ command' = [command EXCEPT ![c] = IF again THEN Idle ELSE next]
      BY <1>1, <2>2 DEF MergeSummary, Read
    <3>2. CASE again
      <4>1. command' = [command EXCEPT ![c] = Idle] /\ Idle.op = "idle"
        BY <3>1, <3>2 DEF Idle
      <4> QED BY <1>0, <4>1, PlainStamps
    <3>3. CASE ~again
      <4>1. \E ids, stage, s, m : old = MergeCommand(ids, stage, s, m)
        BY <2>1, Zenon DEF MergeOf
      <4>2. next.op = old.op /\ next.messages = old.messages
        BY <3>1, <4>1 DEF MergeCommand
      <4>3. command' = [command EXCEPT ![c] = next]
        BY <3>1, <3>3
      <4> QED BY <1>2, <2>0, <4>2, <4>3
    <3> QED BY <3>2, <3>3
  <2>3. CASE MergeMessages(c)
    <3>1. PICK at, next, stage :
             /\ at = Len(old.messages) + 1 /\ old.stage = "messages"
             /\ next = [old EXCEPT !.messages = Append(@, sessions[old.of[at]].messages), !.stage = stage]
             /\ command' = [command EXCEPT ![c] = next]
      BY <1>1, <2>3 DEF MergeMessages, Read
    <3>2. \/ \E s : old = MergeCommand(<<a, b>>, "messages", <<s>>, <<>>)
          \/ \E s, m, t : old = MergeCommand(<<a, b>>, "messages", <<s, t>>, <<m>>)
      <4>1. \A s, m, ids : MergeCommand(ids, "summary", s, m).stage # "messages"
                           /\ MergeCommand(ids, "insert", s, m).stage # "messages"
        BY DEF MergeCommand
      <4> QED BY <2>1, <3>1, <4>1 DEF MergeOf
    <3>3. ASSUME NEW s, old = MergeCommand(<<a, b>>, "messages", <<s>>, <<>>)
          PROVE  StepStamps
      <4>1. PICK m : m = sessions[a].messages
        OBVIOUS
      <4>2. old.messages = <<>> /\ old.of = <<a, b>> /\ at = 1 /\ old.of[at] = a
        BY <3>1, <3>3 DEF MergeCommand
      <4>3. next = [old EXCEPT !.messages = <<m>>, !.stage = stage]
        <5>1. Append(<<>>, m) = <<m>>
          BY AppendSecond
        <5> QED BY <3>1, <4>1, <4>2, <5>1, Zenon
      <4>4. next.op = "merge" /\ next.messages = <<m>>
        BY <3>3, <4>3 DEF MergeCommand
      <4>5. Stamped(m)
        BY <4>1 DEF StampInv
      <4>6. DOMAIN <<m>> = {1} /\ <<m>>[1] = m
        OBVIOUS
      <4>7. \A i \in DOMAIN next.messages : Stamped(next.messages[i])
        BY <4>4, <4>5, <4>6
      <4> QED BY <1>2, <3>1, <4>4, <4>7
    <3>4. ASSUME NEW s, NEW m, NEW t, old = MergeCommand(<<a, b>>, "messages", <<s, t>>, <<m>>)
          PROVE  StepStamps
      <4>1. PICK n : n = sessions[b].messages
        OBVIOUS
      <4>2. old.messages = <<m>> /\ old.of = <<a, b>> /\ at = 2 /\ old.of[at] = b
        BY <3>1, <3>4 DEF MergeCommand
      <4>3. next = [old EXCEPT !.messages = <<m, n>>, !.stage = stage]
        <5>1. Append(<<m>>, n) = <<m, n>>
          BY AppendSecond
        <5> QED BY <3>1, <4>1, <4>2, <5>1, Zenon
      <4>4. next.op = "merge" /\ next.messages = <<m, n>>
        BY <3>4, <4>3 DEF MergeCommand
      <4>5. Stamped(m) /\ Stamped(n)
        BY <2>0, <4>1, <4>2 DEF StampInv
      <4>6. DOMAIN <<m, n>> = {1, 2} /\ <<m, n>>[1] = m /\ <<m, n>>[2] = n
        OBVIOUS
      <4>7. \A i \in DOMAIN next.messages : Stamped(next.messages[i])
        BY <4>4, <4>5, <4>6
      <4> QED BY <1>2, <3>1, <4>4, <4>7
    <3> QED BY <3>2, <3>3, <3>4
  <2> QED BY <1>4, <2>2, <2>3
<1> QED BY <1>3, <1>4

LEMMA InsertingStamps ==
    ASSUME DataInv, CopyInv, StampInv, NEW c \in Clis,
           import_mtrace_document(c) \/ merge_sessions(c) \/ ImportVcrCreate(c)
    PROVE  StepStamps
<1>0. UNCHANGED <<recording, artifact>>
  BY DEF import_mtrace_document, merge_sessions, ImportVcrCreate, commandFrame
<1>1. Idle.op = "idle"
  BY DEF Idle
<1>2. CASE import_mtrace_document(c)
  <2>1. PICK row : row = NewSession(artifact.doc, artifact.doc.messages,
                                    [kind |-> "import", of |-> <<artifact.of>>])
    OBVIOUS
  <2>2. Insert(row) /\ UNCHANGED command /\ artifact # NoDocument
    BY <1>2, <2>1 DEF import_mtrace_document
  <2>3. SessionRow(row) /\ row.messages = artifact.doc.messages
    BY <2>1, NewSessionRow DEF NewSession
  <2>4. SessionStamps
    BY <2>2, <2>3, InsertStamps DEF StampInv
  <2> QED BY <1>0, <2>2, <2>4 DEF StepStamps, StampInv
<1>3. CASE merge_sessions(c)
  <2>1. PICK old : old = command[c]
    OBVIOUS
  <2>2. /\ command' = [command EXCEPT ![c] = Idle] /\ old.op = "merge" /\ old.stage = "insert"
        /\ InsertMerged(old, old.summaries) \/ UNCHANGED sessions
    BY <1>3, <2>1 DEF merge_sessions, Finish
  <2>3. CASE UNCHANGED sessions
    BY <1>0, <1>1, <2>2, <2>3, PlainStamps, SameStamps
  <2>4. CASE InsertMerged(old, old.summaries)
    <3>1. PICK a \in SessionIds, b \in SessionIds : MergeOf(old, a, b)
      BY <2>1, <2>2 DEF CopyInv, MergeInv
    <3>2. \A s, m, ids : MergeCommand(ids, "summary", s, m).stage # "insert"
                         /\ MergeCommand(ids, "messages", s, m).stage # "insert"
      BY DEF MergeCommand
    <3>3. PICK s, m, t, n : old = MergeCommand(<<a, b>>, "insert", <<s, t>>, <<m, n>>)
      BY <2>2, <3>1, <3>2, Zenon DEF MergeOf
    <3>4. old.of = <<a, b>> /\ old.summaries = <<s, t>> /\ old.messages = <<m, n>>
      BY <3>3 DEF MergeCommand
    <3>5. PICK deduplicate, row :
             /\ row = NewSession(MergedSummary(<<s, t>>), MergedMessages(<<m, n>>, deduplicate),
                                 [kind |-> "merge", of |-> <<a, b>>, deduplicated |-> deduplicate])
             /\ Insert(row)
      BY <2>4, <3>4, Zenon DEF InsertMerged
    <3>6. SessionRow(row) /\ row.messages = MergedMessages(<<m, n>>, deduplicate)
      BY <3>5, NewSessionRow DEF NewSession
    <3>7. Stamped(m) /\ Stamped(n)
      <4>1. \A i \in DOMAIN old.messages : Stamped(old.messages[i])
        BY <2>1, <2>2 DEF StampInv, StampedCommand
      <4>2. DOMAIN <<m, n>> = {1, 2} /\ <<m, n>>[1] = m /\ <<m, n>>[2] = n
        OBVIOUS
      <4> QED BY <3>4, <4>1, <4>2
    <3>8. Stamped(row.messages)
      BY <3>6, <3>7, StampedMerge
    <3>9. SessionStamps
      BY <3>5, <3>6, <3>8, InsertStamps
    <3> QED BY <1>0, <1>1, <2>2, <3>9, PlainStamps
  <2> QED BY <2>2, <2>3, <2>4
<1>4. CASE ImportVcrCreate(c)
  <2>1. PICK row, new :
           /\ row = NewSession(OpenSummary, <<>>, [kind |-> "vcr", of |-> <<>>])
           /\ new = [op |-> "vcr", stage |-> "write", session |-> Len(sessions) + 1]
    OBVIOUS
  <2>2. Insert(row) /\ command' = [command EXCEPT ![c] = new]
    BY <1>4, <2>1 DEF ImportVcrCreate
  <2>3. SessionRow(row) /\ row.messages = <<>>
    BY <2>1, NewSessionRow DEF NewSession
  <2>4. new.op = "vcr"
    BY <2>1
  <2>5. SessionStamps
    BY <2>2, <2>3, StampedNothing, InsertStamps
  <2> QED BY <1>0, <2>2, <2>4, <2>5, PlainStamps
<1> QED BY <1>2, <1>3, <1>4

LEMMA VcrStamps ==
    ASSUME DataInv, StampInv, NEW c \in Clis, ImportVcrWrite(c) \/ ImportVcrClose(c)
    PROVE  StepStamps
<1>0. UNCHANGED <<recording, artifact>>
  BY DEF ImportVcrWrite, ImportVcrClose, commandFrame
<1>1. PICK old, at : old = command[c] /\ at = old.session
  OBVIOUS
<1>2. at \in SessionIds /\ SessionRow(sessions[at])
  <2>1. c \in Procs /\ Writing(c) /\ Target(c) = at
    BY <1>1, ProcAssumption DEF Procs, Writing, Target, ImportVcrWrite, ImportVcrClose
  <2> QED BY <2>1 DEF DataInv, TablesInv, WriterInv
<1>3. PICK s : s = sessions[at] /\ SessionRow(s)
  BY <1>2
<1>4. CASE ImportVcrWrite(c)
  <2>1. PICK text, row, new :
           /\ text = cassette_to_messages(Cassette)
           /\ row = [s EXCEPT !.messages = text]
           /\ new = [op |-> "vcr", stage |-> "close", session |-> at]
    OBVIOUS
  <2>2. /\ sessions' = [sessions EXCEPT ![at] = row]
        /\ command' = [command EXCEPT ![c] = new]
    BY <1>1, <1>3, <1>4, <2>1 DEF ImportVcrWrite
  <2>3. row.messages = text
    BY <1>3, <2>1, UpdatedMessages
  <2>4. SessionStamps
    BY <1>2, <2>1, <2>2, <2>3, StampedCassette, UpdateStamps
  <2>5. new.op = "vcr"
    BY <2>1
  <2> QED BY <1>0, <2>2, <2>4, <2>5, PlainStamps
<1>5. CASE ImportVcrClose(c)
  <2>1. PICK n, row : n = Len(s.messages) /\ row = [s EXCEPT !.ended = TRUE, !.total = n]
    OBVIOUS
  <2>2. /\ sessions' = [sessions EXCEPT ![at] = row]
        /\ command' = [command EXCEPT ![c] = Idle]
    BY <1>1, <1>3, <1>5, <2>1 DEF ImportVcrClose, Closed, Finish
  <2>3. row.messages = s.messages
    BY <1>3, <2>1, UpdatedMessages
  <2>4. SessionStamps
    BY <1>2, <1>3, <2>2, <2>3, UpdateStamps
  <2>5. Idle.op = "idle"
    BY DEF Idle
  <2> QED BY <1>0, <2>2, <2>4, <2>5, PlainStamps
<1> QED BY <1>4, <1>5

LEMMA NextStamps ==
    ASSUME DataInv, CopyInv, StampInv, Next
    PROVE  StepStamps
<1>1. ASSUME NEW p \in Procs, OpenStep(p)
      PROVE  StepStamps
  <2>1. UNCHANGED data
    BY <1>1 DEF OpenStep, Bootstrap, BeginMigration, ApplyMigration, CommitMigration, GiveUpOpening
  <2>2. UNCHANGED <<command, recording, artifact, sessions>>
    BY <2>1 DEF data
  <2> QED BY <2>2, SameStamps DEF StepStamps, StampInv
<1>2. ASSUME NEW p \in Procs, Crash(p)
      PROVE  StepStamps
  <2>1. /\ UNCHANGED <<sessions, artifact>>
        /\ command' = [c \in Clis |-> IF c = p THEN Idle ELSE command[c]]
        /\ recording' = [r \in Recorders |-> IF r = p /\ recording[r].phase # "new"
                                             THEN [recording[r] EXCEPT !.phase = "ended"] ELSE recording[r]]
    BY <1>2 DEF Crash
  <2>2. ASSUME NEW r \in Recorders PROVE recording'[r].next >= 1
    <3>1. recording[r] \in Recording /\ recording[r].next >= 1
      BY DEF DataInv, TablesInv, Recording, StampInv
    <3>2. [recording[r] EXCEPT !.phase = "ended"].next = recording[r].next
      BY <3>1 DEF Recording
    <3> QED BY <2>1, <3>1, <3>2
  <2>3. Idle.op # "index" /\ StampedCommand(Idle)
    BY DEF Idle, StampedCommand
  <2> QED BY <2>1, <2>2, <2>3, SameStamps DEF StepStamps
<1>3. ASSUME NEW c \in Clis, CommandStep(c)
      PROVE  StepStamps
  BY <1>3, ExportStamps, PromoteStamps, MergeStamps, InsertingStamps, VcrStamps DEF CommandStep
<1> QED BY <1>1, <1>2, <1>3, RecorderStamps DEF Next

LEMMA StampStoreStep ==
    ASSUME StampInv, StepStamps, UNCHANGED memory
    PROVE  StampInv'
BY DEF StampInv, StepStamps, SessionStamps, SessionIds

-----------------------------------------------------------------------------
(* The derived tables *)

LEMMA ObservedNumber ==
    ASSUME NEW messages, Stamped(messages), NEW exchange
    PROVE  ObservedAt(exchange, messages) \in Int
<1>1. PICK at : /\ at \subseteq DOMAIN messages
                /\ ObservedAt(exchange, messages) = IF at = {} THEN 0 ELSE messages[CHOOSE i \in at : TRUE].ts
  BY DEF ObservedAt
<1>2. at # {} => (CHOOSE i \in at : TRUE) \in at
  OBVIOUS
<1>3. \A i \in DOMAIN messages : messages[i].ts \in Int
  BY DEF Stamped
<1> QED BY <1>1, <1>2, <1>3

LEMMA ExtractedRows ==
    ASSUME NEW messages, Stamped(messages), NEW id, NEW policy
    PROVE  ObservedRows(extract_session_memory(id, messages, policy).observations)
<1>1. PICK exchanges : extract_session_memory(id, messages, policy).observations
                           = extract_tool_versions(exchanges, messages)
  BY DEF extract_session_memory
<1>2. PICK latest, rows : /\ rows = extract_tool_versions(exchanges, messages)
                          /\ \A i \in DOMAIN rows : rows[i].at = ObservedAt(latest, messages)
  <2> DEFINE latest == Last(Listings(exchanges))
             listing == MessageAt(messages, latest.resp)
             tools == IF Listings(exchanges) = <<>> THEN <<>> ELSE SetToSeq(DOMAIN listing.tools)
             rows == [i \in DOMAIN tools |-> [tool |-> tools[i], hash |-> listing.tools[tools[i]],
                                              seq |-> listing.seq, at |-> ObservedAt(latest, messages)]]
  <2>1. extract_tool_versions(exchanges, messages) = rows
    BY DEF extract_tool_versions
  <2> HIDE DEF latest, listing, tools
  <2>2. \A i \in DOMAIN rows : rows[i].at = ObservedAt(latest, messages)
    OBVIOUS
  <2> HIDE DEF rows
  <2> QED BY <2>1, <2>2
<1>3. ObservedAt(latest, messages) \in Int
  BY ObservedNumber
<1> QED BY <1>1, <1>2, <1>3 DEF ObservedRows

\* A row as it is after its conflict with an observation.
LEMMA UpdatedVersion ==
    ASSUME NEW v, VersionRow(v), NEW at \in Int, NEW id
    PROVE  LET new == [v EXCEPT !.first_session = IF at < v.first THEN id ELSE @,
                                !.first = IF at < @ THEN at ELSE @,
                                !.last  = IF at > @ THEN at ELSE @]
           IN  /\ VersionRow(new)
               /\ new.first <= v.first /\ v.last <= new.last
               /\ new.first <= at /\ at <= new.last
               /\ v.first <= at /\ at <= v.last => new = v
<1>1. PICK w, x, y, z : /\ v = [row |-> w, first_session |-> x, first |-> y, last |-> z]
                        /\ y \in Int /\ z \in Int
  BY DEF VersionRow
<1> DEFINE new == [v EXCEPT !.first_session = IF at < v.first THEN id ELSE @,
                            !.first = IF at < @ THEN at ELSE @,
                            !.last  = IF at > @ THEN at ELSE @]
           session == IF at < y THEN id ELSE x
           first == IF at < y THEN at ELSE y
           last == IF at > z THEN at ELSE z
<1>2. v.first = y /\ v.last = z /\ v.first_session = x
  BY <1>1
<1>3. new = [row |-> w, first_session |-> session, first |-> first, last |-> last]
  <2>1. PICK one : one = [v EXCEPT !.first_session = session]
    OBVIOUS
  <2>2. one = [row |-> w, first_session |-> session, first |-> y, last |-> z]
    BY <1>1, <2>1
  <2>3. PICK two : two = [one EXCEPT !.first = first]
    OBVIOUS
  <2>4. two = [row |-> w, first_session |-> session, first |-> first, last |-> z]
    BY <2>2, <2>3
  <2>5. PICK three : three = [two EXCEPT !.last = last]
    OBVIOUS
  <2>6. three = [row |-> w, first_session |-> session, first |-> first, last |-> last]
    BY <2>4, <2>5
  <2>7. new = three
    BY <1>2, <2>1, <2>2, <2>3, <2>4, <2>5
  <2> QED BY <2>6, <2>7
<1>4. first \in Int /\ last \in Int
  BY <1>1
<1>5. first <= y /\ z <= last /\ first <= at /\ at <= last
  BY <1>1
<1>6. y <= at /\ at <= z => first = y /\ last = z /\ session = x
  BY <1>1
<1> HIDE DEF new, first, last, session
<1>7. new.row = w /\ new.first_session = session /\ new.first = first /\ new.last = last
  BY <1>3
<1>8. VersionRow(new)
  BY <1>3, <1>4, <1>7 DEF VersionRow
<1>9. y <= at /\ at <= z => new = v
  BY <1>1, <1>3, <1>6
<1>10. /\ VersionRow(new)
       /\ new.first <= v.first /\ v.last <= new.last
       /\ new.first <= at /\ at <= new.last
       /\ v.first <= at /\ at <= v.last => new = v
  BY <1>2, <1>5, <1>7, <1>8, <1>9
<1> QED BY <1>10 DEF new

\* Observations widen the rows they meet and add those they do not, and what
\* the table already says changes nothing.
LEMMA UpsertedRows ==
    ASSUME NEW versions, \A k \in DOMAIN versions : VersionRow(versions[k]),
           versions = [k \in DOMAIN versions |-> versions[k]],
           NEW observations, ObservedRows(observations), NEW id,
           NEW new, new = Upserted(versions, id, observations)
    PROVE  /\ new = [k \in DOMAIN new |-> new[k]] /\ \A k \in DOMAIN new : VersionRow(new[k])
           /\ \A k \in DOMAIN versions :
                 k \in DOMAIN new /\ new[k].first <= versions[k].first /\ versions[k].last <= new[k].last
           /\ \A i \in DOMAIN observations :
                 LET k == VersionOf(observations[i])
                 IN  k \in DOMAIN new /\ new[k].first <= observations[i].at /\ observations[i].at <= new[k].last
           /\ (\A i \in DOMAIN observations :
                  LET k == VersionOf(observations[i])
                  IN  /\ k \in DOMAIN versions
                      /\ versions[k].first <= observations[i].at /\ observations[i].at <= versions[k].last)
              => new = versions
<1> DEFINE keys == {VersionOf(observations[i]) : i \in DOMAIN observations}
           at(k) == observations[CHOOSE i \in DOMAIN observations : VersionOf(observations[i]) = k].at
           started(k) == [row |-> Cardinality(DOMAIN versions), first_session |-> id,
                          first |-> at(k), last |-> at(k)]
           widened(k) == [versions[k] EXCEPT
                             !.first_session = IF at(k) < versions[k].first THEN id ELSE @,
                             !.first = IF at(k) < @ THEN at(k) ELSE @,
                             !.last  = IF at(k) > @ THEN at(k) ELSE @]
<1>1. new = [k \in DOMAIN versions \cup keys |->
                IF k \notin keys THEN versions[k] ELSE IF k \notin DOMAIN versions THEN started(k) ELSE widened(k)]
  BY DEF Upserted
<1>2. \A k \in keys : at(k) \in Int /\ \A i \in DOMAIN observations : observations[i].at = at(k)
  <2> SUFFICES ASSUME NEW k \in keys
               PROVE  at(k) \in Int /\ \A i \in DOMAIN observations : observations[i].at = at(k)
    OBVIOUS
  <2>1. PICK j : j = CHOOSE i \in DOMAIN observations : VersionOf(observations[i]) = k
    OBVIOUS
  <2>2. j \in DOMAIN observations
    BY <2>1
  <2> QED BY <2>1, <2>2 DEF ObservedRows
<1>3. ASSUME NEW k \in keys, k \in DOMAIN versions
      PROVE  /\ VersionRow(widened(k))
             /\ widened(k).first <= versions[k].first /\ versions[k].last <= widened(k).last
             /\ widened(k).first <= at(k) /\ at(k) <= widened(k).last
             /\ versions[k].first <= at(k) /\ at(k) <= versions[k].last => widened(k) = versions[k]
  <2>1. VersionRow(versions[k]) /\ at(k) \in Int
    BY <1>2, <1>3
  <2> HIDE DEF at
  <2> QED BY <2>1, UpdatedVersion
<1>4. ASSUME NEW k \in keys
      PROVE  /\ VersionRow(started(k))
             /\ started(k).first <= at(k) /\ at(k) <= started(k).last
  <2>1. at(k) \in Int
    BY <1>2
  <2> HIDE DEF at
  <2> QED BY <2>1 DEF VersionRow
<1>5. \A i \in DOMAIN observations : VersionOf(observations[i]) \in keys
  OBVIOUS
<1>6. \A k \in keys : \E i \in DOMAIN observations : k = VersionOf(observations[i])
  OBVIOUS
<1>7. \A k \in DOMAIN versions : versions[k].first <= versions[k].first /\ versions[k].last <= versions[k].last
  BY DEF VersionRow
<1> HIDE DEF keys, at, started, widened
<1>8. DOMAIN new = DOMAIN versions \cup keys
  BY <1>1
<1>9. \A k \in DOMAIN new :
          new[k] = IF k \notin keys THEN versions[k] ELSE IF k \notin DOMAIN versions THEN started(k) ELSE widened(k)
  BY <1>1
<1>10. new = [k \in DOMAIN new |-> new[k]]
  BY <1>1
<1>11. \A k \in DOMAIN new : VersionRow(new[k])
  BY <1>3, <1>4, <1>8, <1>9
<1>12. \A k \in DOMAIN versions :
          k \in DOMAIN new /\ new[k].first <= versions[k].first /\ versions[k].last <= new[k].last
  BY <1>3, <1>7, <1>8, <1>9
<1>13. ASSUME NEW i \in DOMAIN observations, NEW k, k = VersionOf(observations[i])
       PROVE  k \in DOMAIN new /\ new[k].first <= observations[i].at /\ observations[i].at <= new[k].last
  <2>1. k \in keys /\ k \in DOMAIN new /\ observations[i].at = at(k)
    BY <1>2, <1>5, <1>8, <1>13
  <2> QED BY <1>3, <1>4, <1>9, <2>1
<1>14. ASSUME \A i \in DOMAIN observations :
                 /\ VersionOf(observations[i]) \in DOMAIN versions
                 /\ versions[VersionOf(observations[i])].first <= observations[i].at
                 /\ observations[i].at <= versions[VersionOf(observations[i])].last
       PROVE  new = versions
  <2>1. \A k \in keys : k \in DOMAIN versions /\ versions[k].first <= at(k) /\ at(k) <= versions[k].last
    BY <1>2, <1>6, <1>14
  <2>2. DOMAIN new = DOMAIN versions
    BY <1>8, <2>1
  <2>3. \A k \in DOMAIN new : new[k] = versions[k]
    BY <1>3, <1>9, <2>1, <2>2
  <2> QED BY <1>10, <2>2, <2>3
<1> QED BY <1>10, <1>11, <1>12, <1>13, <1>14

LEMMA OwnedAfter ==
    ASSUME NEW rows, NEW id, NEW records, NEW owner
    PROVE  Owned(Replaced(rows, id, records), owner) = IF owner = id THEN records ELSE Owned(rows, owner)
<1>1. PICK new : new = Replaced(rows, id, records)
  OBVIOUS
<1>2. /\ DOMAIN new = DOMAIN rows \cup {id} /\ new[id] = records
      /\ \A o \in DOMAIN rows \ {id} : new[o] = rows[o]
  BY <1>1 DEF Replaced
<1> QED BY <1>1, <1>2 DEF Owned

LEMMA NoSessionIsNull ==
    ASSUME DataInv
    PROVE  NullSession \notin SessionIds
<1>1. SessionIds = 1..Len(sessions) /\ Len(sessions) \in Nat
  BY DEF DataInv, TablesInv, Rows, SessionIds
<1> QED BY <1>1 DEF NullSession

-----------------------------------------------------------------------------
(* Rebuilds: what each has read and written so far *)

Expected(id) == extract_session_memory(id, sessions[id].messages, sessions[id].policy)

LatestEdges == compute_version_supersessions(memory.versions)

\* The sessions a rebuild still has to write.
QueueInv(cmd) ==
    /\ cmd.left \in Seq(SessionIds)
    /\ cmd.stage \in {"messages", "policy", "write"} => cmd.left # <<>>
    /\ cmd.stage \in {"versions", "edges"} => cmd.left = <<>>

\* What it read is still what is stored.
FreshRead(cmd) ==
    /\ cmd.stage = "policy" => cmd.messages = sessions[Head(cmd.left)].messages
    /\ cmd.stage = "write" => cmd.new = Expected(Head(cmd.left))

\* A rebuild of all sessions has written those it has left behind.
WrittenInv(cmd) ==
    cmd.whole => /\ overlap.stale = {}
                 /\ \A id \in SessionIds : Reflected(id) \/ \E i \in DOMAIN cmd.left : cmd.left[i] = id

RebuildInv(c) ==
    /\ QueueInv(command[c])
    /\ c \notin overlap.stale => FreshRead(command[c]) /\ WrittenInv(command[c])

CurrentInv ==
    overlap.current =>
        /\ overlap.stale = {}
        /\ \A id \in SessionIds : Reflected(id)
        /\ Owned(memory.edges, NullSession) = LatestEdges
        /\ \A c \in Indexing : command[c].stage = "edges" => command[c].edges = LatestEdges

IndexInv ==
    /\ memory = [facts |-> memory.facts, edges |-> memory.edges, versions |-> memory.versions,
                 observations |-> memory.observations]
    /\ memory.versions = [k \in DOMAIN memory.versions |-> memory.versions[k]]
    /\ overlap = [stale |-> overlap.stale, current |-> overlap.current]
    /\ overlap.stale \subseteq Indexing
    /\ \A c \in Indexing : RebuildInv(c)
    /\ CurrentInv

LEMMA SameTables ==
    ASSUME UNCHANGED <<sessions, memory>>
    PROVE  /\ SessionIds' = SessionIds /\ LatestEdges' = LatestEdges
           /\ \A id : Reflected(id)' = Reflected(id) /\ Expected(id)' = Expected(id)
<1>1. \A seen : Covered(seen)' = Covered(seen)
  BY DEF Covered
<1> QED BY <1>1 DEF Reflected, Expected, SessionIds, LatestEdges

\* A rebuild that reads on.
LEMMA ReadingIndex ==
    ASSUME DataInv, StampInv, IndexInv, NEW c \in Clis, NEW cmd, cmd.op = "index",
           command' = [command EXCEPT ![c] = cmd], UNCHANGED <<recording, artifact, sessions, memory, overlap>>,
           StampedCommand(cmd), QueueInv(cmd),
           c \notin overlap.stale => FreshRead(cmd) /\ WrittenInv(cmd),
           cmd.stage = "edges" => cmd.edges = LatestEdges
    PROVE  StampInv' /\ IndexInv'
<1>1. command'[c] = cmd /\ \A d \in Clis \ {c} : command'[d] = command[d]
  BY DEF DataInv, TablesInv
<1>2. Indexing' = Indexing \cup {c}
  BY <1>1 DEF Indexing
<1>3. StampInv'
  BY <1>1 DEF StampInv, SessionIds
<1>4. /\ SessionIds' = SessionIds /\ LatestEdges' = LatestEdges
      /\ \A id : Reflected(id)' = Reflected(id) /\ Expected(id)' = Expected(id)
  BY SameTables
<1>5. \A d : /\ QueueInv(d)' = QueueInv(d) /\ FreshRead(d)' = FreshRead(d)
             /\ WrittenInv(d)' = WrittenInv(d)
  BY <1>4 DEF QueueInv, FreshRead, WrittenInv
<1>6. ASSUME NEW d \in Indexing' PROVE RebuildInv(d)'
  <2>1. CASE d = c
    BY <1>1, <1>5, <2>1 DEF RebuildInv
  <2>2. CASE d # c
    <3>1. RebuildInv(d) /\ command'[d] = command[d]
      BY <1>1, <1>2, <1>6, <2>2 DEF IndexInv, Indexing
    <3> QED BY <1>5, <3>1 DEF RebuildInv
  <2> QED BY <2>1, <2>2
<1>7. CurrentInv'
  <2> SUFFICES ASSUME overlap.current
               PROVE  \A d \in Indexing' : command'[d].stage = "edges" => command'[d].edges = LatestEdges
    BY <1>4 DEF CurrentInv, IndexInv
  <2> QED BY <1>1, <1>2 DEF IndexInv, CurrentInv, Indexing
<1> QED BY <1>2, <1>3, <1>6, <1>7 DEF IndexInv

LEMMA StartIndex ==
    ASSUME DataInv, StampInv, IndexInv, NEW c \in Clis, StartRebuild(c)
    PROVE  StampInv' /\ IndexInv'
<1>1. Rows(sessions) /\ SessionIds = 1..Len(sessions) /\ Len(sessions) \in Nat
  BY DEF DataInv, TablesInv, Rows, SessionIds
<1>2. PICK all : all = [i \in DOMAIN sessions |-> i]
  OBVIOUS
<1>3. PICK ids, whole, new :
         /\ ids = all \/ \E id \in SessionIds : ids = <<id>>
         /\ whole <=> (ids = all /\ overlap.stale = {}) /\ whole \in BOOLEAN
         /\ new = [op |-> "index", stage |-> NextStage(ids), left |-> ids, whole |-> whole]
         /\ command' = [command EXCEPT ![c] = new]
  <2>1. PICK ids \in {all} \cup {<<id>> : id \in SessionIds} :
           command' = [command EXCEPT ![c] = [op |-> "index", stage |-> NextStage(ids), left |-> ids,
                                              whole |-> ids = all /\ overlap.stale = {}]]
    BY <1>2 DEF StartRebuild, Start
  <2> QED BY <2>1
<1>4. UNCHANGED <<recording, artifact, sessions, memory, overlap>>
  BY DEF StartRebuild, Start, commandFrame
<1>5. all \in Seq(SessionIds) /\ DOMAIN all = SessionIds /\ \A i \in SessionIds : all[i] = i
  <2>1. all \in [1..Len(sessions) -> SessionIds]
    BY <1>1, <1>2 DEF SessionIds
  <2> QED BY <1>1, <1>2, <2>1 DEF SessionIds
<1>6. ids \in Seq(SessionIds)
  <2>1. \A id \in SessionIds : <<id>> \in Seq(SessionIds)
    OBVIOUS
  <2> QED BY <1>3, <1>5, <2>1
<1>7. new.op = "index" /\ new.left = ids /\ new.stage = NextStage(ids) /\ new.whole = whole
  BY <1>3
<1>8. QueueInv(new)
  BY <1>6, <1>7 DEF QueueInv, NextStage
<1>9. StampedCommand(new)
  BY <1>7 DEF StampedCommand, NextStage
<1>10. FreshRead(new)
  BY <1>7 DEF FreshRead, NextStage
<1>11. WrittenInv(new)
  BY <1>3, <1>5, <1>7 DEF WrittenInv
<1>12. new.stage # "edges"
  BY <1>7 DEF NextStage
<1> QED BY <1>3, <1>4, <1>7, <1>8, <1>9, <1>10, <1>11, <1>12, ReadingIndex

LEMMA ReadIndex ==
    ASSUME DataInv, StampInv, IndexInv, NEW c \in Clis,
           IndexMessages(c) \/ IndexPolicy(c) \/ IndexVersions(c)
    PROVE  StampInv' /\ IndexInv'
<1>1. PICK old : old = command[c]
  OBVIOUS
<1>2. UNCHANGED <<recording, artifact, sessions, memory, overlap>> /\ old.op = "index"
  BY <1>1 DEF IndexMessages, IndexPolicy, IndexVersions, Read, commandFrame
<1>3. /\ QueueInv(old) /\ StampedCommand(old)
      /\ c \notin overlap.stale => FreshRead(old) /\ WrittenInv(old)
  BY <1>1, <1>2 DEF IndexInv, Indexing, RebuildInv, StampInv
<1>4. PICK left, whole : left = old.left /\ whole = old.whole
  OBVIOUS
<1>5. left # <<>> => Head(left) \in SessionIds
  BY <1>3, <1>4 DEF QueueInv
<1>6. CASE IndexMessages(c)
  <2>1. PICK text, new :
           /\ text = sessions[Head(left)].messages /\ old.stage = "messages"
           /\ new = [op |-> "index", stage |-> "policy", left |-> left, whole |-> whole, messages |-> text]
           /\ command' = [command EXCEPT ![c] = new]
    BY <1>1, <1>4, <1>6 DEF IndexMessages, Read
  <2>2. new.op = "index" /\ new.stage = "policy" /\ new.left = left /\ new.whole = whole /\ new.messages = text
    BY <2>1
  <2>3. QueueInv(new)
    BY <1>3, <1>4, <2>1, <2>2 DEF QueueInv
  <2>4. StampedCommand(new)
    <3>1. Stamped(text)
      BY <1>3, <1>4, <1>5, <2>1 DEF QueueInv, StampInv
    <3> QED BY <2>2, <3>1 DEF StampedCommand
  <2>5. FreshRead(new)
    BY <2>1, <2>2 DEF FreshRead
  <2>6. WrittenInv(old) => WrittenInv(new)
    BY <1>4, <2>2 DEF WrittenInv
  <2> QED BY <1>2, <1>3, <2>1, <2>2, <2>3, <2>4, <2>5, <2>6, ReadingIndex
<1>7. CASE IndexPolicy(c)
  <2>1. PICK made, new :
           /\ made = extract_session_memory(Head(left), old.messages, sessions[Head(left)].policy)
           /\ old.stage = "policy"
           /\ new = [op |-> "index", stage |-> "write", left |-> left, whole |-> whole, new |-> made]
           /\ command' = [command EXCEPT ![c] = new]
    BY <1>1, <1>4, <1>7 DEF IndexPolicy, Read
  <2>2. new.op = "index" /\ new.stage = "write" /\ new.left = left /\ new.whole = whole /\ new.new = made
    BY <2>1
  <2>3. QueueInv(new)
    BY <1>3, <1>4, <2>1, <2>2 DEF QueueInv
  <2>4. StampedCommand(new)
    <3>1. Stamped(old.messages)
      BY <1>2, <1>3, <2>1 DEF StampedCommand
    <3>2. ObservedRows(made.observations)
      BY <2>1, <3>1, ExtractedRows
    <3> QED BY <2>2, <3>2 DEF StampedCommand
  <2>5. FreshRead(old) => FreshRead(new)
    <3> SUFFICES ASSUME FreshRead(old) PROVE made = Expected(Head(left))
      BY <2>2 DEF FreshRead
    <3>1. old.messages = sessions[Head(left)].messages
      BY <1>4, <2>1 DEF FreshRead
    <3> QED BY <2>1, <3>1 DEF Expected
  <2>6. WrittenInv(old) => WrittenInv(new)
    BY <1>4, <2>2 DEF WrittenInv
  <2> QED BY <1>2, <1>3, <2>1, <2>2, <2>3, <2>4, <2>5, <2>6, ReadingIndex
<1>8. CASE IndexVersions(c)
  <2>1. PICK new :
           /\ old.stage = "versions"
           /\ new = [op |-> "index", stage |-> "edges", left |-> left, whole |-> whole, edges |-> LatestEdges]
           /\ command' = [command EXCEPT ![c] = new]
    BY <1>1, <1>4, <1>8 DEF IndexVersions, Read, LatestEdges
  <2>2. new.op = "index" /\ new.stage = "edges" /\ new.left = left /\ new.whole = whole /\ new.edges = LatestEdges
    BY <2>1
  <2>3. QueueInv(new)
    BY <1>3, <1>4, <2>1, <2>2 DEF QueueInv
  <2>4. StampedCommand(new) /\ FreshRead(new)
    BY <2>2 DEF StampedCommand, FreshRead
  <2>5. WrittenInv(old) => WrittenInv(new)
    BY <1>4, <2>2 DEF WrittenInv
  <2> QED BY <1>2, <1>3, <2>1, <2>2, <2>3, <2>4, <2>5, ReadingIndex
<1> QED BY <1>6, <1>7, <1>8

\* What one rebuild of a session does to the tables when what it read is still
\* true: its rows are the expected ones, the versions only widen, and not even
\* that when they are covered already.
LEMMA SessionIsWritten ==
    ASSUME DataInv, StampInv, IndexInv, NEW c \in Clis, rebuild_memory_for_session(c),
           NEW id, id = Head(command[c].left)
    PROVE  /\ id \in SessionIds /\ command[c].op = "index" /\ UNCHANGED sessions
           /\ memory' = [facts |-> memory'.facts, edges |-> memory'.edges, versions |-> memory'.versions,
                         observations |-> memory'.observations]
           /\ memory'.versions = [k \in DOMAIN memory'.versions |-> memory'.versions[k]]
           /\ \A k \in DOMAIN memory'.versions : VersionRow(memory'.versions[k])
           /\ c \notin overlap.stale =>
                 /\ Reflected(id)' /\ \A s \in SessionIds : Reflected(s) => Reflected(s)'
                 /\ Reflected(id) => UNCHANGED memory.versions
           /\ Owned(memory.edges, NullSession)' = Owned(memory.edges, NullSession)
<1>1. PICK old : old = command[c] /\ id = Head(old.left)
  OBVIOUS
<1>2. PICK facts, edges, versions, observations :
         /\ facts = Replaced(memory.facts, id, old.new.facts)
         /\ edges = Replaced(memory.edges, id, old.new.edges)
         /\ versions = Upserted(memory.versions, id, old.new.observations)
         /\ observations = Replaced(memory.observations, id, old.new.observations)
  OBVIOUS
<1>3. /\ old.op = "index" /\ old.stage = "write" /\ UNCHANGED sessions
      /\ memory' = [facts |-> facts, edges |-> edges, versions |-> versions, observations |-> observations]
  BY <1>1, <1>2 DEF rebuild_memory_for_session, Rebuilt, indexFrame
<1>4. /\ memory'.facts = facts /\ memory'.edges = edges /\ memory'.versions = versions
      /\ memory'.observations = observations
  BY <1>3
<1>5. /\ QueueInv(old) /\ StampedCommand(old)
      /\ c \notin overlap.stale => FreshRead(old)
  BY <1>1, <1>3 DEF IndexInv, Indexing, RebuildInv, StampInv
<1>6. id \in SessionIds
  BY <1>1, <1>3, <1>5 DEF QueueInv
<1>7. ObservedRows(old.new.observations)
  BY <1>3, <1>5 DEF StampedCommand
<1>8. /\ versions = [k \in DOMAIN versions |-> versions[k]] /\ \A k \in DOMAIN versions : VersionRow(versions[k])
      /\ \A k \in DOMAIN memory.versions :
            /\ k \in DOMAIN versions
            /\ versions[k].first <= memory.versions[k].first /\ memory.versions[k].last <= versions[k].last
      /\ \A i \in DOMAIN old.new.observations :
            LET k == VersionOf(old.new.observations[i])
            IN  /\ k \in DOMAIN versions
                /\ versions[k].first <= old.new.observations[i].at /\ old.new.observations[i].at <= versions[k].last
      /\ (\A i \in DOMAIN old.new.observations : Covered(old.new.observations[i])) => versions = memory.versions
  <2>1. PICK table, seen : table = memory.versions /\ seen = old.new.observations
    OBVIOUS
  <2>2. (\A k \in DOMAIN table : VersionRow(table[k])) /\ table = [k \in DOMAIN table |-> table[k]]
    BY <2>1 DEF StampInv, IndexInv
  <2>3. ObservedRows(seen) /\ versions = Upserted(table, id, seen)
    BY <1>2, <1>7, <2>1
  <2>4. \A i \in DOMAIN seen : Covered(seen[i]) =>
            LET k == VersionOf(seen[i])
            IN  k \in DOMAIN table /\ table[k].first <= seen[i].at /\ seen[i].at <= table[k].last
    BY <2>1 DEF Covered
  <2>5. /\ versions = [k \in DOMAIN versions |-> versions[k]] /\ \A k \in DOMAIN versions : VersionRow(versions[k])
        /\ \A k \in DOMAIN table :
              k \in DOMAIN versions /\ versions[k].first <= table[k].first /\ table[k].last <= versions[k].last
        /\ \A i \in DOMAIN seen :
              LET k == VersionOf(seen[i])
              IN  k \in DOMAIN versions /\ versions[k].first <= seen[i].at /\ seen[i].at <= versions[k].last
        /\ (\A i \in DOMAIN seen :
               LET k == VersionOf(seen[i])
               IN  k \in DOMAIN table /\ table[k].first <= seen[i].at /\ seen[i].at <= table[k].last)
           => versions = table
    BY <2>2, <2>3, UpsertedRows
  <2> QED BY <2>1, <2>4, <2>5
<1>9. ASSUME c \notin overlap.stale
      PROVE  /\ Reflected(id)' /\ \A s \in SessionIds : Reflected(s) => Reflected(s)'
             /\ Reflected(id) => UNCHANGED memory.versions
  <2>1. old.new = Expected(id)
    BY <1>1, <1>3, <1>5, <1>9 DEF FreshRead
  <2>2. \A s : Expected(s)' = Expected(s)
    BY <1>3 DEF Expected
  <2>3. \A s : Reflected(s) <=>
            /\ Owned(memory.facts, s) = Expected(s).facts /\ Owned(memory.edges, s) = Expected(s).edges
            /\ Owned(memory.observations, s) = Expected(s).observations
            /\ \A i \in DOMAIN Expected(s).observations : Covered(Expected(s).observations[i])
    BY DEF Reflected, Expected
  <2>4. \A s : Reflected(s)' <=>
            /\ Owned(facts, s) = Expected(s).facts /\ Owned(edges, s) = Expected(s).edges
            /\ Owned(observations, s) = Expected(s).observations
            /\ \A i \in DOMAIN Expected(s).observations :
                  LET k == VersionOf(Expected(s).observations[i])
                  IN  /\ k \in DOMAIN versions
                      /\ versions[k].first <= Expected(s).observations[i].at
                      /\ Expected(s).observations[i].at <= versions[k].last
    BY <1>3, <1>4 DEF Reflected, Expected, Covered
  <2>5. /\ Owned(facts, id) = old.new.facts /\ Owned(edges, id) = old.new.edges
        /\ Owned(observations, id) = old.new.observations
    BY <1>2, OwnedAfter
  <2>6. Reflected(id)'
    BY <1>8, <2>1, <2>4, <2>5
  <2>7. ASSUME NEW s \in SessionIds, Reflected(s), s # id
        PROVE  Reflected(s)'
    <3>1. /\ Owned(facts, s) = Owned(memory.facts, s) /\ Owned(edges, s) = Owned(memory.edges, s)
          /\ Owned(observations, s) = Owned(memory.observations, s)
      BY <1>2, <2>7, OwnedAfter
    <3>2. ASSUME NEW i \in DOMAIN Expected(s).observations
          PROVE  LET k == VersionOf(Expected(s).observations[i])
                 IN  /\ k \in DOMAIN versions
                     /\ versions[k].first <= Expected(s).observations[i].at
                     /\ Expected(s).observations[i].at <= versions[k].last
      <4>1. PICK seen, k : seen = Expected(s).observations[i] /\ k = VersionOf(seen)
        OBVIOUS
      <4>2. k \in DOMAIN memory.versions /\ memory.versions[k].first <= seen.at /\ seen.at <= memory.versions[k].last
        BY <2>3, <2>7, <3>2, <4>1 DEF Covered
      <4>3. /\ k \in DOMAIN versions
            /\ versions[k].first <= memory.versions[k].first /\ memory.versions[k].last <= versions[k].last
        BY <1>8, <4>2
      <4>4. /\ memory.versions[k].first \in Int /\ memory.versions[k].last \in Int
            /\ versions[k].first \in Int /\ versions[k].last \in Int
        BY <1>8, <4>2, <4>3 DEF StampInv, VersionRow
      <4>5. seen.at \in Int
        <5>1. Stamped(sessions[s].messages)
          BY DEF StampInv
        <5>2. ObservedRows(Expected(s).observations)
          BY <5>1, ExtractedRows DEF Expected
        <5> QED BY <3>2, <4>1, <5>2 DEF ObservedRows
      <4>6. versions[k].first <= seen.at /\ seen.at <= versions[k].last
        BY <4>2, <4>3, <4>4, <4>5
      <4> QED BY <4>1, <4>3, <4>6
    <3> QED BY <2>3, <2>4, <2>7, <3>1, <3>2
  <2>8. Reflected(id) => UNCHANGED memory.versions
    BY <1>4, <1>8, <2>1, <2>3
  <2> QED BY <2>6, <2>7, <2>8
<1>10. Owned(memory.edges, NullSession)' = Owned(memory.edges, NullSession)
  <2>1. NullSession # id
    BY <1>6, NoSessionIsNull
  <2> QED BY <1>2, <1>4, <2>1, OwnedAfter
<1>11. memory' = [facts |-> memory'.facts, edges |-> memory'.edges, versions |-> memory'.versions,
                  observations |-> memory'.observations]
  BY <1>3, <1>4
<1> QED BY <1>1, <1>3, <1>4, <1>6, <1>8, <1>9, <1>10, <1>11

LEMMA WriteIndex ==
    ASSUME DataInv, StampInv, IndexInv, NEW c \in Clis, rebuild_memory_for_session(c)
    PROVE  StampInv' /\ IndexInv'
<1>1. PICK old, left, id : old = command[c] /\ left = old.left /\ id = Head(left)
  OBVIOUS
<1>2. PICK new : new = [op |-> "index", stage |-> NextStage(Tail(left)), left |-> Tail(left), whole |-> old.whole]
  OBVIOUS
<1>3. /\ command' = [command EXCEPT ![c] = new] /\ old.stage = "write"
      /\ UNCHANGED <<recording, artifact, sessions, overlap>>
  BY <1>1, <1>2 DEF rebuild_memory_for_session, indexFrame, commandFrame
<1>4. /\ id \in SessionIds /\ old.op = "index"
      /\ memory' = [facts |-> memory'.facts, edges |-> memory'.edges, versions |-> memory'.versions,
                    observations |-> memory'.observations]
      /\ memory'.versions = [k \in DOMAIN memory'.versions |-> memory'.versions[k]]
      /\ \A k \in DOMAIN memory'.versions : VersionRow(memory'.versions[k])
      /\ c \notin overlap.stale =>
            /\ Reflected(id)' /\ \A s \in SessionIds : Reflected(s) => Reflected(s)'
            /\ Reflected(id) => UNCHANGED memory.versions
      /\ Owned(memory.edges, NullSession)' = Owned(memory.edges, NullSession)
  BY <1>1, SessionIsWritten
<1>5. command'[c] = new /\ \A d \in Clis \ {c} : command'[d] = command[d]
  BY <1>3 DEF DataInv, TablesInv
<1>6. c \in Indexing /\ Indexing' = Indexing
  BY <1>1, <1>2, <1>4, <1>5 DEF Indexing
<1>7. new.op = "index" /\ new.stage = NextStage(Tail(left)) /\ new.left = Tail(left) /\ new.whole = old.whole
  BY <1>2
<1>8. /\ QueueInv(old)
      /\ c \notin overlap.stale => FreshRead(old) /\ WrittenInv(old)
  BY <1>1, <1>6 DEF IndexInv, RebuildInv
<1>9. SessionIds' = SessionIds /\ \A s : Expected(s)' = Expected(s)
  BY <1>3 DEF SessionIds, Expected
<1>10. \A d : QueueInv(d)' = QueueInv(d) /\ FreshRead(d)' = FreshRead(d)
  BY <1>3, <1>9 DEF QueueInv, FreshRead
<1>11. StampInv'
  <2>1. StampedCommand(new)
    BY <1>7 DEF StampedCommand, NextStage
  <2> QED BY <1>3, <1>4, <1>5, <1>9, <2>1 DEF StampInv
<1>12. QueueInv(new) /\ FreshRead(new)
  <2>1. left \in Seq(SessionIds) /\ left # <<>>
    BY <1>1, <1>3, <1>8 DEF QueueInv
  <2>2. Tail(left) \in Seq(SessionIds)
    BY <2>1
  <2> QED BY <1>7, <2>2 DEF QueueInv, FreshRead, NextStage
<1>13. ASSUME c \notin overlap.stale PROVE WrittenInv(new)'
  <2> SUFFICES ASSUME old.whole
               PROVE  /\ overlap.stale = {}
                      /\ \A s \in SessionIds : Reflected(s)' \/ \E i \in DOMAIN Tail(left) : Tail(left)[i] = s
    BY <1>3, <1>7, <1>9 DEF WrittenInv
  <2>1. /\ overlap.stale = {}
        /\ \A s \in SessionIds : Reflected(s) \/ \E i \in DOMAIN left : left[i] = s
    BY <1>1, <1>8, <1>13 DEF WrittenInv
  <2>2. ASSUME NEW s \in SessionIds, ~Reflected(s)'
        PROVE  \E i \in DOMAIN Tail(left) : Tail(left)[i] = s
    <3>1. ~Reflected(s) /\ s # id
      BY <1>4, <1>13, <2>2
    <3>2. PICK i \in DOMAIN left : left[i] = s
      BY <2>1, <3>1
    <3>3. left \in Seq(SessionIds) /\ left # <<>> /\ Head(left) = left[1]
      BY <1>1, <1>3, <1>8 DEF QueueInv
    <3>4. i # 1
      BY <1>1, <3>1, <3>2, <3>3
    <3>5. i - 1 \in DOMAIN Tail(left) /\ Tail(left)[i - 1] = s
      BY <3>2, <3>3, <3>4
    <3> QED BY <3>5
  <2> QED BY <2>1, <2>2
<1>14. ASSUME NEW d \in Indexing PROVE RebuildInv(d)'
  <2>1. CASE d = c
    BY <1>3, <1>5, <1>10, <1>12, <1>13, <2>1 DEF RebuildInv
  <2>2. CASE d # c
    <3>1. PICK cmd : cmd = command[d] /\ cmd = command'[d]
      BY <1>5, <1>14, <2>2 DEF Indexing
    <3>2. QueueInv(cmd) /\ (d \notin overlap.stale => FreshRead(cmd) /\ WrittenInv(cmd))
      BY <1>14, <3>1 DEF IndexInv, RebuildInv
    <3>3. ASSUME d \notin overlap.stale, cmd.whole PROVE WrittenInv(cmd)'
      <4>1. /\ overlap.stale = {}
            /\ \A s \in SessionIds : Reflected(s) \/ \E i \in DOMAIN cmd.left : cmd.left[i] = s
        BY <3>2, <3>3 DEF WrittenInv
      <4>2. \A s \in SessionIds : Reflected(s) => Reflected(s)'
        BY <1>4, <4>1
      <4> QED BY <1>3, <1>9, <4>1, <4>2 DEF WrittenInv
    <3>4. ~cmd.whole => WrittenInv(cmd)'
      BY DEF WrittenInv
    <3> QED BY <1>3, <1>10, <3>1, <3>2, <3>3, <3>4 DEF RebuildInv
  <2> QED BY <2>1, <2>2
<1>15. CurrentInv'
  <2> SUFFICES ASSUME overlap.current PROVE CurrentInv'
    BY <1>3 DEF CurrentInv
  <2>1. /\ overlap.stale = {} /\ \A s \in SessionIds : Reflected(s)
        /\ Owned(memory.edges, NullSession) = LatestEdges
        /\ \A d \in Indexing : command[d].stage = "edges" => command[d].edges = LatestEdges
    BY DEF IndexInv, CurrentInv
  <2>2. (\A s \in SessionIds : Reflected(s)') /\ UNCHANGED memory.versions
    BY <1>4, <2>1
  <2>3. LatestEdges' = LatestEdges
    BY <2>2 DEF LatestEdges
  <2>4. new.stage # "edges"
    BY <1>7 DEF NextStage
  <2>5. \A d \in Indexing' : command'[d].stage = "edges" => command'[d].edges = LatestEdges
    BY <1>5, <1>6, <2>1, <2>4 DEF Indexing
  <2> QED BY <1>3, <1>4, <1>9, <2>1, <2>2, <2>3, <2>5 DEF CurrentInv
<1> QED BY <1>3, <1>4, <1>6, <1>11, <1>14, <1>15 DEF IndexInv

LEMMA EdgesIndex ==
    ASSUME DataInv, StampInv, IndexInv, NEW c \in Clis, replace_supersession_edges(c)
    PROVE  StampInv' /\ IndexInv'
<1>1. PICK old, edges, whole :
         /\ old = command[c] /\ edges = Replaced(memory.edges, NullSession, old.edges)
         /\ whole <=> /\ old.whole /\ c \notin overlap.stale
                      /\ \A d \in Indexing : command[d].stage = "edges" => command[d].edges = LatestEdges
  OBVIOUS
<1>2. /\ command' = [command EXCEPT ![c] = Idle] /\ old.op = "index" /\ old.stage = "edges"
      /\ memory' = [memory EXCEPT !.edges = edges]
      /\ UNCHANGED <<recording, artifact, sessions>>
  BY <1>1 DEF replace_supersession_edges, Finish, indexFrame, commandFrame
<1>3. PICK current : /\ overlap' = [stale |-> overlap.stale \ {c}, current |-> current]
                     /\ current => overlap.current \/ whole
  BY <1>1 DEF replace_supersession_edges, LatestEdges
<1>4. overlap'.stale = overlap.stale \ {c} /\ overlap'.current = current
  BY <1>3
<1>5. command'[c] = Idle /\ \A d \in Clis \ {c} : command'[d] = command[d]
  BY <1>2 DEF DataInv, TablesInv
<1>6. c \in Indexing /\ Indexing' = Indexing \ {c} /\ Idle.op # "index"
  BY <1>1, <1>2, <1>5 DEF Indexing, Idle
<1>7. PICK f, e, v, o : memory = [facts |-> f, edges |-> e, versions |-> v, observations |-> o]
  BY DEF IndexInv
<1>8. memory' = [facts |-> f, edges |-> edges, versions |-> v, observations |-> o]
  BY <1>2, <1>7
<1>9. /\ memory'.facts = memory.facts /\ memory'.versions = memory.versions
      /\ memory'.observations = memory.observations /\ memory'.edges = edges
  BY <1>7, <1>8
<1>10. SessionIds' = SessionIds /\ LatestEdges' = LatestEdges /\ \A s : Expected(s)' = Expected(s)
  BY <1>2, <1>9 DEF SessionIds, Expected, LatestEdges
<1>11. ASSUME NEW s \in SessionIds PROVE Reflected(s)' = Reflected(s)
  <2>1. s # NullSession
    BY NoSessionIsNull
  <2>2. Owned(edges, s) = Owned(memory.edges, s)
    BY <1>1, <2>1, OwnedAfter
  <2>3. \A seen : Covered(seen)' = Covered(seen)
    BY <1>9 DEF Covered
  <2> QED BY <1>2, <1>9, <2>2, <2>3 DEF Reflected
<1>12. \A d : QueueInv(d)' = QueueInv(d) /\ FreshRead(d)' = FreshRead(d)
  BY <1>2, <1>10 DEF QueueInv, FreshRead
<1>13. StampInv'
  <2>1. StampedCommand(Idle)
    BY DEF StampedCommand, Idle
  <2> QED BY <1>2, <1>5, <1>9, <1>10, <2>1 DEF StampInv
<1>14. ASSUME NEW d \in Indexing' PROVE RebuildInv(d)'
  <2>1. PICK cmd : cmd = command[d] /\ cmd = command'[d] /\ d \in Indexing /\ d # c
    BY <1>5, <1>6, <1>14 DEF Indexing
  <2>2. QueueInv(cmd) /\ (d \notin overlap.stale => FreshRead(cmd) /\ WrittenInv(cmd))
    BY <2>1 DEF IndexInv, RebuildInv
  <2>3. WrittenInv(cmd) => WrittenInv(cmd)'
    BY <1>4, <1>10, <1>11 DEF WrittenInv
  <2>4. d \notin overlap'.stale => d \notin overlap.stale
    BY <1>4, <2>1
  <2> QED BY <1>12, <2>1, <2>2, <2>3, <2>4 DEF RebuildInv
<1>15. CurrentInv'
  <2> SUFFICES ASSUME current PROVE CurrentInv'
    BY <1>4 DEF CurrentInv
  <2>1. Owned(edges, NullSession) = old.edges
    BY <1>1, OwnedAfter
  <2>2. QueueInv(old) /\ (c \notin overlap.stale => WrittenInv(old))
    BY <1>1, <1>6 DEF IndexInv, RebuildInv
  <2>3. /\ overlap.stale = {} /\ \A s \in SessionIds : Reflected(s)
        /\ \A d \in Indexing : command[d].stage = "edges" => command[d].edges = LatestEdges
    <3>1. CASE overlap.current
      BY <3>1 DEF IndexInv, CurrentInv
    <3>2. CASE whole
      <4>1. old.left = <<>> /\ WrittenInv(old) /\ old.whole
        BY <1>1, <1>2, <2>2, <3>2 DEF QueueInv
      <4>2. \A i \in DOMAIN old.left : FALSE
        BY <4>1
      <4> QED BY <1>1, <3>2, <4>1, <4>2 DEF WrittenInv
    <3> QED BY <1>3, <3>1, <3>2
  <2>4. old.edges = LatestEdges
    BY <1>1, <1>2, <1>6, <2>3
  <2>5. \A d \in Indexing' : command'[d].stage = "edges" => command'[d].edges = LatestEdges
    BY <1>5, <1>6, <2>3 DEF Indexing
  <2> QED BY <1>4, <1>9, <1>10, <1>11, <2>1, <2>3, <2>4, <2>5 DEF CurrentInv
<1>16. memory' = [facts |-> memory'.facts, edges |-> memory'.edges, versions |-> memory'.versions,
                  observations |-> memory'.observations]
  BY <1>8
<1>17. /\ memory'.versions = [k \in DOMAIN memory'.versions |-> memory'.versions[k]]
       /\ overlap' = [stale |-> overlap'.stale, current |-> overlap'.current]
       /\ overlap'.stale \subseteq Indexing'
  BY <1>3, <1>4, <1>6, <1>9 DEF IndexInv
<1> QED BY <1>13, <1>14, <1>15, <1>16, <1>17 DEF IndexInv

\* The rest of the database leaves rebuilds alone or ends them, and outdates
\* those it overtakes.
LEMMA StoreIndex ==
    ASSUME DataInv, CopyInv, StampInv, IndexInv, SessionsGrow, StoreStep
    PROVE  StampInv' /\ IndexInv'
<1>1. StepStamps /\ UNCHANGED memory
  BY NextStamps DEF StoreStep
<1>2. StampInv'
  BY <1>1, StampStoreStep
<1>3. \A d \in Indexing' : d \in Indexing /\ command'[d] = command[d]
  BY <1>1 DEF StepStamps, Indexing
<1>4. PICK stale, current :
         /\ overlap' = [stale |-> stale, current |-> current]
         /\ sessions' # sessions => stale = Indexing' /\ current = FALSE
         /\ sessions' = sessions => stale = overlap.stale \cap Indexing' /\ current = overlap.current
  <2>1. CASE sessions' # sessions
    BY <2>1 DEF StoreStep
  <2>2. CASE sessions' = sessions
    <3>1. PICK s, k : overlap = [stale |-> s, current |-> k]
      BY DEF IndexInv
    <3>2. overlap' = [overlap EXCEPT !.stale = @ \cap Indexing']
      BY <2>2 DEF StoreStep
    <3>3. overlap.stale = s /\ overlap.current = k
      BY <3>1
    <3>4. overlap' = [stale |-> overlap.stale \cap Indexing', current |-> overlap.current]
      BY <3>1, <3>2, <3>3
    <3> QED BY <2>2, <3>4
  <2> QED BY <2>1, <2>2
<1>5. overlap'.stale = stale /\ overlap'.current = current /\ stale \subseteq Indexing'
  <2>1. overlap'.stale = stale /\ overlap'.current = current
    BY <1>4
  <2> QED BY <1>4, <2>1
<1>6. SessionIds \subseteq SessionIds'
  BY DEF SessionsGrow, SessionIds
<1>7. sessions' = sessions =>
          /\ SessionIds' = SessionIds /\ LatestEdges' = LatestEdges
          /\ \A s : Reflected(s)' = Reflected(s) /\ Expected(s)' = Expected(s)
  BY <1>1, SameTables
<1>8. ASSUME NEW d \in Indexing' PROVE RebuildInv(d)'
  <2>1. PICK cmd : cmd = command[d] /\ cmd = command'[d] /\ d \in Indexing
    BY <1>3, <1>8
  <2>2. QueueInv(cmd) /\ (d \notin overlap.stale => FreshRead(cmd) /\ WrittenInv(cmd))
    BY <2>1 DEF IndexInv, RebuildInv
  <2>3. QueueInv(cmd)'
    <3>1. cmd.left \in Seq(SessionIds')
      BY <1>6, <2>2 DEF QueueInv
    <3> QED BY <2>2, <3>1 DEF QueueInv
  <2>4. ASSUME d \notin stale PROVE FreshRead(cmd)' /\ WrittenInv(cmd)'
    <3>1. sessions' = sessions /\ d \notin overlap.stale /\ (overlap.stale = {} => stale = {})
      BY <1>4, <1>8, <2>4
    <3>2. FreshRead(cmd)'
      BY <1>7, <2>2, <3>1 DEF FreshRead
    <3>3. WrittenInv(cmd)'
      BY <1>5, <1>7, <2>2, <3>1 DEF WrittenInv
    <3> QED BY <3>2, <3>3
  <2> QED BY <1>5, <2>1, <2>3, <2>4 DEF RebuildInv
<1>9. CurrentInv'
  <2> SUFFICES ASSUME current PROVE CurrentInv'
    BY <1>5 DEF CurrentInv
  <2>1. sessions' = sessions /\ overlap.current /\ stale = overlap.stale \cap Indexing'
    BY <1>4
  <2>2. /\ overlap.stale = {} /\ \A s \in SessionIds : Reflected(s)
        /\ Owned(memory.edges, NullSession) = LatestEdges
        /\ \A d \in Indexing : command[d].stage = "edges" => command[d].edges = LatestEdges
    BY <2>1 DEF IndexInv, CurrentInv
  <2>3. \A d \in Indexing' : command'[d].stage = "edges" => command'[d].edges = LatestEdges
    BY <1>3, <2>2
  <2> QED BY <1>1, <1>5, <1>7, <2>1, <2>2, <2>3 DEF CurrentInv
<1>10. /\ memory' = [facts |-> memory'.facts, edges |-> memory'.edges, versions |-> memory'.versions,
                     observations |-> memory'.observations]
       /\ memory'.versions = [k \in DOMAIN memory'.versions |-> memory'.versions[k]]
       /\ overlap' = [stale |-> overlap'.stale, current |-> overlap'.current]
  BY <1>1, <1>4, <1>5 DEF IndexInv
<1> QED BY <1>2, <1>5, <1>8, <1>9, <1>10 DEF IndexInv

-----------------------------------------------------------------------------
(* The theorems *)

SafeInv == OpeningInv /\ DataInv

StoreInv == SafeInv /\ CopyInv

LEMMA SafeInit == IndexInit => SafeInv
<1> SUFFICES ASSUME Init PROVE DataInv
  BY OpeningInit DEF IndexInit, SafeInv
<1>1. /\ sessions = Recorded /\ baselines = <<>>
      /\ recording = [r \in Recorders |-> [phase |-> "new", session |-> 0, next |-> 1, lost |-> 0]]
      /\ command = [c \in Clis |-> Idle]
  BY DEF Init
<1>2. Idle.op = "idle" /\ "op" \in DOMAIN Idle
  BY DEF Idle
<1>3. DOMAIN baselines = {} /\ Rows(baselines)
  BY <1>1 DEF Rows
<1>4. recording \in [Recorders -> Recording]
  BY <1>1 DEF Recording
<1>5. Rows(sessions) /\ \A id \in SessionIds : SessionRow(sessions[id])
  BY <1>1, RecordedAssumption DEF Rows, SessionIds
<1>6. TablesInv
  BY <1>1, <1>2, <1>3, <1>4, <1>5 DEF TablesInv, Recording
<1>7. \A p \in Procs : ~Writing(p)
  BY <1>1, <1>2 DEF Writing, Procs
<1>8. WriterInv
  BY <1>7 DEF WriterInv
<1>9. OneApproved /\ ApprovedIsComplete
  BY <1>3 DEF OneApproved, ApprovedIsComplete
<1>10. \A c \in Clis : PromotionInv(c)
  BY <1>1, <1>2 DEF PromotionInv
<1> QED BY <1>6, <1>8, <1>9, <1>10 DEF DataInv

LEMMA CopyInit == IndexInit => CopyInv
<1> SUFFICES ASSUME Init PROVE CopyInv
  BY DEF IndexInit
<1>1. /\ sessions = Recorded /\ artifact = NoDocument
      /\ recording = [r \in Recorders |-> [phase |-> "new", session |-> 0, next |-> 1, lost |-> 0]]
      /\ command = [c \in Clis |-> Idle]
  BY DEF Init
<1>2. Idle.op = "idle"
  BY DEF Idle
<1>3. \A id \in SessionIds : CopyRow(sessions[id])
  BY <1>1, RecordedAssumption DEF SessionIds, CopyRow, ClosedCopy
<1>4. \A p \in Procs : ~Writing(p)
  BY <1>1, <1>2 DEF Writing, Procs
<1>5. \A c \in Clis : ExportInv(c) /\ MergeInv(c)
  BY <1>1, <1>2 DEF ExportInv, MergeInv
<1> QED BY <1>1, <1>3, <1>4, <1>5 DEF CopyInv, OriginalsInv, ArtifactInv

LEMMA OpeningKept ==
    ASSUME OpeningInv, UNCHANGED openVars
    PROVE  OpeningInv'
BY DEF OpeningInv, openVars, MigratedOnce

LEMMA SafeStep ==
    ASSUME SafeInv, [IndexNext]_indexVars
    PROVE  SafeInv' /\ (Settled \/ UNCHANGED vars)
<1>1. CASE UNCHANGED indexVars
  <2>1. UNCHANGED vars
    BY <1>1 DEF indexVars
  <2>2. UNCHANGED <<openVars, sessions, baselines, recording, command, snapshots>>
    BY <2>1 DEF vars, openVars
  <2>3. /\ \A q : Writing(q)' = Writing(q) /\ Target(q)' = Target(q)
        /\ \A id : Summary(id)' = Summary(id) /\ Trusted(id)' = Trusted(id)
    BY <2>2 DEF Writing, Target, Summary, Trusted
  <2>4. TablesInv' /\ WriterInv'
    BY <2>2, <2>3 DEF SafeInv, DataInv, TablesInv, WriterInv, SessionIds
  <2>5. ASSUME NEW c \in Clis PROVE PromotionInv(c)'
    BY <2>2, <2>3 DEF SafeInv, DataInv, PromotionInv, SessionIds
  <2>6. OneApproved' /\ ApprovedIsComplete'
    BY <2>2 DEF SafeInv, DataInv, OneApproved, ApprovedIsComplete, Summary
  <2>7. OpeningInv'
    BY <2>2, OpeningKept DEF SafeInv
  <2> QED BY <2>1, <2>4, <2>5, <2>6, <2>7 DEF SafeInv, DataInv
<1>2. ASSUME NEW p \in Procs, OpenStep(p) \/ Crash(p)
      PROVE  SafeInv' /\ Settled
  BY <1>2, OpeningStep, OpenStepData, CrashData DEF SafeInv
<1>3. ASSUME NEW r \in Recorders, RecorderStep(r)
      PROVE  SafeInv' /\ Settled
  <2>1. DataInv' /\ UNCHANGED openVars /\ UNCHANGED baselines
    BY <1>3, RecorderStepData DEF SafeInv
  <2>2. Settled
    BY <2>1 DEF Settled
  <2> QED BY <2>1, <2>2, OpeningKept DEF SafeInv
<1>4. ASSUME NEW c \in Clis, CommandStep(c) \/ IndexStep(c)
      PROVE  SafeInv' /\ Settled
  BY <1>4, CommandStepData, OpeningKept DEF SafeInv
<1> QED BY <1>1, <1>2, <1>3, <1>4 DEF IndexNext, StoreStep, Next

LEMMA StoreStepInv ==
    ASSUME StoreInv, [IndexNext]_indexVars
    PROVE  StoreInv' /\ (Settled \/ UNCHANGED vars) /\ SessionsGrow
BY SafeStep, StepCopies DEF StoreInv, SafeInv

\* The versions, reservations, rows, snapshots and commands of all processes fit
\* together after every statement, commit and crash (Store::open, promote_baseline).
THEOREM StoreInvariant == IndexSpec => []StoreInv
<1>1. IndexInit => StoreInv
  BY SafeInit, CopyInit DEF StoreInv
<1>2. StoreInv /\ [IndexNext]_indexVars => StoreInv'
  BY StoreStepInv
<1> QED BY <1>1, <1>2, PTL DEF IndexSpec

\* init_schema_once: however many processes open the file, from whatever
\* version, and wherever they die, each migration runs exactly once.
THEOREM MigrationsRunOnce == IndexSpec => []MigratedOnce
<1>1. StoreInv => MigratedOnce
  BY DEF StoreInv, SafeInv, OpeningInv
<1> QED BY <1>1, StoreInvariant, PTL

\* promote_baseline and revoke_baseline: a name resolves to one approved
\* baseline at most, whatever promotions race each other.
THEOREM ApprovalIsUnique == IndexSpec => []OneApproved
<1>1. StoreInv => OneApproved
  BY DEF StoreInv, SafeInv, DataInv
<1> QED BY <1>1, StoreInvariant, PTL

\* baseline promote: what was approved stays a finished capture without loss,
\* although the summary, the messages and the candidate are read apart.
THEOREM ApprovalIsTrustworthy == IndexSpec => []ApprovedIsComplete
<1>1. StoreInv => ApprovedIsComplete
  BY DEF StoreInv, SafeInv, DataInv
<1> QED BY <1>1, StoreInvariant, PTL

\* A baseline row goes from candidate to approved, then to superseded or
\* revoked with the digest it was approved with, and never back.
THEOREM ApprovalIsSettled == IndexSpec => BaselineLifecycle
<1>1. StoreInv /\ [IndexNext]_indexVars => [Settled]_vars
  BY StoreStepInv
<1>2. [][Settled]_vars => BaselineLifecycle
  BY PTL DEF Settled, BaselineLifecycle
<1>3. IndexSpec => [][Settled]_vars
  BY <1>1, StoreInvariant, PTL DEF IndexSpec
<1> QED BY <1>2, <1>3, PTL

\* merge_sessions and import: a copy that claims to be finished holds every
\* message of its sources and all they lost, although a summary and the messages
\* behind it are read in two statements while recorders write.
THEOREM CopiesAreWhole == IndexSpec => []ClosedCopyIsWhole
<1>1. StoreInv => ClosedCopyIsWhole
  BY DEF StoreInv, CopyInv, CopyRow, ClosedCopyIsWhole
<1> QED BY <1>1, StoreInvariant, PTL

Final ==
    \A id \in SessionIds : sessions[id].ended => id \in DOMAIN sessions' /\ sessions'[id] = sessions[id]

\* close_session is the last write to a session, by whoever wrote it and
\* wherever that process or another dies.
THEOREM FinishedStaysFinal == IndexSpec => FinishedSessionsAreFinal
<1>1. StoreInv /\ [IndexNext]_indexVars => [Final]_vars
  BY StoreStepInv DEF SessionsGrow, Final
<1>2. [][Final]_vars => FinishedSessionsAreFinal
  BY PTL DEF Final, FinishedSessionsAreFinal
<1>3. IndexSpec => [][Final]_vars
  BY <1>1, StoreInvariant, PTL DEF IndexSpec
<1> QED BY <1>2, <1>3, PTL

RebuildsInv == StoreInv /\ StampInv /\ IndexInv

LEMMA RebuildsInit == IndexInit => RebuildsInv
<1> SUFFICES ASSUME IndexInit PROVE StampInv /\ IndexInv
  BY SafeInit, CopyInit DEF RebuildsInv, StoreInv
<1>1. /\ sessions = Recorded /\ artifact = NoDocument
      /\ recording = [r \in Recorders |-> [phase |-> "new", session |-> 0, next |-> 1, lost |-> 0]]
      /\ command = [c \in Clis |-> Idle]
      /\ memory = NoMemory /\ overlap = [stale |-> {}, current |-> FALSE]
  BY DEF IndexInit, Init
<1>2. Idle.op = "idle"
  BY DEF Idle
<1>3. memory.versions = <<>> /\ DOMAIN memory.versions = {}
  BY <1>1 DEF NoMemory
<1>4. overlap.stale = {} /\ overlap.current = FALSE
  BY <1>1
<1>5. Indexing = {}
  BY <1>1, <1>2 DEF Indexing
<1>6. \A r \in Recorders : recording[r].next >= 1
  BY <1>1
<1>7. \A id \in SessionIds : Stamped(sessions[id].messages)
  BY <1>1, StampedAssumption DEF SessionIds
<1>8. StampInv
  BY <1>1, <1>2, <1>3, <1>6, <1>7 DEF StampInv, StampedCommand
<1>9. memory = [facts |-> memory.facts, edges |-> memory.edges, versions |-> memory.versions,
                observations |-> memory.observations]
  BY <1>1 DEF NoMemory
<1>10. memory.versions = [k \in DOMAIN memory.versions |-> memory.versions[k]]
  BY <1>3
<1>11. overlap = [stale |-> overlap.stale, current |-> overlap.current]
  BY <1>1
<1> QED BY <1>4, <1>5, <1>8, <1>9, <1>10, <1>11 DEF IndexInv, CurrentInv

LEMMA RebuildsStep ==
    ASSUME RebuildsInv, [IndexNext]_indexVars
    PROVE  RebuildsInv'
<1>1. StoreInv' /\ SessionsGrow
  BY StoreStepInv DEF RebuildsInv
<1>2. DataInv /\ CopyInv /\ StampInv /\ IndexInv
  BY DEF RebuildsInv, StoreInv, SafeInv
<1>3. CASE UNCHANGED indexVars
  <2>1. UNCHANGED <<sessions, artifact, recording, command, memory, overlap>>
    BY <1>3 DEF indexVars, vars
  <2>2. /\ SessionIds' = SessionIds /\ LatestEdges' = LatestEdges /\ Indexing' = Indexing
        /\ \A id : Reflected(id)' = Reflected(id) /\ Expected(id)' = Expected(id)
    BY <2>1, SameTables DEF Indexing
  <2>3. StampInv'
    BY <1>2, <2>1, <2>2 DEF StampInv
  <2>4. \A c : RebuildInv(c)' = RebuildInv(c)
    <3>1. \A cmd : /\ QueueInv(cmd)' = QueueInv(cmd) /\ FreshRead(cmd)' = FreshRead(cmd)
                   /\ WrittenInv(cmd)' = WrittenInv(cmd)
      BY <2>1, <2>2 DEF QueueInv, FreshRead, WrittenInv
    <3> QED BY <2>1, <3>1 DEF RebuildInv
  <2>5. IndexInv'
    BY <1>2, <2>1, <2>2, <2>4 DEF IndexInv, CurrentInv
  <2> QED BY <1>1, <2>3, <2>5 DEF RebuildsInv
<1>4. CASE StoreStep
  BY <1>1, <1>2, <1>4, StoreIndex DEF RebuildsInv
<1>5. ASSUME NEW c \in Clis, IndexStep(c)
      PROVE  RebuildsInv'
  BY <1>1, <1>2, <1>5, StartIndex, ReadIndex, WriteIndex, EdgesIndex DEF RebuildsInv, IndexStep
<1> QED BY <1>3, <1>4, <1>5 DEF IndexNext

\* rebuild_memory_for_session and replace_supersession_edges: after a rebuild of
\* all sessions that nothing overtook, facts, edges, versions and observations
\* are what the stored sessions say, whatever rebuilds follow, overlap or die.
THEOREM IndexIsFaithful == IndexSpec => []IndexReflectsSessions
<1>1. IndexInit => RebuildsInv
  BY RebuildsInit
<1>2. RebuildsInv /\ [IndexNext]_indexVars => RebuildsInv'
  BY RebuildsStep
<1>3. RebuildsInv => IndexReflectsSessions
  BY DEF RebuildsInv, IndexInv, CurrentInv, IndexReflectsSessions, LatestEdges
<1> QED BY <1>1, <1>2, <1>3, PTL DEF IndexSpec
=============================================================================
