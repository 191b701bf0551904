--------------------------- MODULE HttpRegistryProofs ---------------------------
(***************************************************************************)
(* Proofs about HttpRegistry for every number of exchanges, every set of   *)
(* session ids and every semaphore size.                                   *)
(***************************************************************************)
EXTENDS HttpRegistry, TLAPS, FiniteSetTheorems

\* Removing recordings from the registry keeps the types.
LEMMA TakeType ==
    ASSUME Typed, NEW rs \in SUBSET Exchanges, NEW who \in Finalizers \cup Exchanges, Take(rs, who)
    PROVE  /\ state' \in [Exchanges -> {"none", "open", "taken", "closed", "failed"}]
           /\ finalizer' \in [Exchanges -> Finalizers \cup Exchanges]
BY DEF Typed, Take

\* Counting one more of something keeps a table of counts a table of counts.
LEMMA CountUpType ==
    ASSUME NEW f \in [Exchanges -> Nat], NEW x
    PROVE  [f EXCEPT ![x] = f[x] + 1] \in [Exchanges -> Nat]
<1> DEFINE g == [f EXCEPT ![x] = f[x] + 1]
<1>1. ASSUME NEW r \in Exchanges PROVE g[r] \in Nat
  <2>1. CASE r = x
    BY <2>1
  <2>2. CASE r # x
    BY <2>2
  <2> QED BY <2>1, <2>2
<1> QED BY <1>1

\* Every variable keeps its type.
LEMMA TypedStep == Typed /\ [Next]_vars => Typed'
<1> SUFFICES ASSUME Typed, [Next]_vars PROVE Typed'
  OBVIOUS
<1> USE DEF exchangeVars, recordingVars, historyVars
<1>1. ASSUME NEW e \in Exchanges, Arrive(e) PROVE Typed'
  <2>1. PICK k \in Groups \cup {e}, delete \in BOOLEAN :
          /\ key' = [key EXCEPT ![e] = k]
          /\ closes' = [closes EXCEPT ![e] = (k = e \/ delete)]
    BY <1>1, Zenon DEF Arrive
  <2>2. key' \in [Exchanges -> Keys] /\ closes' \in [Exchanges -> BOOLEAN]
    BY <2>1 DEF Typed, Keys
  <2>3. omitted' \in {omitted, omitted + 1}
    BY <1>1, Zenon DEF Arrive, Refuse
  <2>4. at' \in {[at EXCEPT ![e] = "retiring_idle"], [at EXCEPT ![e] = "refused"]}
    BY <1>1, Zenon DEF Arrive, Refuse
  <2> QED BY <1>1, <2>2, <2>3, <2>4 DEF Arrive, Typed
<1>2. ASSUME NEW e \in Exchanges, RetireIdle(e) PROVE Typed'
  <2>1. PICK idle \in SUBSET Inactive : Take(idle, "detached")
    BY <1>2, Zenon DEF RetireIdle
  <2>2. idle \subseteq Exchanges /\ "detached" \in Finalizers
    BY DEF Inactive, Finalizers
  <2> QED BY <1>2, <2>1, <2>2, TakeType DEF RetireIdle, Typed
<1>3. ASSUME NEW e \in Exchanges, JoinRecording(e) PROVE Typed'
  <2>1. PICK r \in Open(key[e]) :
          /\ active' = [active EXCEPT ![r] = @ + 1]
          /\ retiring' = [retiring EXCEPT ![r] = @ \/ closes[e]]
          /\ lease' = [lease EXCEPT ![e] = r]
    BY <1>3, Zenon DEF JoinRecording
  <2>2. r \in Exchanges
    BY DEF Open
  <2>3. retiring' \in [Exchanges -> BOOLEAN]
    BY <2>1, <2>2, Zenon DEF Typed
  <2>4. active' \in [Exchanges -> Nat] /\ lease' \in [Exchanges -> Exchanges \cup {None}]
    BY <2>1, <2>2 DEF Typed
  <2>5. /\ at' = [at EXCEPT ![e] = "recording"]
        /\ UNCHANGED <<key, closes, state, published, finalizer, dropped, omitted, failures,
                       phase, succeeded, historyVars>>
    BY <1>3, Zenon DEF JoinRecording
  <2> QED BY <2>3, <2>4, <2>5 DEF Typed
<1>4. ASSUME NEW e \in Exchanges, StartRecording(e) PROVE Typed'
  BY <1>4 DEF StartRecording, Typed
<1>5. ASSUME NEW e \in Exchanges, CannotResolve(e) PROVE Typed'
  <2>1. refusedBy' \in [Exchanges -> Exchanges \cup {None}]
    BY <1>5 DEF CannotResolve, Open, Typed
  <2>2. /\ at' = [at EXCEPT ![e] = "refused"] /\ omitted' = omitted + 1
        /\ UNCHANGED <<key, closes, lease, recordingVars, dropped, failures, phase, succeeded, loss>>
    BY <1>5, Zenon DEF CannotResolve, Refuse
  <2> QED BY <2>1, <2>2 DEF Typed
<1>6. ASSUME NEW e \in Exchanges, ChargeRefusal(e) PROVE Typed'
  <2>1. CASE UNCHANGED <<recordingVars, dropped>>
    <3>1. /\ at' = [at EXCEPT ![e] = "done"]
          /\ UNCHANGED <<key, closes, lease, omitted, failures, phase, succeeded, loss, refusedBy>>
      BY <1>6, Zenon DEF ChargeRefusal
    <3> QED BY <2>1, <3>1 DEF Typed
  <2>2. ASSUME NEW r \in Open(key[e]),
               dropped' = [dropped EXCEPT ![r] = @ + 1],
               retiring' = [retiring EXCEPT ![r] = @ \/ closes[e]],
               Take(IF retiring'[r] /\ active[r] = 0 THEN {r} ELSE {}, "detached"),
               UNCHANGED <<active, published>>
        PROVE  Typed'
    <3>1. /\ (IF retiring'[r] /\ active[r] = 0 THEN {r} ELSE {}) \in SUBSET Exchanges
          /\ r \in Exchanges /\ "detached" \in Finalizers
      BY DEF Open, Finalizers
    <3>2. /\ state' \in [Exchanges -> {"none", "open", "taken", "closed", "failed"}]
          /\ finalizer' \in [Exchanges -> Finalizers \cup Exchanges]
      BY <2>2, <3>1, TakeType
    <3>3. retiring' \in [Exchanges -> BOOLEAN]
      BY <2>2, <3>1, Zenon DEF Typed
    <3>4. dropped' \in [Exchanges -> Nat]
      BY <2>2, <3>1 DEF Typed
    <3>5. /\ at' = [at EXCEPT ![e] = "done"]
          /\ UNCHANGED <<key, closes, lease, omitted, failures, phase, succeeded, loss, refusedBy>>
      BY <1>6, Zenon DEF ChargeRefusal
    <3> QED BY <2>2, <3>2, <3>3, <3>4, <3>5 DEF Typed
  <2> QED BY <1>6, <2>1, <2>2, Zenon DEF ChargeRefusal
<1>7. ASSUME NEW e \in Exchanges, Cancel(e) \/ DropLease(e) PROVE Typed'
  BY <1>7 DEF Cancel, DropLease, Typed
<1>8. ASSUME NEW e \in Exchanges, LossStep(e) PROVE Typed'
  <2>1. dropped' \in [Exchanges -> Nat]
    <3>1. \/ dropped' = [dropped EXCEPT ![lease[e]] = dropped[lease[e]] + 1]
          \/ dropped' = dropped
      BY <1>8, Zenon DEF LossStep, LoseMessage, TapMarks, TapCounts
    <3>2. dropped \in [Exchanges -> Nat]
      BY DEF Typed
    <3>3. [dropped EXCEPT ![lease[e]] = dropped[lease[e]] + 1] \in [Exchanges -> Nat]
      BY <3>2, CountUpType, Zenon
    <3> QED BY <3>1, <3>2, <3>3, Zenon
  <2>2. PICK x \in {"marked", "counted", "late"} : loss' = [loss EXCEPT ![e] = x]
    BY <1>8, Zenon DEF LossStep, LoseMessage, TapMarks, TapCounts
  <2>3. UNCHANGED <<exchangeVars, recordingVars, omitted, failures, phase, succeeded, refusedBy>>
    BY <1>8, Zenon DEF LossStep, LoseMessage, TapMarks, TapCounts
  <2> QED BY <2>1, <2>2, <2>3 DEF Typed
<1>9. ASSUME NEW e \in Exchanges, Release(e) PROVE Typed'
  <2>1. CASE at' = [at EXCEPT ![e] = "done"] /\ UNCHANGED recordingVars
    <3>1. UNCHANGED <<key, closes, lease, dropped, omitted, failures, phase, succeeded, historyVars>>
      BY <1>9, Zenon DEF Release
    <3> QED BY <2>1, <3>1 DEF Typed
  <2>2. ASSUME NEW r \in Open(key[e]), NEW count,
               count = IF active[r] = 0 THEN 0 ELSE active[r] - 1,
               active' = [active EXCEPT ![r] = count],
               retiring' = [retiring EXCEPT ![r] = @ \/ closes[e]],
               \/ Take({r}, e) /\ at' = [at EXCEPT ![e] = "finalizing"]
               \/ at' = [at EXCEPT ![e] = "done"] /\ UNCHANGED <<state, finalizer>>,
               UNCHANGED published
        PROVE  Typed'
    <3>1. r \in Exchanges
      BY DEF Open
    <3>2. count \in Nat
      <4>1. active[r] \in Nat
        BY <3>1 DEF Typed
      <4> QED BY <2>2, <4>1
    <3>3. /\ state' \in [Exchanges -> {"none", "open", "taken", "closed", "failed"}]
          /\ finalizer' \in [Exchanges -> Finalizers \cup Exchanges]
      <4>1. CASE Take({r}, e)
        <5>1. {r} \in SUBSET Exchanges /\ e \in Finalizers \cup Exchanges
          BY <3>1
        <5> QED BY <4>1, <5>1, TakeType
      <4>2. CASE UNCHANGED <<state, finalizer>>
        BY <4>2 DEF Typed
      <4> QED BY <2>2, <4>1, <4>2
    <3>4. active' \in [Exchanges -> Nat]
      BY <2>2, <3>2 DEF Typed
    <3>5. retiring' \in [Exchanges -> BOOLEAN]
      BY <2>2, <3>1, Zenon DEF Typed
    <3>6. at' \in {[at EXCEPT ![e] = "finalizing"], [at EXCEPT ![e] = "done"]}
      BY <2>2, Zenon
    <3>7. UNCHANGED <<key, closes, lease, dropped, omitted, failures, phase, succeeded, historyVars>>
      BY <1>9, Zenon DEF Release
    <3> QED BY <2>2, <3>3, <3>4, <3>5, <3>6, <3>7 DEF Typed
  <2> QED BY <1>9, <2>1, <2>2, Zenon DEF Release
<1>10. ASSUME NEW r \in Exchanges, Finalize(r) PROVE Typed'
  <2>1. failures' \in {failures, failures + 1}
    BY <1>10, Zenon DEF Finalize
  <2>2. state' \in [Exchanges -> {"none", "open", "taken", "closed", "failed"}]
    BY <1>10 DEF Finalize, Typed
  <2>3. finalizer' \in [Exchanges -> Finalizers \cup Exchanges]
    BY <1>10 DEF Finalize, Typed, Finalizers
  <2>4. loss' \in [Exchanges -> {"none", "marked", "counted", "outrun", "late"}]
    BY <1>10 DEF Finalize, Typed
  <2> QED BY <1>10, <2>1, <2>2, <2>3, <2>4 DEF Finalize, Typed
<1>11. CASE Reap
  <2>1. PICK idle \in SUBSET Inactive : Take(idle, "reaper")
    BY <1>11, Zenon DEF Reap
  <2>2. idle \subseteq Exchanges /\ "reaper" \in Finalizers
    BY DEF Inactive, Finalizers
  <2> QED BY <1>11, <2>1, <2>2, TakeType DEF Reap, Typed
<1>12. CASE CloseAll
  <2>1. "closer" \in Finalizers /\ {r \in Exchanges : state[r] = "open"} \subseteq Exchanges
    BY DEF Finalizers
  <2> QED BY <1>12, <2>1, TakeType DEF CloseAll, Typed
<1>13. CASE ServeEnds \/ ReaperEnds \/ TasksJoined \/ Return
  BY <1>13 DEF ServeEnds, ReaperEnds, TasksJoined, Return, Typed
<1>14. CASE UNCHANGED vars
  BY <1>14 DEF vars, Typed
<1> QED
  BY <1>1, <1>2, <1>3, <1>4, <1>5, <1>6, <1>7, <1>8, <1>9, <1>10, <1>11, <1>12, <1>13,
     <1>14, Zenon DEF Next, AdmissionStep, ExchangeStep, ShutdownStep

-------------------------------------------------------------------------------
(* The lease invariant.  LeaseKeepsOpen alone is not inductive: that a release *)
(* by key finds the recording of its own lease needs one open recording per    *)
(* key, that a new recording starts with no lease needs its creator to be new, *)
(* and that a finalization ends no lease needs finalizers to be done recording. *)

Admitted(e) == at[e] \in {"recording", "releasing"}
Unresolved(e) == at[e] \in {"new", "retiring_idle", "resolving"}

LeaseIsOpen ==
    \A e \in Exchanges :
      Admitted(e) => lease[e] \in Exchanges /\ state[lease[e]] = "open" /\ key[lease[e]] = key[e]

OneOpenPerKey ==
    \A r, s \in Exchanges : state[r] = "open" /\ state[s] = "open" /\ key[r] = key[s] => r = s

CreatorIsResolved == \A r \in Exchanges : Unresolved(r) => state[r] = "none"

FinalizerIsDone ==
    \A r \in Exchanges : state[r] = "taken" /\ finalizer[r] \in Exchanges =>
      /\ at[finalizer[r]] = "finalizing"
      /\ \A s \in Exchanges : state[s] = "taken" /\ finalizer[s] = finalizer[r] => s = r

ActiveIsLeased ==
    \A r \in Exchanges : state[r] = "open" => active[r] = Cardinality(Leased(r))

LeaseInv ==
    LeaseIsOpen /\ OneOpenPerKey /\ CreatorIsResolved /\ FinalizerIsDone /\ ActiveIsLeased

\* The leases of one recording are finitely many.
LEMMA LeasedFinite ==
    ASSUME NEW r
    PROVE  /\ IsFiniteSet(Leased(r)) /\ Cardinality(Leased(r)) \in Nat
           /\ Cardinality(Leased(r)) = 0 <=> Leased(r) = {}
BY RegistryAssumption, FS_Subset, FS_CardinalityType, FS_EmptySet DEF Leased

\* Removing nothing is doing nothing to the registry.
LEMMA TakeNothing ==
    ASSUME Typed, UNCHANGED <<state, finalizer>>
    PROVE  Take({}, "detached")
BY DEF Typed, Take

\* A step that leaves every lease alone and removes only recordings with no
\* active exchange keeps the invariant.
LEMMA QuietStep ==
    ASSUME Typed, LeaseInv, UNCHANGED <<key, lease, active>>,
           \A e \in Exchanges : /\ Admitted(e)' <=> Admitted(e)
                                /\ Unresolved(e)' => Unresolved(e)
                                /\ at[e] = "finalizing" => at'[e] = "finalizing",
           NEW rs \in SUBSET Exchanges, NEW who \in Finalizers, Take(rs, who),
           \A r \in rs : state[r] = "open" /\ active[r] = 0
    PROVE  LeaseInv'
<1>1. \A r \in Exchanges : Leased(r)' = Leased(r)
  BY DEF Leased, Admitted
<1>2. ASSUME NEW r \in Exchanges
      PROVE  /\ state'[r] = IF r \in rs THEN "taken" ELSE state[r]
             /\ finalizer'[r] = IF r \in rs THEN who ELSE finalizer[r]
  BY DEF Take
<1>3. \A r \in rs : Leased(r) = {}
  BY LeasedFinite DEF LeaseInv, ActiveIsLeased
<1>4. LeaseIsOpen'
  <2> SUFFICES ASSUME NEW e \in Exchanges, Admitted(e)'
      PROVE  lease'[e] \in Exchanges /\ state'[lease'[e]] = "open" /\ key'[lease'[e]] = key'[e]
    BY DEF LeaseIsOpen
  <2>1. Admitted(e)
    OBVIOUS
  <2>2. lease[e] \in Exchanges /\ state[lease[e]] = "open" /\ key[lease[e]] = key[e]
    BY <2>1 DEF LeaseInv, LeaseIsOpen
  <2>3. e \in Leased(lease[e])
    BY <2>1 DEF Leased, Admitted
  <2>4. lease[e] \notin rs
    BY <1>3, <2>3
  <2> QED BY <1>2, <2>2, <2>4
<1>5. OneOpenPerKey'
  BY <1>2 DEF LeaseInv, OneOpenPerKey
<1>6. CreatorIsResolved'
  BY <1>2 DEF LeaseInv, CreatorIsResolved
<1>7. FinalizerIsDone'
  <2> SUFFICES ASSUME NEW r \in Exchanges, state'[r] = "taken", finalizer'[r] \in Exchanges
      PROVE  /\ at'[finalizer'[r]] = "finalizing"
             /\ \A s \in Exchanges : state'[s] = "taken" /\ finalizer'[s] = finalizer'[r] => s = r
    BY DEF FinalizerIsDone
  <2>1. who \notin Exchanges
    BY RegistryAssumption
  <2>2. r \notin rs
    BY <1>2, <2>1
  <2>3. /\ state[r] = "taken" /\ finalizer'[r] = finalizer[r] /\ at[finalizer[r]] = "finalizing"
        /\ \A s \in Exchanges : state[s] = "taken" /\ finalizer[s] = finalizer[r] => s = r
    BY <1>2, <2>2 DEF LeaseInv, FinalizerIsDone
  <2>4. ASSUME NEW s \in Exchanges, state'[s] = "taken", finalizer'[s] = finalizer'[r]
        PROVE  s = r
    <3>1. s \notin rs
      BY <1>2, <2>1, <2>4
    <3> QED BY <1>2, <2>3, <2>4, <3>1
  <2> QED BY <2>3, <2>4
<1>8. ActiveIsLeased'
  BY <1>1, <1>2 DEF LeaseInv, ActiveIsLeased
<1> QED BY <1>4, <1>5, <1>6, <1>7, <1>8 DEF LeaseInv

\* A request names its recording before anything can be recorded under its key.
LEMMA ArriveStep ==
    ASSUME Typed, LeaseInv, NEW e \in Exchanges, Arrive(e)
    PROVE  LeaseInv'
<1>1. /\ at[e] = "new" /\ UNCHANGED <<lease, state, active, finalizer>>
      /\ at' \in {[at EXCEPT ![e] = "retiring_idle"], [at EXCEPT ![e] = "refused"]}
  BY Zenon DEF Arrive, Refuse, recordingVars
<1>2. PICK k : key' = [key EXCEPT ![e] = k]
  BY Zenon DEF Arrive
<1>3. state[e] = "none"
  BY <1>1 DEF LeaseInv, CreatorIsResolved, Unresolved
<1>4. ASSUME NEW f \in Exchanges
      PROVE  /\ Admitted(f)' <=> Admitted(f)
             /\ Unresolved(f)' => Unresolved(f)
             /\ at[f] = "finalizing" => at'[f] = "finalizing"
             /\ f # e => key'[f] = key[f]
  BY <1>1, <1>2 DEF Admitted, Unresolved, Typed
<1>5. \A r \in Exchanges : Leased(r)' = Leased(r)
  BY <1>1, <1>4 DEF Leased, Admitted
<1>6. LeaseIsOpen'
  <2> SUFFICES ASSUME NEW f \in Exchanges, Admitted(f)'
      PROVE  lease'[f] \in Exchanges /\ state'[lease'[f]] = "open" /\ key'[lease'[f]] = key'[f]
    BY DEF LeaseIsOpen
  <2>1. Admitted(f) /\ f # e
    BY <1>1, <1>4 DEF Admitted
  <2>2. lease[f] \in Exchanges /\ state[lease[f]] = "open" /\ key[lease[f]] = key[f]
    BY <2>1 DEF LeaseInv, LeaseIsOpen
  <2>3. lease[f] # e
    BY <1>3, <2>2
  <2> QED BY <1>1, <1>4, <2>1, <2>2, <2>3
<1>7. OneOpenPerKey'
  BY <1>1, <1>3, <1>4 DEF LeaseInv, OneOpenPerKey
<1>8. CreatorIsResolved' /\ FinalizerIsDone'
  BY <1>1, <1>4 DEF LeaseInv, CreatorIsResolved, FinalizerIsDone
<1>9. ActiveIsLeased'
  BY <1>1, <1>5 DEF LeaseInv, ActiveIsLeased
<1> QED BY <1>6, <1>7, <1>8, <1>9 DEF LeaseInv

\* A lease more on an open recording is an active exchange more.
LEMMA JoinStep ==
    ASSUME Typed, LeaseInv, NEW e \in Exchanges, JoinRecording(e)
    PROVE  LeaseInv'
<1>1. PICK r \in Open(key[e]) :
        /\ active' = [active EXCEPT ![r] = active[r] + 1]
        /\ lease' = [lease EXCEPT ![e] = r]
  BY Zenon DEF JoinRecording
<1>2. /\ at[e] = "resolving" /\ at' = [at EXCEPT ![e] = "recording"]
      /\ UNCHANGED <<key, state, finalizer>>
  BY Zenon DEF JoinRecording
<1>3. r \in Exchanges /\ state[r] = "open" /\ key[r] = key[e]
  BY DEF Open
<1>4. ASSUME NEW f \in Exchanges
      PROVE  /\ f # e => (Admitted(f)' <=> Admitted(f)) /\ lease'[f] = lease[f] /\ at'[f] = at[f]
             /\ f = e => ~Admitted(f) /\ Admitted(f)' /\ lease'[f] = r /\ ~Unresolved(f)'
             /\ Unresolved(f)' => Unresolved(f)
             /\ at[f] = "finalizing" => at'[f] = "finalizing"
  BY <1>1, <1>2 DEF Admitted, Unresolved, Typed
<1>5. Leased(r)' = Leased(r) \cup {e} /\ e \notin Leased(r)
  BY <1>4 DEF Leased, Admitted
<1>6. \A s \in Exchanges : s # r => Leased(s)' = Leased(s)
  BY <1>4 DEF Leased, Admitted
<1>7. LeaseIsOpen'
  BY <1>2, <1>3, <1>4 DEF LeaseInv, LeaseIsOpen
<1>8. OneOpenPerKey' /\ CreatorIsResolved' /\ FinalizerIsDone'
  BY <1>2, <1>4 DEF LeaseInv, OneOpenPerKey, CreatorIsResolved, FinalizerIsDone
<1>9. ActiveIsLeased'
  <2>1. Cardinality(Leased(r)') = Cardinality(Leased(r)) + 1
    BY <1>5, LeasedFinite, FS_AddElement
  <2>2. active'[r] = active[r] + 1 /\ \A s \in Exchanges : s # r => active'[s] = active[s]
    BY <1>1, <1>3 DEF Typed
  <2> QED BY <1>2, <1>3, <1>6, <2>1, <2>2 DEF LeaseInv, ActiveIsLeased
<1> QED BY <1>7, <1>8, <1>9 DEF LeaseInv

\* A new recording has the one lease of the exchange that created it.
LEMMA StartStep ==
    ASSUME Typed, LeaseInv, NEW e \in Exchanges, StartRecording(e)
    PROVE  LeaseInv'
<1>1. /\ at[e] = "resolving" /\ Open(key[e]) = {}
      /\ state' = [state EXCEPT ![e] = "open"] /\ active' = [active EXCEPT ![e] = 1]
      /\ lease' = [lease EXCEPT ![e] = e] /\ at' = [at EXCEPT ![e] = "recording"]
      /\ UNCHANGED <<key, finalizer>>
  BY Zenon DEF StartRecording
<1>2. state[e] = "none"
  BY <1>1 DEF LeaseInv, CreatorIsResolved, Unresolved
<1>3. ASSUME NEW f \in Exchanges
      PROVE  /\ f # e => /\ (Admitted(f)' <=> Admitted(f)) /\ lease'[f] = lease[f]
                         /\ at'[f] = at[f] /\ state'[f] = state[f] /\ active'[f] = active[f]
             /\ f = e => /\ ~Admitted(f) /\ Admitted(f)' /\ lease'[f] = e /\ ~Unresolved(f)'
                         /\ state'[f] = "open" /\ active'[f] = 1
             /\ Unresolved(f)' => Unresolved(f)
             /\ at[f] = "finalizing" => at'[f] = "finalizing"
             /\ state[f] = "open" => key[f] # key[e]
  BY <1>1 DEF Admitted, Unresolved, Typed, Open
<1>4. \A f \in Exchanges : Admitted(f) => lease[f] # e
  BY <1>2 DEF LeaseInv, LeaseIsOpen
<1>5. Leased(e)' = {e}
  BY <1>3, <1>4 DEF Leased, Admitted
<1>6. \A s \in Exchanges : s # e => Leased(s)' = Leased(s)
  BY <1>3 DEF Leased, Admitted
<1>7. LeaseIsOpen'
  BY <1>1, <1>3, <1>4 DEF LeaseInv, LeaseIsOpen
<1>8. OneOpenPerKey'
  BY <1>1, <1>3 DEF LeaseInv, OneOpenPerKey
<1>9. CreatorIsResolved' /\ FinalizerIsDone'
  BY <1>1, <1>2, <1>3 DEF LeaseInv, CreatorIsResolved, FinalizerIsDone
<1>10. ActiveIsLeased'
  <2> SUFFICES ASSUME NEW s \in Exchanges, state'[s] = "open"
      PROVE  active'[s] = Cardinality(Leased(s)')
    BY DEF ActiveIsLeased
  <2>1. CASE s = e
    <3>1. Cardinality(Leased(e)') = 1
      BY <1>5, FS_Singleton
    <3> QED BY <1>3, <2>1, <3>1
  <2>2. CASE s # e
    <3>1. state[s] = "open" /\ active'[s] = active[s]
      BY <1>3, <2>2
    <3>2. active[s] = Cardinality(Leased(s))
      BY <3>1 DEF LeaseInv, ActiveIsLeased
    <3> QED BY <1>6, <2>2, <3>1, <3>2
  <2> QED BY <2>1, <2>2
<1> QED BY <1>7, <1>8, <1>9, <1>10 DEF LeaseInv

\* The release by key finds the recording of its own lease, and removes it only
\* with the last lease.
LEMMA ReleaseStep ==
    ASSUME Typed, LeaseInv, NEW e \in Exchanges, Release(e)
    PROVE  LeaseInv'
<1>1. at[e] = "releasing" /\ UNCHANGED <<key, lease>>
  BY Zenon DEF Release
<1>2. PICK r \in Exchanges :
        /\ r = lease[e] /\ state[r] = "open" /\ key[r] = key[e]
        /\ active[r] = Cardinality(Leased(r)) /\ e \in Leased(r)
  BY <1>1 DEF LeaseInv, LeaseIsOpen, ActiveIsLeased, Leased, Admitted
<1>3. Open(key[e]) = {r}
  BY <1>2 DEF Open, LeaseInv, OneOpenPerKey
<1>4. active[r] \in Nat /\ active[r] # 0
  BY <1>2, LeasedFinite
<1>5. /\ active' = [active EXCEPT ![r] = active[r] - 1]
      /\ \/ /\ active[r] - 1 = 0 /\ Take({r}, e)
            /\ at' = [at EXCEPT ![e] = "finalizing"]
         \/ at' = [at EXCEPT ![e] = "done"] /\ UNCHANGED <<state, finalizer>>
  BY <1>3, <1>4 DEF Release, RemovesEntry
<1>6. ASSUME NEW f \in Exchanges
      PROVE  /\ f # e => (Admitted(f)' <=> Admitted(f)) /\ at'[f] = at[f]
             /\ f = e => ~Admitted(f)' /\ ~Unresolved(f)'
             /\ Unresolved(f)' => Unresolved(f)
             /\ at[f] = "finalizing" => at'[f] = "finalizing"
             /\ f # r => active'[f] = active[f]
             /\ f = r => active'[f] = active[f] - 1
  <2>1. f # e => at'[f] = at[f]
    BY <1>5 DEF Typed
  <2>2. at'[e] \in {"finalizing", "done"}
    BY <1>5 DEF Typed
  <2>3. active' = [active EXCEPT ![r] = active[r] - 1] /\ active \in [Exchanges -> Nat]
    BY <1>5 DEF Typed
  <2>4. /\ f # r => active'[f] = active[f]
        /\ f = r => active'[f] = active[f] - 1
    BY <2>3
  <2> QED BY <1>1, <2>1, <2>2, <2>4 DEF Admitted, Unresolved
<1>7. Leased(r)' = Leased(r) \ {e}
  <2>1. ASSUME NEW f PROVE f \in Leased(r)' <=> f \in Leased(r) /\ f # e
    BY <1>1, <1>6 DEF Leased, Admitted
  <2> QED BY <2>1
<1>8. ASSUME NEW s \in Exchanges, s # r
      PROVE  Leased(s)' = Leased(s)
  <2>1. e \notin Leased(s)
    BY <1>2, <1>8 DEF Leased
  <2> QED BY <1>1, <1>6, <2>1 DEF Leased, Admitted
<1>9. Cardinality(Leased(r)') = Cardinality(Leased(r)) - 1
  BY <1>2, <1>7, LeasedFinite, FS_RemoveElement
<1>10. CASE UNCHANGED <<state, finalizer>>
  <2>1. LeaseIsOpen' /\ OneOpenPerKey' /\ CreatorIsResolved' /\ FinalizerIsDone'
    <3>1. LeaseIsOpen'
      BY <1>1, <1>6, <1>10 DEF LeaseInv, LeaseIsOpen
    <3>2. OneOpenPerKey' /\ CreatorIsResolved'
      BY <1>1, <1>6, <1>10 DEF LeaseInv, OneOpenPerKey, CreatorIsResolved
    <3>3. FinalizerIsDone'
      BY <1>1, <1>6, <1>10 DEF LeaseInv, FinalizerIsDone
    <3> QED BY <3>1, <3>2, <3>3
  <2>2. ActiveIsLeased'
    <3> SUFFICES ASSUME NEW s \in Exchanges, state'[s] = "open"
        PROVE  active'[s] = Cardinality(Leased(s)')
      BY DEF ActiveIsLeased
    <3>1. state[s] = "open" /\ active[s] = Cardinality(Leased(s))
      BY <1>10 DEF LeaseInv, ActiveIsLeased
    <3>2. CASE s = r
      BY <1>6, <1>9, <3>1, <3>2
    <3>3. CASE s # r
      BY <1>6, <1>8, <3>1, <3>3
    <3> QED BY <3>2, <3>3
  <2> QED BY <2>1, <2>2 DEF LeaseInv
<1>11. CASE active[r] - 1 = 0 /\ Take({r}, e) /\ at' = [at EXCEPT ![e] = "finalizing"]
  <2>1. ASSUME NEW s \in Exchanges
        PROVE  /\ state'[s] = IF s = r THEN "taken" ELSE state[s]
               /\ finalizer'[s] = IF s = r THEN e ELSE finalizer[s]
    BY <1>11 DEF Take
  <2>2. Leased(r)' = {}
    <3>1. IsFiniteSet(Leased(r)') /\ Cardinality(Leased(r)') = 0
      BY <1>2, <1>4, <1>7, <1>9, <1>11, LeasedFinite, FS_RemoveElement
    <3> QED BY <3>1, FS_EmptySet
  <2>3. \A f \in Exchanges : Admitted(f)' => lease[f] # r
    <3> SUFFICES ASSUME NEW f \in Exchanges, Admitted(f)', lease[f] = r PROVE FALSE
      OBVIOUS
    <3>1. f \in Leased(r)'
      BY <1>1 DEF Leased, Admitted
    <3> QED BY <2>2, <3>1
  <2>4. LeaseIsOpen'
    BY <1>1, <1>6, <2>1, <2>3 DEF LeaseInv, LeaseIsOpen
  <2>5. OneOpenPerKey' /\ CreatorIsResolved'
    BY <1>1, <1>2, <1>6, <2>1 DEF LeaseInv, OneOpenPerKey, CreatorIsResolved
  <2>6. FinalizerIsDone'
    <3>1. \A s \in Exchanges : state[s] = "taken" => finalizer[s] # e
      BY <1>1 DEF LeaseInv, FinalizerIsDone
    <3>2. at'[e] = "finalizing"
      BY <1>11 DEF Typed
    <3> QED BY <1>2, <1>6, <2>1, <3>1, <3>2 DEF LeaseInv, FinalizerIsDone
  <2>7. ActiveIsLeased'
    BY <1>8, <1>6, <2>1 DEF LeaseInv, ActiveIsLeased
  <2> QED BY <2>4, <2>5, <2>6, <2>7 DEF LeaseInv
<1> QED BY <1>5, <1>10, <1>11

\* A finalization touches no open recording, and ends the wait of its finalizer.
LEMMA FinalizeStep ==
    ASSUME Typed, LeaseInv, NEW r \in Exchanges, Finalize(r)
    PROVE  LeaseInv'
<1>1. /\ state[r] = "taken" /\ UNCHANGED <<key, lease, active>>
      /\ state' \in {[state EXCEPT ![r] = "closed"], [state EXCEPT ![r] = "failed"]}
      /\ at' = [e \in Exchanges |-> IF finalizer[r] = e THEN "done" ELSE at[e]]
      /\ finalizer' = [finalizer EXCEPT ![r] = "none"]
  BY Zenon DEF Finalize
<1>2. ASSUME NEW s \in Exchanges
      PROVE  /\ s # r => state'[s] = state[s] /\ finalizer'[s] = finalizer[s]
             /\ s = r => state'[s] \in {"closed", "failed"}
  BY <1>1 DEF Typed
<1>3. ASSUME NEW e \in Exchanges
      PROVE  /\ Admitted(e)' <=> Admitted(e)
             /\ Unresolved(e)' => Unresolved(e)
             /\ e # finalizer[r] => at'[e] = at[e]
  BY <1>1 DEF LeaseInv, FinalizerIsDone, Admitted, Unresolved
<1>4. \A s \in Exchanges : Leased(s)' = Leased(s)
  BY <1>1, <1>3 DEF Leased, Admitted
<1>5. LeaseIsOpen'
  BY <1>1, <1>2, <1>3 DEF LeaseInv, LeaseIsOpen
<1>6. OneOpenPerKey'
  BY <1>1, <1>2 DEF LeaseInv, OneOpenPerKey
<1>7. CreatorIsResolved'
  BY <1>1, <1>2, <1>3 DEF LeaseInv, CreatorIsResolved
<1>8. FinalizerIsDone'
  BY <1>1, <1>2, <1>3 DEF LeaseInv, FinalizerIsDone
<1>9. ActiveIsLeased'
  BY <1>1, <1>2, <1>4 DEF LeaseInv, ActiveIsLeased
<1> QED BY <1>5, <1>6, <1>7, <1>8, <1>9 DEF LeaseInv

\* Steps that never touch a lease: the walk through admission, the idle
\* retirements, a refusal, the loss of a message and the end of the tasks.
LEMMA OtherSteps ==
    ASSUME Typed, LeaseInv, NEW e \in Exchanges,
           RetireIdle(e) \/ CannotResolve(e) \/ Cancel(e) \/ LossStep(e) \/ DropLease(e)
    PROVE  LeaseInv'
<1> USE DEF exchangeVars, recordingVars
<1>1. /\ UNCHANGED <<key, lease, active>>
      /\ \A f \in Exchanges : /\ Admitted(f)' <=> Admitted(f)
                              /\ Unresolved(f)' => Unresolved(f)
                              /\ at[f] = "finalizing" => at'[f] = "finalizing"
  BY Zenon, SMT DEF RetireIdle, CannotResolve, Refuse, Cancel, LossStep, LoseMessage, TapMarks,
                    TapCounts, DropLease, Admitted, Unresolved, Typed
<1>2. "detached" \in Finalizers
  BY DEF Finalizers
<1>3. CASE RetireIdle(e)
  <2>1. PICK idle \in SUBSET Inactive : Take(idle, "detached")
    BY <1>3, Zenon DEF RetireIdle
  <2>2. idle \in SUBSET Exchanges /\ \A r \in idle : state[r] = "open" /\ active[r] = 0
    BY DEF Inactive
  <2> QED BY <1>1, <1>2, <2>1, <2>2, QuietStep
<1>4. CASE UNCHANGED <<state, finalizer>>
  BY <1>1, <1>2, <1>4, QuietStep, TakeNothing
<1> QED
  BY <1>3, <1>4, Zenon DEF CannotResolve, Cancel, LossStep, LoseMessage, TapMarks, TapCounts, DropLease

\* A refused request can remove a recording, but only one without an exchange.
LEMMA ChargeStep ==
    ASSUME Typed, LeaseInv, NEW e \in Exchanges, ChargeRefusal(e)
    PROVE  LeaseInv'
<1>1. /\ UNCHANGED <<key, lease>> /\ at[e] = "refused" /\ at' = [at EXCEPT ![e] = "done"]
  BY Zenon DEF ChargeRefusal
<1>2. \A f \in Exchanges : /\ Admitted(f)' <=> Admitted(f)
                           /\ Unresolved(f)' => Unresolved(f)
                           /\ at[f] = "finalizing" => at'[f] = "finalizing"
  BY <1>1 DEF Admitted, Unresolved, Typed
<1>3. "detached" \in Finalizers
  BY DEF Finalizers
<1>4. CASE UNCHANGED <<state, finalizer, active>>
  BY <1>1, <1>2, <1>3, <1>4, QuietStep, TakeNothing
<1>5. ASSUME NEW r \in Open(key[e]), UNCHANGED active,
             Take(IF retiring'[r] /\ active[r] = 0 THEN {r} ELSE {}, "detached")
      PROVE  LeaseInv'
  <2>1. r \in Exchanges /\ state[r] = "open"
    BY DEF Open
  <2>2. PICK rs \in SUBSET Exchanges :
          Take(rs, "detached") /\ \A x \in rs : state[x] = "open" /\ active[x] = 0
    <3>1. CASE retiring'[r] /\ active[r] = 0
      BY <1>5, <2>1, <3>1
    <3>2. CASE ~(retiring'[r] /\ active[r] = 0)
      BY <1>5, <3>2
    <3> QED BY <3>1, <3>2
  <2> QED BY <1>1, <1>2, <1>3, <1>5, <2>2, QuietStep
<1> QED BY <1>4, <1>5, Zenon DEF ChargeRefusal, recordingVars

\* Shutdown drains the registry when every capture permit is free, so that no
\* recording it takes has an active exchange.
LEMMA ShutdownSteps ==
    ASSUME Typed, LeaseInv,
           Reap \/ CloseAll \/ ServeEnds \/ ReaperEnds \/ TasksJoined \/ Return \/ UNCHANGED vars
    PROVE  LeaseInv'
<1> USE DEF exchangeVars, recordingVars
<1>1. /\ UNCHANGED <<at, key, lease, active>>
  BY Zenon DEF Reap, CloseAll, ServeEnds, ReaperEnds, TasksJoined, Return, vars
<1>2. \A f \in Exchanges : /\ Admitted(f)' <=> Admitted(f)
                           /\ Unresolved(f)' => Unresolved(f)
                           /\ at[f] = "finalizing" => at'[f] = "finalizing"
  BY <1>1 DEF Admitted, Unresolved
<1>3. {"detached", "reaper", "closer"} \subseteq Finalizers
  BY DEF Finalizers
<1>4. CASE Reap
  <2>1. PICK idle \in SUBSET Inactive : Take(idle, "reaper")
    BY <1>4, Zenon DEF Reap
  <2>2. idle \in SUBSET Exchanges /\ \A r \in idle : state[r] = "open" /\ active[r] = 0
    BY DEF Inactive
  <2> QED BY <1>1, <1>2, <1>3, <2>1, <2>2, QuietStep
<1>5. CASE CloseAll
  <2>1. Captures = {} /\ Take({r \in Exchanges : state[r] = "open"}, "closer")
    BY <1>5 DEF CloseAll, AllReleased
  <2>2. ASSUME NEW r \in Exchanges, state[r] = "open"
        PROVE  active[r] = 0
    <3>1. Leased(r) = {}
      BY <2>1 DEF Leased, Captures
    <3> QED BY <2>2, <3>1, LeasedFinite DEF LeaseInv, ActiveIsLeased
  <2> QED BY <1>1, <1>2, <1>3, <2>1, <2>2, QuietStep
<1>6. CASE UNCHANGED <<state, finalizer>>
  BY <1>1, <1>2, <1>3, <1>6, QuietStep, TakeNothing
<1> QED
  BY <1>4, <1>5, <1>6, Zenon DEF ServeEnds, ReaperEnds, TasksJoined, Return, vars

\* It holds of the empty registry.
LEMMA LeaseInit == Init => Typed /\ LeaseInv
<1> SUFFICES ASSUME Init PROVE Typed /\ LeaseInv
  OBVIOUS
<1>1. Typed
  BY DEF Init, Typed, Keys, Finalizers
<1>2. LeaseInv
  BY DEF Init, LeaseInv, LeaseIsOpen, OneOpenPerKey, CreatorIsResolved, FinalizerIsDone,
         ActiveIsLeased, Admitted
<1> QED BY <1>1, <1>2

\* Every step of the recorder keeps the lease invariant.
LEMMA LeaseStep == Typed /\ LeaseInv /\ [Next]_vars => LeaseInv'
<1> SUFFICES ASSUME Typed, LeaseInv, [Next]_vars PROVE LeaseInv'
  OBVIOUS
<1>1. ASSUME NEW e \in Exchanges, Arrive(e) PROVE LeaseInv'
  BY <1>1, ArriveStep
<1>2. ASSUME NEW e \in Exchanges, AdmissionStep(e) PROVE LeaseInv'
  BY <1>2, JoinStep, StartStep, OtherSteps, ChargeStep, Zenon DEF AdmissionStep
<1>3. ASSUME NEW e \in Exchanges, ExchangeStep(e) PROVE LeaseInv'
  BY <1>3, ReleaseStep, FinalizeStep, OtherSteps, Zenon DEF ExchangeStep
<1>4. ASSUME NEW e \in Exchanges, Cancel(e) \/ LossStep(e) PROVE LeaseInv'
  BY <1>4, OtherSteps
<1>5. CASE Reap \/ ServeEnds \/ ShutdownStep \/ UNCHANGED vars
  BY <1>5, ShutdownSteps, Zenon DEF ShutdownStep
<1> QED BY <1>1, <1>2, <1>3, <1>4, <1>5, Zenon DEF Next

\* LeaseKeepsOpen, for every number of exchanges: an exchange that still records
\* has its own recording open in the registry, and active_exchanges of it is
\* exactly the number of leases, so neither the reaper, nor DELETE, nor a refused
\* request, nor shutdown finalizes a recording under an exchange.
THEOREM LeasesKeepRecordingsOpen == Spec => []LeaseKeepsOpen
<1>1. Init => Typed /\ LeaseInv
  BY LeaseInit
<1>2. Typed /\ LeaseInv /\ [Next]_vars => Typed' /\ LeaseInv'
  BY TypedStep, LeaseStep
<1>3. LeaseInv => LeaseKeepsOpen
  BY DEF LeaseInv, LeaseIsOpen, ActiveIsLeased, LeaseKeepsOpen, Leased, Admitted
<1> QED BY <1>1, <1>2, <1>3, PTL DEF Spec

-------------------------------------------------------------------------------
(* What no step does, whoever takes it: the permits and the loss counts.     *)

Captured(e) == at[e] \in {"retiring_idle", "resolving", "recording", "releasing", "finalizing"}
Ended(r)    == state[r] \in {"closed", "failed"}

\* Only Arrive takes a capture permit, only StartRecording a writer slot; a count
\* never falls, a lease once given is never changed, only its finalization ends a
\* recording or publishes its count, and what became of a loss is changed by the
\* exchange's own task or tap, or by a finalization that outruns the tap.
StepShape(f) ==
    /\ Unresolved(f)' => Unresolved(f)
    /\ Captured(f)' => Captured(f) \/ Arrive(f)
    /\ state'[f] \in {"open", "taken"} => state[f] \in {"open", "taken"} \/ StartRecording(f)
    /\ \/ loss'[f] = loss[f]
       \/ LossStep(f)
       \/ loss[f] = "marked" /\ loss'[f] = "outrun"
    /\ lease'[f] # lease[f] => at[f] = "resolving"
    /\ dropped'[f] >= dropped[f]
    /\ (published'[f] = published[f] /\ (Ended(f)' => Ended(f))) \/ Finalize(f)

\* Removing a recording does not end it, and takes no slot.
LEMMA TakeShape ==
    ASSUME Typed, NEW rs, NEW who, Take(rs, who), \A r \in rs : state[r] = "open",
           NEW f \in Exchanges
    PROVE  /\ state'[f] \in {"open", "taken"} => state[f] \in {"open", "taken"}
           /\ Ended(f)' => Ended(f)
BY DEF Take, Ended

\* Every step of the recorder has that shape.
LEMMA Shape ==
    ASSUME Typed, [Next]_vars, NEW f \in Exchanges
    PROVE  StepShape(f)
<1> USE DEF exchangeVars, recordingVars, historyVars
<1>0. dropped[f] \in Nat /\ dropped[f] >= dropped[f] /\ dropped[f] + 1 >= dropped[f]
  BY DEF Typed
<1>1. ASSUME NEW e \in Exchanges, Arrive(e) PROVE StepShape(f)
  <2>1. /\ at[e] = "new" /\ at' \in {[at EXCEPT ![e] = "retiring_idle"], [at EXCEPT ![e] = "refused"]}
        /\ UNCHANGED <<lease, state, dropped, published, loss>>
    BY <1>1, Zenon DEF Arrive, Refuse
  <2> QED BY <1>0, <1>1, <2>1 DEF StepShape, Captured, Ended, Unresolved, Typed
<1>2. ASSUME NEW e \in Exchanges, RetireIdle(e) PROVE StepShape(f)
  <2>1. PICK idle \in SUBSET Inactive : Take(idle, "detached")
    BY <1>2, Zenon DEF RetireIdle
  <2>2. \A r \in idle : state[r] = "open"
    BY DEF Inactive
  <2>3. /\ at[e] = "retiring_idle" /\ at' = [at EXCEPT ![e] = "resolving"]
        /\ UNCHANGED <<lease, dropped, published, loss>>
    BY <1>2, Zenon DEF RetireIdle
  <2> QED BY <1>0, <2>1, <2>2, <2>3, TakeShape DEF StepShape, Captured, Unresolved, Typed
<1>3. ASSUME NEW e \in Exchanges, JoinRecording(e) PROVE StepShape(f)
  <2>1. /\ at[e] = "resolving" /\ at' = [at EXCEPT ![e] = "recording"]
        /\ \E r : lease' = [lease EXCEPT ![e] = r]
        /\ UNCHANGED <<state, dropped, published, loss>>
    BY <1>3, Zenon DEF JoinRecording
  <2> QED BY <1>0, <2>1 DEF StepShape, Captured, Ended, Unresolved, Typed
<1>4. ASSUME NEW e \in Exchanges, StartRecording(e) PROVE StepShape(f)
  <2>1. /\ at[e] = "resolving" /\ at' = [at EXCEPT ![e] = "recording"]
        /\ lease' = [lease EXCEPT ![e] = e] /\ state' = [state EXCEPT ![e] = "open"]
        /\ UNCHANGED <<dropped, published, loss>>
    BY <1>4, Zenon DEF StartRecording
  <2> QED BY <1>0, <1>4, <2>1 DEF StepShape, Captured, Ended, Unresolved, Typed
<1>5. ASSUME NEW e \in Exchanges, CannotResolve(e) \/ Cancel(e) \/ DropLease(e) PROVE StepShape(f)
  <2>1. /\ \/ at' = [at EXCEPT ![e] = "refused"]
           \/ at' = [at EXCEPT ![e] = "cancelled"]
           \/ at[e] = "recording" /\ at' = [at EXCEPT ![e] = "releasing"]
        /\ UNCHANGED <<lease, state, dropped, published, loss>>
    BY <1>5, Zenon DEF CannotResolve, Refuse, Cancel, DropLease
  <2> QED BY <1>0, <2>1 DEF StepShape, Captured, Ended, Unresolved, Typed
<1>6. ASSUME NEW e \in Exchanges, ChargeRefusal(e) PROVE StepShape(f)
  <2>1. at' = [at EXCEPT ![e] = "done"] /\ UNCHANGED <<lease, published, loss>>
    BY <1>6, Zenon DEF ChargeRefusal
  <2>2. Unresolved(f)' => Unresolved(f)
    BY <2>1 DEF Unresolved, Typed
  <2>3. Captured(f)' => Captured(f)
    BY <2>1 DEF Captured, Typed
  <2>4. CASE UNCHANGED <<state, dropped>>
    BY <1>0, <2>1, <2>2, <2>3, <2>4 DEF StepShape, Ended
  <2>5. ASSUME NEW r \in Open(key[e]), dropped' = [dropped EXCEPT ![r] = @ + 1],
               Take(IF retiring'[r] /\ active[r] = 0 THEN {r} ELSE {}, "detached")
        PROVE  StepShape(f)
    <3>1. r \in Exchanges /\ state[r] = "open"
      BY DEF Open
    <3>2. dropped'[f] >= dropped[f]
      BY <1>0, <2>5 DEF Typed
    <3>3. \A x \in IF retiring'[r] /\ active[r] = 0 THEN {r} ELSE {} : state[x] = "open"
      BY <3>1
    <3>4. /\ state'[f] \in {"open", "taken"} => state[f] \in {"open", "taken"}
          /\ Ended(f)' => Ended(f)
      BY <2>5, <3>3, TakeShape
    <3> QED BY <2>1, <2>2, <2>3, <3>2, <3>4 DEF StepShape
  <2> QED BY <1>6, <2>4, <2>5, Zenon DEF ChargeRefusal
<1>7. ASSUME NEW e \in Exchanges, LossStep(e) PROVE StepShape(f)
  <2>1. /\ \E x : loss' = [loss EXCEPT ![e] = x]
        /\ \/ dropped' = [dropped EXCEPT ![lease[e]] = dropped[lease[e]] + 1]
           \/ dropped' = dropped
        /\ UNCHANGED <<at, lease, state, published>>
    BY <1>7, Zenon DEF LossStep, LoseMessage, TapMarks, TapCounts
  <2>2. dropped'[f] >= dropped[f]
    <3>1. CASE f = lease[e]
      BY <1>0, <2>1, <3>1 DEF Typed
    <3>2. CASE f # lease[e]
      BY <1>0, <2>1, <3>2 DEF Typed
    <3> QED BY <3>1, <3>2
  <2>3. loss'[f] = loss[f] \/ f = e
    BY <2>1 DEF Typed
  <2> QED BY <1>7, <2>1, <2>2, <2>3 DEF StepShape, Captured, Ended, Unresolved
<1>8. ASSUME NEW e \in Exchanges, Release(e) PROVE StepShape(f)
  <2>1. /\ at[e] = "releasing"
        /\ at' \in {[at EXCEPT ![e] = "done"], [at EXCEPT ![e] = "finalizing"]}
        /\ UNCHANGED <<lease, dropped, published, loss>>
    BY <1>8, Zenon DEF Release
  <2>2. /\ state'[f] \in {"open", "taken"} => state[f] \in {"open", "taken"}
        /\ Ended(f)' => Ended(f)
    <3>1. CASE UNCHANGED state
      BY <3>1 DEF Ended
    <3>2. ASSUME NEW r \in Open(key[e]), Take({r}, e)
          PROVE  /\ state'[f] \in {"open", "taken"} => state[f] \in {"open", "taken"}
                 /\ Ended(f)' => Ended(f)
      <4>1. \A x \in {r} : state[x] = "open"
        BY DEF Open
      <4> QED BY <3>2, <4>1, TakeShape
    <3> QED BY <1>8, <3>1, <3>2, Zenon DEF Release
  <2> QED BY <1>0, <2>1, <2>2 DEF StepShape, Captured, Unresolved, Typed
<1>9. ASSUME NEW r \in Exchanges, Finalize(r) PROVE StepShape(f)
  <2>1. /\ state[r] = "taken" /\ UNCHANGED <<lease, dropped>>
        /\ published' = [published EXCEPT ![r] = dropped[r]]
        /\ at' = [e \in Exchanges |-> IF finalizer[r] = e THEN "done" ELSE at[e]]
        /\ state' \in {[state EXCEPT ![r] = "closed"], [state EXCEPT ![r] = "failed"]}
        /\ loss' = [e \in Exchanges |->
                      IF lease[e] = r /\ loss[e] = "marked" THEN "outrun" ELSE loss[e]]
    BY <1>9, Zenon DEF Finalize
  <2>2. (Unresolved(f)' => Unresolved(f)) /\ (Captured(f)' => Captured(f))
    BY <2>1 DEF Unresolved, Captured
  <2>3. /\ state'[f] \in {"open", "taken"} => state[f] \in {"open", "taken"}
        /\ (published'[f] = published[f] /\ (Ended(f)' => Ended(f))) \/ f = r
    BY <2>1 DEF Ended, Typed
  <2> QED BY <1>0, <1>9, <2>1, <2>2, <2>3 DEF StepShape
<1>10. CASE Reap \/ CloseAll
  <2>1. UNCHANGED <<at, lease, dropped, published, loss>>
    BY <1>10, Zenon DEF Reap, CloseAll
  <2>2. PICK rs, who : Take(rs, who) /\ \A r \in rs : state[r] = "open"
    <3>1. CASE Reap
      <4>1. PICK idle \in SUBSET Inactive : Take(idle, "reaper")
        BY <3>1, Zenon DEF Reap
      <4>2. \A r \in idle : state[r] = "open"
        BY DEF Inactive
      <4> QED BY <4>1, <4>2
    <3>2. CASE CloseAll
      BY <3>2 DEF CloseAll
    <3> QED BY <1>10, <3>1, <3>2
  <2> QED BY <1>0, <2>1, <2>2, TakeShape DEF StepShape, Captured, Unresolved
<1>11. CASE ServeEnds \/ ReaperEnds \/ TasksJoined \/ Return \/ UNCHANGED vars
  <2>1. UNCHANGED <<at, lease, state, dropped, published, loss>>
    BY <1>11, Zenon DEF ServeEnds, ReaperEnds, TasksJoined, Return, vars
  <2> QED BY <1>0, <2>1 DEF StepShape, Captured, Ended, Unresolved
<1> QED
  BY <1>1, <1>2, <1>3, <1>4, <1>5, <1>6, <1>7, <1>8, <1>9, <1>10, <1>11, Zenon
  DEF Next, AdmissionStep, ExchangeStep, ShutdownStep

\* A subset of the exchanges that grows by at most one, and only below a limit,
\* stays within the limit.
LEMMA BoundedGrowth ==
    ASSUME NEW S \in SUBSET Exchanges, NEW T \in SUBSET Exchanges, NEW limit \in Nat,
           Cardinality(S) <= limit, NEW e,
           T \subseteq S \/ (T \subseteq S \cup {e} /\ Cardinality(S) < limit)
    PROVE  Cardinality(T) <= limit
<1>1. IsFiniteSet(S) /\ Cardinality(S) \in Nat
  BY RegistryAssumption, FS_Subset, FS_CardinalityType
<1>2. CASE T \subseteq S
  BY <1>1, <1>2, FS_Subset, FS_CardinalityType
<1>3. CASE T \subseteq S \cup {e} /\ Cardinality(S) < limit
  <2>1. IsFiniteSet(S \cup {e}) /\ Cardinality(S \cup {e}) <= Cardinality(S) + 1
    BY <1>1, FS_AddElement
  <2>2. Cardinality(T) <= Cardinality(S \cup {e}) /\ Cardinality(T) \in Nat
    BY <1>3, <2>1, FS_Subset, FS_CardinalityType
  <2>3. Cardinality(S \cup {e}) \in Nat
    BY <2>1, FS_CardinalityType
  <2> QED BY <1>1, <1>3, <2>1, <2>2, <2>3
<1> QED BY <1>2, <1>3

\* No step overdraws a semaphore.
LEMMA SlotsStep == Typed /\ SlotsBounded /\ [Next]_vars => SlotsBounded'
<1> SUFFICES ASSUME Typed, SlotsBounded, [Next]_vars PROVE SlotsBounded'
  OBVIOUS
<1>1. /\ Captures \in SUBSET Exchanges /\ Captures' \in SUBSET Exchanges
      /\ Writers \in SUBSET Exchanges /\ Writers' \in SUBSET Exchanges
      /\ MaxCaptures \in Nat /\ MaxRecordings \in Nat
  BY RegistryAssumption DEF Captures, Writers
<1>2. Cardinality(Captures') <= MaxCaptures
  <2>1. CASE \E e \in Exchanges : Arrive(e) /\ e \in Captures'
    <3>1. PICK e \in Exchanges : Arrive(e) /\ e \in Captures'
      BY <2>1
    <3>2. at[e] = "new" /\ (at' = [at EXCEPT ![e] = "retiring_idle"]
                            \/ at' = [at EXCEPT ![e] = "refused"])
      BY <3>1, Zenon DEF Arrive, Refuse
    <3>3. at'[e] # "refused"
      BY <3>1 DEF Captures
    <3>4. Cardinality(Captures) < MaxCaptures
      <4>1. at'[e] = "refused" \/ Cardinality(Captures) < MaxCaptures
        <5>1. at \in [Exchanges -> {"new", "retiring_idle", "resolving", "recording", "releasing",
                                    "finalizing", "refused", "cancelled", "done"}]
          BY DEF Typed
        <5> QED BY <3>1, <5>1 DEF Arrive, Refuse
      <4> QED BY <3>3, <4>1
    <3>5. Captures' \subseteq Captures \cup {e}
      BY <3>2 DEF Captures, Typed
    <3> QED BY <1>1, <3>4, <3>5, BoundedGrowth DEF SlotsBounded
  <2>2. CASE ~ \E e \in Exchanges : Arrive(e) /\ e \in Captures'
    <3>1. ASSUME NEW f \in Exchanges, f \in Captures' PROVE f \in Captures
      <4>1. StepShape(f) /\ ~Arrive(f)
        BY <2>2, <3>1, Shape
      <4> QED BY <3>1, <4>1 DEF StepShape, Captured, Captures
    <3>2. Captures' \subseteq Captures
      BY <1>1, <3>1
    <3> QED BY <1>1, <3>2, BoundedGrowth DEF SlotsBounded
  <2> QED BY <2>1, <2>2
<1>3. Cardinality(Writers') <= MaxRecordings
  <2>1. CASE \E e \in Exchanges : StartRecording(e)
    <3>1. PICK e \in Exchanges : StartRecording(e)
      BY <2>1
    <3>2. Cardinality(Writers) < MaxRecordings /\ state' = [state EXCEPT ![e] = "open"]
      BY <3>1, Zenon DEF StartRecording, HasWriterSlot
    <3>3. Writers' \subseteq Writers \cup {e}
      BY <3>2 DEF Writers, Typed
    <3> QED BY <1>1, <3>2, <3>3, BoundedGrowth DEF SlotsBounded
  <2>2. CASE ~ \E e \in Exchanges : StartRecording(e)
    <3>1. ASSUME NEW f \in Exchanges, f \in Writers' PROVE f \in Writers
      <4>1. StepShape(f) /\ ~StartRecording(f)
        BY <2>2, Shape
      <4> QED BY <3>1, <4>1 DEF StepShape, Writers
    <3>2. Writers' \subseteq Writers
      BY <1>1, <3>1
    <3> QED BY <1>1, <3>2, BoundedGrowth DEF SlotsBounded
  <2> QED BY <2>1, <2>2
<1> QED BY <1>2, <1>3 DEF SlotsBounded

\* TypeOK: types, and neither semaphore is ever overdrawn, although a permit
\* passes from the handler to a lease, a release and a finalization.
THEOREM RegistryTypeCorrect == Spec => []TypeOK
<1>1. Init => Typed /\ SlotsBounded
  <2> SUFFICES ASSUME Init PROVE SlotsBounded
    BY LeaseInit
  <2>1. Writers = {} /\ Captures = {}
    BY DEF Init, Writers, Captures
  <2>2. Cardinality(Writers) = 0 /\ Cardinality(Captures) = 0
    BY <2>1, FS_EmptySet
  <2>3. 0 <= MaxRecordings /\ 0 <= MaxCaptures
    BY RegistryAssumption
  <2> QED BY <2>2, <2>3 DEF SlotsBounded
<1>2. Typed /\ SlotsBounded /\ [Next]_vars => Typed' /\ SlotsBounded'
  BY TypedStep, SlotsStep
<1>3. Typed /\ SlotsBounded => TypeOK
  BY DEF TypeOK
<1> QED BY <1>1, <1>2, <1>3, PTL DEF Spec

-------------------------------------------------------------------------------
(* Losses.  That a published count covers every loss charged to it is          *)
(* inductive once the count itself does, an exchange without a lease has lost   *)
(* nothing, and no tap whose recording is finalized is still between its flag   *)
(* and its count: Finalize has outrun it.                                       *)

Counted(r) == {e \in Exchanges : lease[e] = r /\ loss[e] = "counted"}

LossInv ==
    /\ \A e \in Exchanges : Unresolved(e) => loss[e] = "none"
    /\ \A e \in Exchanges : loss[e] # "none" => lease[e] \in Exchanges
    /\ \A e \in Exchanges : loss[e] = "marked" => ~Ended(lease[e])
    /\ \A r \in Exchanges : Cardinality(Counted(r)) <= dropped[r]
    /\ \A r \in Exchanges : Ended(r) => Cardinality(Counted(r)) <= published[r]

\* A loss becomes a counted one in the step that counts it.
Counts(e) == LoseMessage(e) \/ (TapCounts(e) /\ loss[e] = "marked")

\* Who has lost something had a lease, and a tap between its flag and its count
\* has a recording that is not finalized.
LEMMA LossHasLease ==
    ASSUME Typed, LeaseInv, LossInv, [Next]_vars, NEW e \in Exchanges
    PROVE  /\ Unresolved(e)' => loss'[e] = "none"
           /\ loss'[e] # "none" => lease'[e] \in Exchanges
           /\ loss'[e] = "marked" => ~Ended(lease[e])'
           /\ loss[e] # "none" => lease'[e] = lease[e]
<1>1. StepShape(e)
  BY Shape
<1>2. loss[e] # "none" => lease'[e] = lease[e]
  BY <1>1 DEF StepShape, LossInv, Unresolved
<1>3. CASE LossStep(e) /\ loss[e] = "none"
  <2>1. /\ at[e] = "recording" /\ UNCHANGED <<at, lease, state>>
    BY <1>3, Zenon DEF LossStep, LoseMessage, TapMarks, TapCounts, exchangeVars, recordingVars
  <2>2. lease[e] \in Exchanges /\ state[lease[e]] = "open"
    BY <2>1 DEF LeaseInv, LeaseIsOpen, Admitted
  <2> QED BY <1>3, <2>1, <2>2 DEF Unresolved, Ended
<1>4. CASE loss[e] # "none"
  <2>1. ~Unresolved(e) /\ ~Unresolved(e)'
    BY <1>1, <1>4 DEF LossInv, StepShape
  <2>2. PICK r \in Exchanges : r = lease[e] /\ lease'[e] = r
    BY <1>2, <1>4 DEF LossInv
  <2>3. ASSUME loss'[e] = "marked" PROVE ~Ended(r)'
    <3>1. loss[e] = "marked"
      <4>1. CASE LossStep(e)
        BY <1>4, <4>1, <2>3 DEF LossStep, LoseMessage, TapMarks, TapCounts, Typed
      <4> QED BY <1>1, <2>3, <4>1 DEF StepShape
    <3>2. ~Ended(r)
      BY <2>2, <3>1 DEF LossInv
    <3>3. ~Finalize(r)
      BY <2>2, <2>3, <3>1 DEF Finalize
    <3> QED BY <3>2, <3>3, Shape DEF StepShape
  <2> QED BY <2>1, <2>2, <2>3
<1>5. CASE loss[e] = "none" /\ loss'[e] = "none"
  BY <1>2, <1>5
<1> QED BY <1>1, <1>2, <1>3, <1>4, <1>5 DEF StepShape

\* A loss is counted in a recording that is not finalized yet, so none is counted
\* there once the count has been published.
LEMMA LossInvStep == Typed /\ LeaseInv /\ LossInv /\ [Next]_vars => LossInv'
<1> SUFFICES ASSUME Typed, LeaseInv, LossInv, [Next]_vars PROVE LossInv'
  OBVIOUS
<1>1. \A f \in Exchanges : StepShape(f)
  BY Shape
<1>2. \A e \in Exchanges : /\ Unresolved(e)' => loss'[e] = "none"
                           /\ loss'[e] # "none" => lease'[e] \in Exchanges
                           /\ loss'[e] = "marked" => ~Ended(lease[e])'
  BY LossHasLease
<1>3. \A r \in Exchanges : Cardinality(Counted(r)) \in Nat /\ IsFiniteSet(Counted(r))
  BY RegistryAssumption, FS_Subset, FS_CardinalityType DEF Counted
<1>4. CASE \E e \in Exchanges : Counts(e)
  <2>1. PICK e \in Exchanges : Counts(e)
    BY <1>4
  <2>2. /\ (at[e] = "recording" /\ loss[e] = "none") \/ loss[e] = "marked"
        /\ loss' = [loss EXCEPT ![e] = "counted"]
        /\ dropped' = [dropped EXCEPT ![lease[e]] = dropped[lease[e]] + 1]
        /\ UNCHANGED <<lease, state, published>>
    BY <2>1 DEF Counts, LoseMessage, TapCounts, exchangeVars, recordingVars
  <2>3. PICK s \in Exchanges : s = lease[e] /\ ~Ended(s)
    <3>1. CASE at[e] = "recording"
      BY <3>1 DEF LeaseInv, LeaseIsOpen, Admitted, Ended
    <3>2. CASE loss[e] = "marked"
      BY <3>2 DEF LossInv
    <3> QED BY <2>2, <3>1, <3>2
  <2>4. Counted(s)' = Counted(s) \cup {e} /\ e \notin Counted(s)
    BY <2>2, <2>3 DEF Counted, Typed
  <2>5. Cardinality(Counted(s)') = Cardinality(Counted(s)) + 1 /\ dropped'[s] = dropped[s] + 1
    <3>1. Cardinality(Counted(s)') = Cardinality(Counted(s)) + 1
      BY <1>3, <2>4, FS_AddElement
    <3>2. dropped \in [Exchanges -> Nat]
      BY DEF Typed
    <3> QED BY <2>2, <2>3, <3>1, <3>2
  <2>6. ~Ended(s)'
    BY <2>2, <2>3 DEF Ended
  <2>7. ASSUME NEW r \in Exchanges, r # s
        PROVE  Counted(r)' = Counted(r) /\ dropped'[r] = dropped[r]
    BY <2>2, <2>3, <2>7 DEF Counted, Typed
  <2>8. ASSUME NEW r \in Exchanges
        PROVE  /\ Cardinality(Counted(r)') <= dropped'[r]
               /\ Ended(r)' => Cardinality(Counted(r)') <= published'[r]
    <3>1. CASE r = s
      <4>1. Cardinality(Counted(s)) <= dropped[s] /\ dropped[s] \in Nat
        BY DEF LossInv, Typed
      <4> QED BY <1>3, <2>5, <2>6, <3>1, <4>1
    <3>2. CASE r # s
      BY <2>2, <2>7, <3>2 DEF LossInv, Ended
    <3> QED BY <3>1, <3>2
  <2> QED BY <1>2, <2>8 DEF LossInv
<1>5. CASE ~ \E e \in Exchanges : Counts(e)
  <2>1. ASSUME NEW e \in Exchanges
        PROVE  /\ loss'[e] = "counted" <=> loss[e] = "counted"
               /\ loss[e] = "counted" => lease'[e] = lease[e]
    <3>1. ASSUME LossStep(e) PROVE loss'[e] = "counted" <=> loss[e] = "counted"
      BY <1>5, <3>1 DEF Counts, LossStep, LoseMessage, TapMarks, TapCounts, Typed
    <3> QED BY <1>1, <3>1, LossHasLease DEF StepShape
  <2>2. \A r \in Exchanges : Counted(r)' = Counted(r)
    BY <2>1 DEF Counted
  <2>3. ASSUME NEW r \in Exchanges
        PROVE  /\ Cardinality(Counted(r)') <= dropped'[r]
               /\ Ended(r)' => Cardinality(Counted(r)') <= published'[r]
    <3>1. /\ Cardinality(Counted(r)) <= dropped[r] /\ dropped[r] \in Nat /\ dropped'[r] \in Nat
          /\ dropped'[r] >= dropped[r]
      BY <1>1, TypedStep DEF LossInv, Typed, StepShape
    <3>2. Cardinality(Counted(r)') <= dropped'[r]
      BY <1>3, <2>2, <3>1
    <3>3. CASE Finalize(r)
      <4>1. published'[r] = dropped[r]
        BY <3>3 DEF Finalize, Typed
      <4> QED BY <2>2, <3>1, <3>2, <4>1
    <3>4. CASE published'[r] = published[r] /\ (Ended(r)' => Ended(r))
      BY <2>2, <3>2, <3>4 DEF LossInv
    <3>5. Finalize(r) \/ (published'[r] = published[r] /\ (Ended(r)' => Ended(r)))
      BY <1>1 DEF StepShape
    <3> QED BY <3>3, <3>4, <3>5
  <2> QED BY <1>2, <2>3 DEF LossInv
<1> QED BY <1>4, <1>5

\* It holds before anything was lost.
LEMMA LossInit == Init => LossInv
<1> SUFFICES ASSUME Init PROVE LossInv
  OBVIOUS
<1>1. ASSUME NEW r \in Exchanges PROVE Cardinality(Counted(r)) = 0
  <2>1. Counted(r) = {}
    BY DEF Init, Counted
  <2> QED BY <2>1, FS_EmptySet
<1> QED BY <1>1 DEF Init, LossInv, Ended

\* LossIsPublished, for every number of exchanges: the count a recording is
\* finalized with covers every loss of its exchanges, however the releases, the
\* reaper and the shutdown interleave with tasks and taps, unless the finalization
\* itself fell between a tap's flag and its count.
THEOREM LossesArePublished == Spec => []LossIsPublished
<1>1. Init => Typed /\ LeaseInv /\ LossInv
  BY LeaseInit, LossInit
<1>2. Typed /\ LeaseInv /\ LossInv /\ [Next]_vars => Typed' /\ LeaseInv' /\ LossInv'
  BY TypedStep, LeaseStep, LossInvStep
<1>3. Typed /\ LossInv => LossIsPublished
  <2> SUFFICES ASSUME Typed, LossInv, NEW r \in Exchanges, state[r] \in {"closed", "failed"}
      PROVE  published[r] >= Cardinality({e \in Exchanges : lease[e] = r /\ Charged(e)})
    BY DEF LossIsPublished
  <2>1. Cardinality(Counted(r)) <= published[r] /\ Ended(r)
    BY DEF LossInv, Ended
  <2>2. {e \in Exchanges : lease[e] = r /\ Charged(e)} = Counted(r)
    BY <2>1 DEF LossInv, Charged, Counted
  <2>3. Cardinality(Counted(r)) \in Nat /\ published[r] \in Nat
    BY RegistryAssumption, FS_Subset, FS_CardinalityType DEF Counted, Typed
  <2> QED BY <2>1, <2>2, <2>3
<1> QED BY <1>1, <1>2, <1>3, PTL DEF Spec

-------------------------------------------------------------------------------
(* Retirement.  An exchange joins no retiring recording, and the recording it  *)
(* starts is not one, because nothing has retired it before it is created.     *)

NotYetRetiring == \A e \in Exchanges : Unresolved(e) => ~retiring[e]

\* Only an open recording is set retiring, and only the exchange that starts it
\* resets it.
LEMMA RetiringStep ==
    Typed /\ LeaseInv /\ NotYetRetiring /\ [Next]_vars => NotYetRetiring'
<1> SUFFICES ASSUME Typed, LeaseInv, NotYetRetiring, [Next]_vars, NEW f \in Exchanges,
                    Unresolved(f)'
    PROVE  ~retiring'[f]
  BY DEF NotYetRetiring
<1> USE DEF exchangeVars, recordingVars
<1>1. Unresolved(f) /\ ~retiring[f] /\ state[f] = "none"
  BY Shape DEF StepShape, NotYetRetiring, LeaseInv, CreatorIsResolved
<1>2. ASSUME NEW e \in Exchanges, JoinRecording(e) \/ ChargeRefusal(e) \/ Release(e)
      PROVE  ~retiring'[f]
  <2>1. CASE UNCHANGED retiring
    BY <1>1, <2>1
  <2>2. ASSUME NEW r \in Open(key[e]), retiring' = [retiring EXCEPT ![r] = @ \/ closes[e]]
        PROVE  ~retiring'[f]
    <3>1. r # f
      BY <1>1 DEF Open
    <3> QED BY <1>1, <2>2, <3>1 DEF Typed
  <2> QED BY <1>2, <2>1, <2>2, Zenon DEF JoinRecording, ChargeRefusal, Release
<1>3. ASSUME NEW e \in Exchanges, StartRecording(e) PROVE ~retiring'[f]
  <2>1. at' = [at EXCEPT ![e] = "recording"] /\ retiring' = [retiring EXCEPT ![e] = closes[e]]
    BY <1>3, Zenon DEF StartRecording
  <2>2. e # f
    BY <2>1 DEF Unresolved, Typed
  <2> QED BY <1>1, <2>1, <2>2 DEF Typed
<1>4. CASE UNCHANGED retiring
  BY <1>1, <1>4
<1> QED
  BY <1>2, <1>3, <1>4, Zenon
  DEF Next, AdmissionStep, ExchangeStep, ShutdownStep, Arrive, RetireIdle, CannotResolve, Cancel,
      LossStep, LoseMessage, TapMarks, TapCounts, DropLease, Finalize, Reap, ServeEnds, ReaperEnds, TasksJoined, CloseAll,
      Return, vars

\* A lease is given by joining a recording or by starting one, and nothing else.
LEMMA AdmittedOnce ==
    ASSUME Typed, [Next]_vars, NEW f \in Exchanges, ~JoinRecording(f), ~StartRecording(f)
    PROVE  lease'[f] = lease[f] /\ (Admitted(f)' => Admitted(f))
<1> USE DEF exchangeVars, recordingVars
<1>1. ASSUME NEW e \in Exchanges, JoinRecording(e) \/ StartRecording(e)
      PROVE  lease'[f] = lease[f] /\ at'[f] = at[f]
  <2>1. e # f
    BY <1>1
  <2>2. at' = [at EXCEPT ![e] = "recording"] /\ \E r : lease' = [lease EXCEPT ![e] = r]
    BY <1>1, Zenon DEF JoinRecording, StartRecording
  <2> QED BY <2>1, <2>2 DEF Typed
<1>2. ASSUME NEW e \in Exchanges,
             \/ Arrive(e) \/ RetireIdle(e) \/ CannotResolve(e) \/ ChargeRefusal(e) \/ Cancel(e)
             \/ DropLease(e) \/ Release(e)
      PROVE  lease'[f] = lease[f] /\ (Admitted(f)' => Admitted(f))
  <2>1. UNCHANGED lease
    BY <1>2, Zenon DEF Arrive, RetireIdle, CannotResolve, ChargeRefusal, Cancel, DropLease, Release
  <2>2. \/ \E x \in {"retiring_idle", "resolving", "refused", "cancelled", "done", "finalizing"} :
             at' = [at EXCEPT ![e] = x]
        \/ at[e] = "recording" /\ at' = [at EXCEPT ![e] = "releasing"]
    BY <1>2, Zenon DEF Arrive, Refuse, RetireIdle, CannotResolve, ChargeRefusal, Cancel, DropLease,
                       Release
  <2> QED BY <2>1, <2>2 DEF Admitted, Typed
<1>3. ASSUME NEW r \in Exchanges, Finalize(r)
      PROVE  lease'[f] = lease[f] /\ (Admitted(f)' => Admitted(f))
  <2>1. /\ UNCHANGED lease
        /\ at' = [e \in Exchanges |-> IF finalizer[r] = e THEN "done" ELSE at[e]]
    BY <1>3, Zenon DEF Finalize
  <2> QED BY <2>1 DEF Admitted
<1>4. CASE UNCHANGED <<at, lease>>
  BY <1>4 DEF Admitted
<1>5. ASSUME NEW e \in Exchanges, LossStep(e) PROVE UNCHANGED <<at, lease>>
  BY <1>5, Zenon DEF LossStep, LoseMessage, TapMarks, TapCounts
<1>6. CASE Reap \/ ServeEnds \/ ShutdownStep \/ UNCHANGED vars
  <2>1. UNCHANGED <<at, lease>>
    BY <1>6, Zenon DEF Reap, ServeEnds, ShutdownStep, ReaperEnds, TasksJoined, CloseAll, Return, vars
  <2> QED BY <1>4, <2>1
<1>7. ASSUME NEW e \in Exchanges, JoinRecording(e) \/ StartRecording(e)
      PROVE  lease'[f] = lease[f] /\ (Admitted(f)' => Admitted(f))
  BY <1>1, <1>7 DEF Admitted
<1> QED
  BY <1>2, <1>3, <1>4, <1>5, <1>6, <1>7, Zenon DEF Next, AdmissionStep, ExchangeStep

\* RetiringRefuses, for every number of exchanges: once DELETE or the end of its
\* one exchange has set a recording retiring, no later exchange gets a lease for it.
THEOREM RetiringTakesNoLease == Spec => RetiringRefuses
<1>1. Init => Typed /\ LeaseInv /\ NotYetRetiring
  <2>1. Init => NotYetRetiring
    BY DEF Init, NotYetRetiring
  <2> QED BY <2>1, LeaseInit
<1>2. Typed /\ LeaseInv /\ NotYetRetiring /\ [Next]_vars => Typed' /\ LeaseInv' /\ NotYetRetiring'
  BY TypedStep, LeaseStep, RetiringStep
<1>3. Typed /\ NotYetRetiring /\ [Next]_vars
        => [\A r \in Exchanges : retiring[r] => Leased(r)' \subseteq Leased(r)]_vars
  <2> SUFFICES ASSUME Typed, NotYetRetiring, [Next]_vars, NEW r \in Exchanges, retiring[r],
                      NEW e \in Leased(r)'
      PROVE  e \in Leased(r)
    OBVIOUS
  <2>1. e \in Exchanges /\ Admitted(e)' /\ lease'[e] = r
    BY DEF Leased, Admitted
  <2>2. CASE JoinRecording(e)
    <3>1. PICK s \in Open(key[e]) : Admits(s) /\ lease' = [lease EXCEPT ![e] = s]
      BY <2>2, Zenon DEF JoinRecording
    <3>2. s = r
      BY <2>1, <3>1 DEF Typed
    <3> QED BY <3>1, <3>2 DEF Admits
  <2>3. CASE StartRecording(e)
    <3>1. at[e] = "resolving" /\ lease' = [lease EXCEPT ![e] = e]
      BY <2>3, Zenon DEF StartRecording
    <3>2. e = r
      BY <2>1, <3>1 DEF Typed
    <3> QED BY <2>1, <3>1, <3>2 DEF NotYetRetiring, Unresolved
  <2>4. CASE ~JoinRecording(e) /\ ~StartRecording(e)
    <3>1. lease'[e] = lease[e] /\ (Admitted(e)' => Admitted(e))
      BY <2>1, <2>4, AdmittedOnce
    <3> QED BY <2>1, <3>1 DEF Leased, Admitted
  <2> QED BY <2>2, <2>3, <2>4
<1> QED BY <1>1, <1>2, <1>3, PTL DEF Spec, RetiringRefuses

-------------------------------------------------------------------------------
(* The exit.  Each phase of the shutdown waits for one kind of work, and none  *)
(* comes back once it was waited for: after serving no handler runs, after the *)
(* tasks no lease records, after the captures nothing is registered.  The      *)
(* counters cover every exchange and every recording at any time.              *)

ShutdownOrder ==
    /\ phase # "serving" => \A e \in Exchanges : at[e] \notin {"retiring_idle", "resolving", "refused"}
    /\ phase \in {"captures", "closing", "exited"} => \A e \in Exchanges : at[e] # "recording"
    /\ phase \in {"closing", "exited"} => \A e \in Exchanges : at[e] # "releasing" /\ state[e] # "open"
    /\ phase = "exited" => \A r \in Exchanges : state[r] # "taken"

Accounted ==
    /\ \A e \in Exchanges : at[e] = "refused" \/ (at[e] = "done" /\ lease[e] = None) => omitted > 0
    /\ \A e \in Exchanges : Admitted(e) \/ at[e] = "finalizing" => lease[e] # None
    /\ \A r \in Exchanges : state[r] = "failed" => failures > 0
    /\ \A r \in Exchanges : state[r] = "closed" => published[r] = 0
    /\ \A e \in Exchanges : lease[e] # None => state[lease[e]] # "none"
    /\ succeeded => phase = "exited" /\ omitted = 0 /\ failures = 0

\* Handlers run only while serving, and each refusal is in omitted_exchanges.
LEMMA AdmissionAccounted ==
    ASSUME Typed, LeaseInv, ShutdownOrder, Accounted, NEW e \in Exchanges,
           Arrive(e) \/ AdmissionStep(e) \/ Cancel(e)
    PROVE  ShutdownOrder' /\ Accounted'
<1> USE DEF exchangeVars, recordingVars, historyVars
<1>0. /\ omitted \in Nat /\ failures \in Nat
      /\ at \in [Exchanges -> {"new", "retiring_idle", "resolving", "recording", "releasing",
                               "finalizing", "refused", "cancelled", "done"}]
      /\ lease \in [Exchanges -> Exchanges \cup {None}] /\ published \in [Exchanges -> Nat]
      /\ state \in [Exchanges -> {"none", "open", "taken", "closed", "failed"}]
  BY DEF Typed
<1>1. phase = "serving" /\ phase' = phase
  <2>1. phase = "serving" \/ at[e] \in {"retiring_idle", "resolving", "refused"}
    BY Zenon DEF Arrive, AdmissionStep, Cancel, RetireIdle, JoinRecording, StartRecording, CannotResolve,
                 ChargeRefusal
  <2>2. phase' = phase
    BY Zenon DEF Arrive, AdmissionStep, Cancel, RetireIdle, JoinRecording, StartRecording, CannotResolve,
                 ChargeRefusal
  <2> QED BY <2>1, <2>2 DEF ShutdownOrder
<1>2. ShutdownOrder'
  BY <1>1 DEF ShutdownOrder
<1>3. ~succeeded /\ UNCHANGED <<succeeded, failures>>
  <2>1. UNCHANGED <<succeeded, failures>>
    BY Zenon DEF Arrive, AdmissionStep, Cancel, RetireIdle, JoinRecording, StartRecording, CannotResolve,
                 ChargeRefusal
  <2> QED BY <1>1, <2>1 DEF Accounted
<1>4. CASE Arrive(e) \/ CannotResolve(e)
  <2>1. /\ UNCHANGED <<lease, state, published>>
        /\ \/ at' = [at EXCEPT ![e] = "retiring_idle"] /\ omitted' = omitted
           \/ at' = [at EXCEPT ![e] = "refused"] /\ omitted' = omitted + 1
    BY <1>4, Zenon DEF Arrive, CannotResolve, Refuse
  <2> QED BY <1>0, <1>2, <1>3, <2>1 DEF Accounted, Admitted
<1>5. CASE RetireIdle(e) \/ Cancel(e)
  <2>1. /\ UNCHANGED <<lease, published, omitted>>
        /\ at' = [at EXCEPT ![e] = "resolving"] \/ at' = [at EXCEPT ![e] = "cancelled"]
    BY <1>5, Zenon DEF RetireIdle, Cancel
  <2>2. ASSUME NEW r \in Exchanges PROVE state'[r] = state[r] \/ state'[r] = "taken"
    BY <1>5 DEF RetireIdle, Cancel, Take
  <2> QED BY <1>0, <1>2, <1>3, <2>1, <2>2 DEF Accounted, Admitted
<1>6. CASE JoinRecording(e) \/ StartRecording(e)
  <2>1. UNCHANGED <<published, omitted>> /\ at' = [at EXCEPT ![e] = "recording"]
    BY <1>6, Zenon DEF JoinRecording, StartRecording
  <2>2. PICK r \in Exchanges : lease' = [lease EXCEPT ![e] = r] /\ state'[r] = "open"
    BY <1>0, <1>6 DEF JoinRecording, StartRecording, Open
  <2>3. r # None
    BY RegistryAssumption
  <2>4. ASSUME NEW s \in Exchanges PROVE state'[s] = state[s] \/ state'[s] = "open"
    BY <1>0, <1>6 DEF JoinRecording, StartRecording
  <2> QED BY <1>0, <1>2, <1>3, <2>1, <2>2, <2>3, <2>4 DEF Accounted, Admitted
<1>7. CASE ChargeRefusal(e)
  <2>1. UNCHANGED <<lease, published, omitted>> /\ at' = [at EXCEPT ![e] = "done"] /\ at[e] = "refused"
    BY <1>7, Zenon DEF ChargeRefusal
  <2>2. ASSUME NEW r \in Exchanges PROVE state'[r] = state[r] \/ state'[r] = "taken"
    <3>1. CASE UNCHANGED state
      BY <3>1
    <3>2. ASSUME NEW rs, Take(rs, "detached") PROVE state'[r] = state[r] \/ state'[r] = "taken"
      BY <3>2 DEF Take
    <3> QED BY <1>7, <3>1, <3>2, Zenon DEF ChargeRefusal
  <2> QED BY <1>0, <1>2, <1>3, <2>1, <2>2 DEF Accounted, Admitted
<1> QED BY <1>4, <1>5, <1>6, <1>7, <1>2 DEF AdmissionStep

\* A recording is closed only with a loss count of 0, a finalizer has had a lease,
\* and nothing is released or finalized that the shutdown has waited for.
LEMMA ExchangeAccounted ==
    ASSUME Typed, LeaseInv, ShutdownOrder, Accounted, NEW e \in Exchanges,
           LossStep(e) \/ ExchangeStep(e)
    PROVE  ShutdownOrder' /\ Accounted'
<1> USE DEF exchangeVars, recordingVars, historyVars
<1>0. /\ omitted \in Nat /\ failures \in Nat
      /\ at \in [Exchanges -> {"new", "retiring_idle", "resolving", "recording", "releasing",
                               "finalizing", "refused", "cancelled", "done"}]
      /\ lease \in [Exchanges -> Exchanges \cup {None}] /\ published \in [Exchanges -> Nat]
      /\ state \in [Exchanges -> {"none", "open", "taken", "closed", "failed"}]
  BY DEF Typed
<1>1. UNCHANGED <<phase, succeeded, lease, omitted>>
  BY Zenon DEF LossStep, LoseMessage, TapMarks, TapCounts, ExchangeStep, DropLease, Release, Finalize
<1>2. CASE LossStep(e)
  <2>1. UNCHANGED <<at, state, failures, published>>
    BY <1>2, Zenon DEF LossStep, LoseMessage, TapMarks, TapCounts
  <2> QED BY <1>1, <2>1 DEF ShutdownOrder, Accounted, Admitted
<1>3. CASE DropLease(e)
  <2>1. /\ UNCHANGED <<state, failures, published>> /\ at[e] = "recording"
        /\ at' = [at EXCEPT ![e] = "releasing"]
    BY <1>3, Zenon DEF DropLease
  <2> QED BY <1>0, <1>1, <2>1 DEF ShutdownOrder, Accounted, Admitted
<1>4. CASE Release(e)
  <2>1. /\ UNCHANGED failures /\ at[e] = "releasing"
        /\ at' = [at EXCEPT ![e] = "done"] \/ at' = [at EXCEPT ![e] = "finalizing"]
    BY <1>4, Zenon DEF Release
  <2>2. ASSUME NEW r \in Exchanges PROVE state'[r] = state[r] \/ state'[r] = "taken"
    <3>1. CASE UNCHANGED state
      BY <3>1
    <3>2. ASSUME NEW s, Take({s}, e) PROVE state'[r] = state[r] \/ state'[r] = "taken"
      BY <3>2 DEF Take
    <3> QED BY <1>4, <3>1, <3>2, Zenon DEF Release
  <2>3. phase \notin {"closing", "exited"}
    BY <2>1 DEF ShutdownOrder
  <2>4. UNCHANGED published
    BY <1>4, Zenon DEF Release
  <2> QED BY <1>0, <1>1, <2>1, <2>2, <2>3, <2>4 DEF ShutdownOrder, Accounted, Admitted
<1>5. CASE Finalize(e)
  <2>1. /\ published' = [published EXCEPT ![e] = dropped[e]] /\ state[e] = "taken"
        /\ at' = [f \in Exchanges |-> IF finalizer[e] = f THEN "done" ELSE at[f]]
        /\ \/ dropped[e] = 0 /\ state' = [state EXCEPT ![e] = "closed"] /\ failures' = failures
           \/ state' = [state EXCEPT ![e] = "failed"] /\ failures' = failures + 1
    BY <1>5, Zenon DEF Finalize
  <2>2. ASSUME NEW f \in Exchanges
        PROVE  at'[f] = at[f] \/ (at'[f] = "done" /\ lease[f] # None)
    BY <2>1 DEF LeaseInv, FinalizerIsDone, Accounted
  <2>3. phase # "exited"
    BY <2>1 DEF ShutdownOrder
  <2> QED BY <1>0, <1>1, <2>1, <2>2, <2>3 DEF ShutdownOrder, Accounted, Admitted
<1> QED BY <1>2, <1>3, <1>4, <1>5 DEF ExchangeStep

\* Each phase begins with what the later ones rely on.
LEMMA ShutdownAccounted ==
    ASSUME Typed, ShutdownOrder, Accounted, Reap \/ ServeEnds \/ ShutdownStep
    PROVE  ShutdownOrder' /\ Accounted'
<1> USE DEF exchangeVars, recordingVars, historyVars
<1>0. omitted \in Nat /\ failures \in Nat /\ lease \in [Exchanges -> Exchanges \cup {None}]
  BY DEF Typed
<1>1. UNCHANGED <<at, lease, published, omitted, failures>>
  BY Zenon DEF Reap, ServeEnds, ShutdownStep, ReaperEnds, TasksJoined, CloseAll, Return
<1>2. CASE Reap \/ CloseAll
  <2>1. /\ UNCHANGED succeeded
        /\ \/ phase = "serving" /\ phase' = "serving"
           \/ phase = "captures" /\ AllReleased /\ phase' = "closing"
              /\ Take({r \in Exchanges : state[r] = "open"}, "closer")
    BY <1>2, Zenon DEF Reap, CloseAll
  <2>2. ASSUME NEW r \in Exchanges PROVE state'[r] = state[r] \/ state'[r] = "taken"
    BY <1>2 DEF Reap, CloseAll, Take
  <2>3. phase' = "closing" => \A r \in Exchanges : at[r] # "releasing" /\ state'[r] # "open"
    BY <2>1 DEF Take, AllReleased, Captures
  <2> QED BY <1>0, <1>1, <2>1, <2>2, <2>3 DEF ShutdownOrder, Accounted, Admitted
<1>3. CASE ServeEnds \/ ReaperEnds \/ TasksJoined
  <2>1. /\ UNCHANGED <<state, succeeded>>
        /\ \/ /\ phase = "serving" /\ phase' = "reaper"
              /\ \A e \in Exchanges : at[e] \notin {"retiring_idle", "resolving", "refused"}
           \/ phase = "reaper" /\ phase' = "tasks"
           \/ phase = "tasks" /\ phase' = "captures" /\ \A e \in Exchanges : at[e] # "recording"
    BY <1>3, Zenon DEF ServeEnds, ReaperEnds, TasksJoined
  <2> QED BY <1>1, <2>1 DEF ShutdownOrder, Accounted, Admitted
<1>4. CASE Return
  <2>1. /\ UNCHANGED state /\ phase = "closing" /\ phase' = "exited" /\ Writers = {}
        /\ succeeded' = (omitted = 0 /\ failures = 0)
    BY <1>4, Zenon DEF Return, AllFinalized
  <2>2. \A r \in Exchanges : state[r] # "taken"
    BY <2>1 DEF Writers
  <2> QED BY <1>0, <1>1, <2>1, <2>2 DEF ShutdownOrder, Accounted, Admitted
<1> QED BY <1>2, <1>3, <1>4 DEF ShutdownStep

\* ExitIsAccounted, for every number of exchanges and every interleaving with the
\* shutdown: when run() returns no recording is left open, and it reports success
\* only if every forwarded exchange had its lease and lost nothing, except through
\* a tap that was outrun by the finalization.
THEOREM ExitsAreAccounted == Spec => []ExitIsAccounted
<1>1. Init => Typed /\ LeaseInv /\ LossInv /\ ShutdownOrder /\ Accounted
  <2>1. Init => ShutdownOrder /\ Accounted
    BY DEF Init, ShutdownOrder, Accounted, Admitted
  <2> QED BY <2>1, LeaseInit, LossInit
<1>2. Typed /\ LeaseInv /\ LossInv /\ ShutdownOrder /\ Accounted /\ [Next]_vars
        => Typed' /\ LeaseInv' /\ LossInv' /\ ShutdownOrder' /\ Accounted'
  <2> SUFFICES ASSUME Typed, LeaseInv, ShutdownOrder, Accounted, [Next]_vars
      PROVE  ShutdownOrder' /\ Accounted'
    BY TypedStep, LeaseStep, LossInvStep
  <2>1. CASE UNCHANGED vars
    <3>1. UNCHANGED <<at, lease, state, published, omitted, failures, phase, succeeded>>
      BY <2>1 DEF vars, exchangeVars, recordingVars
    <3> QED BY <3>1 DEF ShutdownOrder, Accounted, Admitted
  <2>2. CASE Next
    BY <2>1, <2>2, AdmissionAccounted, ExchangeAccounted, ShutdownAccounted DEF Next
  <2> QED BY <2>1, <2>2
<1>3. Typed /\ LossInv /\ ShutdownOrder /\ Accounted => ExitIsAccounted
  <2> SUFFICES ASSUME Typed, LossInv, ShutdownOrder, Accounted
      PROVE  ExitIsAccounted
    OBVIOUS
  <2>1. ASSUME phase = "exited", succeeded, NEW e \in Exchanges, Charged(e) PROVE FALSE
    <3>1. PICK r \in Exchanges : r = lease[e] /\ state[r] # "none"
      BY <2>1, RegistryAssumption DEF LossInv, Charged, Accounted
    <3>2. state[r] = "closed" /\ published[r] = 0
      BY <2>1, <3>1 DEF Typed, ShutdownOrder, Accounted
    <3>3. e \in Counted(r) /\ Cardinality(Counted(r)) <= 0
      BY <2>1, <3>1, <3>2 DEF LossInv, Charged, Counted, Ended
    <3>4. /\ IsFiniteSet(Counted(r)) /\ Cardinality(Counted(r)) \in Nat
          /\ Cardinality(Counted(r)) = 0 <=> Counted(r) = {}
      BY RegistryAssumption, FS_Subset, FS_CardinalityType, FS_EmptySet DEF Counted
    <3> QED BY <3>3, <3>4
  <2> QED BY <2>1 DEF Typed, ShutdownOrder, Accounted, ExitIsAccounted
<1> QED BY <1>1, <1>2, <1>3, PTL DEF Spec
=============================================================================
