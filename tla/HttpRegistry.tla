------------------------------ MODULE HttpRegistry ------------------------------
(***************************************************************************)
(* The session registry of `mcptracer record-http`, commands/record_http.rs: *)
(* admission of exchanges, the leases and permits they hold, idle          *)
(* retirement, detached finalization and graceful shutdown.                *)
(*                                                                         *)
(* Each step is one critical section of the sessions mutex, or a task that *)
(* needs none; mark_incomplete of the response tap is two steps.  A        *)
(* recording is named by the exchange that created it.  A semaphore permit *)
(* is owned by an object in the code; here it is counted from the states   *)
(* in which that object lives.                                             *)
(***************************************************************************)
EXTENDS Naturals, FiniteSets

CONSTANTS
    Exchanges,       \* HTTP exchanges of one behaviour
    Groups,          \* Mcp-Session-Id and stateless group values
    MaxRecordings,   \* writer_slots
    MaxCaptures,     \* capture_slots
    None             \* no recording

Finalizers == {"none", "detached", "reaper", "closer"}

ASSUME RegistryAssumption ==
    /\ IsFiniteSet(Exchanges)
    /\ None \notin Exchanges
    /\ Groups \cap Exchanges = {}
    /\ Finalizers \cap Exchanges = {}
    /\ MaxRecordings \in Nat \ {0}
    /\ MaxCaptures \in Nat \ {0}

VARIABLES
    at,            \* where each exchange is
    key,           \* its LogicalSessionKey
    closes,        \* its close_after_exchange
    lease,         \* the recording its CaptureLease is for
    state,         \* each recording: none, open (in the registry), taken
                   \* (removed, being finalized), closed, failed
    active,        \* its active_exchanges
    retiring,      \* its retiring flag
    dropped,       \* its dropped_messages
    published,     \* the loss count it was finalized with
    finalizer,     \* who finalizes it
    omitted,       \* omitted_exchanges
    failures,      \* finalization_failures
    phase,         \* where run() is
    succeeded,     \* run() returned Ok
    loss,          \* a message the exchange forwarded and lost: none; marked (the
                   \* tap's flag is set); counted; or finalized in between: outrun,
                   \* and late once it is counted after all
    refusedBy      \* history: the retiring recording an exchange was refused by

exchangeVars  == <<at, key, closes, lease>>
recordingVars == <<state, active, retiring, published, finalizer>>
historyVars   == <<loss, refusedBy>>
vars == <<exchangeVars, recordingVars, dropped, omitted, failures, phase, succeeded,
          historyVars>>

Keys == Groups \cup Exchanges    \* a provisional key is the exchange's own

Init ==
    /\ at = [e \in Exchanges |-> "new"]
    /\ key = [e \in Exchanges |-> e]
    /\ closes = [e \in Exchanges |-> FALSE]
    /\ lease = [e \in Exchanges |-> None]
    /\ state = [r \in Exchanges |-> "none"]
    /\ active = [r \in Exchanges |-> 0]
    /\ retiring = [r \in Exchanges |-> FALSE]
    /\ dropped = [r \in Exchanges |-> 0]
    /\ published = [r \in Exchanges |-> 0]
    /\ finalizer = [r \in Exchanges |-> "none"]
    /\ omitted = 0 /\ failures = 0 /\ phase = "serving" /\ succeeded = FALSE
    /\ loss = [e \in Exchanges |-> "none"]
    /\ refusedBy = [e \in Exchanges |-> None]

Open(k)  == {r \in Exchanges : state[r] = "open" /\ key[r] = k}
Writers  == {r \in Exchanges : state[r] \in {"open", "taken"}}
Captures == {e \in Exchanges :
               at[e] \in {"retiring_idle", "resolving", "recording", "releasing", "finalizing"}}

\* Removes the recordings in rs from the registry; who will finalize them.
Take(rs, who) ==
    /\ state' = [r \in Exchanges |-> IF r \in rs THEN "taken" ELSE state[r]]
    /\ finalizer' = [r \in Exchanges |-> IF r \in rs THEN who ELSE finalizer[r]]

-------------------------------------------------------------------------------
(* Admission: admit_capture and resolve_session.                             *)

\* No capture for this exchange: it is forwarded all the same.
Refuse(e) ==
    /\ at' = [at EXCEPT ![e] = "refused"]
    /\ omitted' = omitted + 1

\* The request's headers give its key; one capture slot is tried for.
Arrive(e) ==
    /\ phase = "serving" /\ at[e] = "new"
    /\ \E k \in Groups \cup {e}, delete \in BOOLEAN :
         /\ key' = [key EXCEPT ![e] = k]
         /\ closes' = [closes EXCEPT ![e] = (k = e \/ delete)]
    /\ \/ /\ Cardinality(Captures) < MaxCaptures
          /\ at' = [at EXCEPT ![e] = "retiring_idle"]
          /\ UNCHANGED omitted
       \/ Cardinality(Captures) >= MaxCaptures /\ Refuse(e)
    /\ UNCHANGED <<lease, recordingVars, dropped, failures, phase, succeeded, historyVars>>

\* Retirement does not look at anything but inactivity and the clock.
IdleAnyway == {r \in Exchanges : state[r] = "open"}
Inactive   == {r \in Exchanges : state[r] = "open" /\ active[r] = 0}

\* Idle recordings, whatever their key, are handed to detached tasks first.
RetireIdle(e) ==
    /\ at[e] = "retiring_idle"
    /\ \E idle \in SUBSET Inactive : Take(idle, "detached")
    /\ at' = [at EXCEPT ![e] = "resolving"]
    /\ UNCHANGED <<key, closes, lease, active, retiring, published, dropped, omitted,
                   failures, phase, succeeded, historyVars>>

Admits(r) == ~retiring[r]

\* A recording of this key is open and not retiring.
JoinRecording(e) ==
    /\ at[e] = "resolving"
    /\ \E r \in Open(key[e]) :
         /\ Admits(r)
         /\ active' = [active EXCEPT ![r] = @ + 1]
         /\ retiring' = [retiring EXCEPT ![r] = @ \/ closes[e]]
         /\ lease' = [lease EXCEPT ![e] = r]
    /\ at' = [at EXCEPT ![e] = "recording"]
    /\ UNCHANGED <<key, closes, state, published, finalizer, dropped, omitted, failures,
                   phase, succeeded, historyVars>>

\* A recording keeps its slot until it is finalized.
HasWriterSlot == Cardinality(Writers) < MaxRecordings

StartRecording(e) ==
    /\ at[e] = "resolving"
    /\ Open(key[e]) = {} /\ HasWriterSlot
    /\ state' = [state EXCEPT ![e] = "open"]
    /\ active' = [active EXCEPT ![e] = 1]
    /\ retiring' = [retiring EXCEPT ![e] = closes[e]]
    /\ lease' = [lease EXCEPT ![e] = e]
    /\ at' = [at EXCEPT ![e] = "recording"]
    /\ UNCHANGED <<key, closes, published, finalizer, dropped, omitted, failures, phase,
                   succeeded, historyVars>>

\* Its recording is being retired, or there is no writer slot, or the database
\* cannot be opened: the capture permit is returned at once.
CannotResolve(e) ==
    /\ at[e] = "resolving"
    /\ \/ \E r \in Open(key[e]) : ~Admits(r) /\ refusedBy' = [refusedBy EXCEPT ![e] = r]
       \/ Open(key[e]) = {} /\ UNCHANGED refusedBy
    /\ Refuse(e)
    /\ UNCHANGED <<key, closes, lease, recordingVars, dropped, failures, phase, succeeded, loss>>

\* The lock is taken anew: the loss is charged to whatever is registered by then.
ChargeRefusal(e) ==
    /\ at[e] = "refused"
    /\ at' = [at EXCEPT ![e] = "done"]
    /\ \/ Open(key[e]) = {} /\ UNCHANGED <<recordingVars, dropped>>
       \/ \E r \in Open(key[e]) :
            /\ dropped' = [dropped EXCEPT ![r] = @ + 1]
            /\ retiring' = [retiring EXCEPT ![r] = @ \/ closes[e]]
            /\ Take(IF retiring'[r] /\ active[r] = 0 THEN {r} ELSE {}, "detached")
            /\ UNCHANGED <<active, published>>
    /\ UNCHANGED <<key, closes, lease, omitted, failures, phase, succeeded, historyVars>>

\* The client is gone before the handler gets a lock: the request is not
\* forwarded, and a permit it held is returned.
Cancel(e) ==
    /\ at[e] \in {"retiring_idle", "resolving", "refused"}
    /\ at' = [at EXCEPT ![e] = "cancelled"]
    /\ UNCHANGED <<key, closes, lease, recordingVars, dropped, omitted, failures, phase,
                   succeeded, historyVars>>

-------------------------------------------------------------------------------
(* An admitted exchange.                                                     *)

\* What its tasks cannot record they count while they hold the lease.  One loss
\* of an exchange stands for all of them, see HttpCapture.
LoseMessage(e) ==
    /\ at[e] = "recording" /\ loss[e] = "none"
    /\ loss' = [loss EXCEPT ![e] = "counted"]
    /\ dropped' = [dropped EXCEPT ![lease[e]] = @ + 1]
    /\ UNCHANGED <<exchangeVars, recordingVars, omitted, failures, phase, succeeded, refusedBy>>

\* The response tap has a flag and the counter, but no lease.  It sets its flag
\* while the response task, which waits for it, still has one.
TapMarks(e) ==
    /\ at[e] = "recording" /\ loss[e] = "none"
    /\ loss' = [loss EXCEPT ![e] = "marked"]
    /\ UNCHANGED <<exchangeVars, recordingVars, dropped, omitted, failures, phase,
                   succeeded, refusedBy>>

\* It counts in a second step, whatever became of the exchange, its recording or
\* run() by then.
TapCounts(e) ==
    /\ \/ loss[e] = "marked" /\ loss' = [loss EXCEPT ![e] = "counted"]
       \/ loss[e] = "outrun" /\ loss' = [loss EXCEPT ![e] = "late"]
    /\ dropped' = [dropped EXCEPT ![lease[e]] = @ + 1]
    /\ UNCHANGED <<exchangeVars, recordingVars, omitted, failures, phase, succeeded, refusedBy>>

\* The last clone of its lease is dropped, which spawns the release.
DropLease(e) ==
    /\ at[e] = "recording"
    /\ at' = [at EXCEPT ![e] = "releasing"]
    /\ UNCHANGED <<key, closes, lease, recordingVars, dropped, omitted, failures, phase,
                   succeeded, historyVars>>

RemovesRetiring(e, r, count) == retiring'[r]
RemovesEntry(e, r, count)    == count = 0 /\ retiring'[r]

\* release_exchange looks its key up again.
Release(e) ==
    /\ at[e] = "releasing"
    /\ \/ /\ Open(key[e]) = {}
          /\ at' = [at EXCEPT ![e] = "done"]
          /\ UNCHANGED recordingVars
       \/ \E r \in Open(key[e]) :
            LET count == IF active[r] = 0 THEN 0 ELSE active[r] - 1 IN
            /\ active' = [active EXCEPT ![r] = count]
            /\ retiring' = [retiring EXCEPT ![r] = @ \/ closes[e]]
            /\ \/ /\ RemovesEntry(e, r, count)
                  /\ Take({r}, e)
                  /\ at' = [at EXCEPT ![e] = "finalizing"]
               \/ /\ ~RemovesEntry(e, r, count)
                  /\ at' = [at EXCEPT ![e] = "done"]
                  /\ UNCHANGED <<state, finalizer>>
            /\ UNCHANGED published
    /\ UNCHANGED <<key, closes, lease, dropped, omitted, failures, phase, succeeded, historyVars>>

-------------------------------------------------------------------------------
(* Finalization and shutdown.                                                *)

\* finish_storage_writer with the loss count read now; its error is counted
\* before the writer permit is dropped, and the finalizer's own permit after it.
\* A tap that has marked and not counted comes too late for this recording.
Finalize(r) ==
    /\ state[r] = "taken"
    /\ published' = [published EXCEPT ![r] = dropped[r]]
    /\ \/ dropped[r] = 0 /\ state' = [state EXCEPT ![r] = "closed"] /\ UNCHANGED failures
       \/ state' = [state EXCEPT ![r] = "failed"] /\ failures' = failures + 1
    /\ at' = [e \in Exchanges |-> IF finalizer[r] = e THEN "done" ELSE at[e]]
    /\ finalizer' = [finalizer EXCEPT ![r] = "none"]
    /\ loss' = [e \in Exchanges |->
                  IF lease[e] = r /\ loss[e] = "marked" THEN "outrun" ELSE loss[e]]
    /\ UNCHANGED <<key, closes, lease, active, retiring, dropped, omitted, phase,
                   succeeded, refusedBy>>

TakenBy(who) == {r \in Exchanges : state[r] = "taken" /\ finalizer[r] = who}

\* The periodic reaper: one batch at a time, and it finishes it before it stops.
Reap ==
    /\ phase = "serving" /\ TakenBy("reaper") = {}
    /\ \E idle \in SUBSET Inactive : idle # {} /\ Take(idle, "reaper")
    /\ UNCHANGED <<exchangeVars, active, retiring, published, dropped, omitted, failures,
                   phase, succeeded, historyVars>>

\* axum's graceful shutdown: no new request, and every handler has returned.
ServeEnds ==
    /\ phase = "serving"
    /\ \A e \in Exchanges : at[e] \notin {"retiring_idle", "resolving", "refused"}
    /\ phase' = "reaper"
    /\ UNCHANGED <<exchangeVars, recordingVars, dropped, omitted, failures, succeeded, historyVars>>

ReaperEnds ==
    /\ phase = "reaper" /\ TakenBy("reaper") = {}
    /\ phase' = "tasks"
    /\ UNCHANGED <<exchangeVars, recordingVars, dropped, omitted, failures, succeeded, historyVars>>

TasksJoined ==
    /\ phase = "tasks"
    /\ \A e \in Exchanges : at[e] # "recording"
    /\ phase' = "captures"
    /\ UNCHANGED <<exchangeVars, recordingVars, dropped, omitted, failures, succeeded, historyVars>>

\* All capture permits are held here, then the registry is drained.
WriterSlotsFirst == Captures = {} /\ Writers = {}
AllReleased      == Captures = {}

CloseAll ==
    /\ phase = "captures" /\ AllReleased
    /\ Take({r \in Exchanges : state[r] = "open"}, "closer")
    /\ phase' = "closing"
    /\ UNCHANGED <<exchangeVars, active, retiring, published, dropped, omitted, failures,
                   succeeded, historyVars>>

CloserOnly   == TakenBy("closer") = {}
AllFinalized == Writers = {}

\* All writer permits: nothing detached is still finalizing.  Then the counters
\* decide the result.
Return ==
    /\ phase = "closing" /\ AllFinalized
    /\ phase' = "exited"
    /\ succeeded' = (omitted = 0 /\ failures = 0)
    /\ UNCHANGED <<exchangeVars, recordingVars, dropped, omitted, failures, historyVars>>

-------------------------------------------------------------------------------
AdmissionStep(e) ==
    \/ RetireIdle(e) \/ JoinRecording(e) \/ StartRecording(e) \/ CannotResolve(e)
    \/ ChargeRefusal(e)

LossStep(e) == LoseMessage(e) \/ TapMarks(e) \/ TapCounts(e)

ExchangeStep(e) == DropLease(e) \/ Release(e) \/ Finalize(e)

ShutdownStep == ReaperEnds \/ TasksJoined \/ CloseAll \/ Return

Next ==
    \/ \E e \in Exchanges :
         Arrive(e) \/ AdmissionStep(e) \/ Cancel(e) \/ LossStep(e) \/ ExchangeStep(e)
    \/ Reap \/ ServeEnds \/ ShutdownStep
    \/ phase = "exited" /\ UNCHANGED vars

Spec == Init /\ [][Next]_vars

\* Tasks run, and the peers end their exchanges: record-http has no timeout of
\* its own.  No exchange takes infinitely many steps, so fairness for one is fairness
\* for all.  Nobody has to ask for shutdown, or to send anything.
FairSpec ==
    /\ Spec
    /\ WF_vars(\E e \in Exchanges : AdmissionStep(e) \/ ExchangeStep(e))
    /\ WF_vars(ShutdownStep)

-------------------------------------------------------------------------------
(* Properties.                                                               *)

Typed ==
    /\ at \in [Exchanges -> {"new", "retiring_idle", "resolving", "recording", "releasing",
                             "finalizing", "refused", "cancelled", "done"}]
    /\ key \in [Exchanges -> Keys]
    /\ closes \in [Exchanges -> BOOLEAN]
    /\ lease \in [Exchanges -> Exchanges \cup {None}]
    /\ state \in [Exchanges -> {"none", "open", "taken", "closed", "failed"}]
    /\ active \in [Exchanges -> Nat]
    /\ retiring \in [Exchanges -> BOOLEAN]
    /\ dropped \in [Exchanges -> Nat] /\ published \in [Exchanges -> Nat]
    /\ finalizer \in [Exchanges -> Finalizers \cup Exchanges]
    /\ omitted \in Nat /\ failures \in Nat
    /\ phase \in {"serving", "reaper", "tasks", "captures", "closing", "exited"}
    /\ succeeded \in BOOLEAN
    /\ loss \in [Exchanges -> {"none", "marked", "counted", "outrun", "late"}]
    /\ refusedBy \in [Exchanges -> Exchanges \cup {None}]

\* The two semaphores are never overdrawn: a permit outlives the entry and the
\* lease it came with, until the writer thread and the release are done with it.
SlotsBounded ==
    Cardinality(Writers) <= MaxRecordings /\ Cardinality(Captures) <= MaxCaptures

TypeOK == Typed /\ SlotsBounded

Leased(r) == {e \in Exchanges : lease[e] = r /\ at[e] \in {"recording", "releasing"}}

\* An exchange that still records has its recording in the registry, under its own
\* key, and the count of active exchanges is exactly the leases not yet released:
\* no reaper, DELETE, refused request or shutdown finalizes it early, and the
\* release by key never reaches a later recording of the same key.
LeaseKeepsOpen ==
    \A r \in Exchanges :
      /\ Leased(r) # {} => state[r] = "open"
      /\ \A e \in Leased(r) : key[e] = key[r]
      /\ state[r] = "open" => active[r] = Cardinality(Leased(r))

\* A loss that is not outrun: the one way to escape the published count is a tap
\* that has set its flag and not counted when the recording is finalized, which
\* AcceptedIsComplete of HttpCapture shows to happen.
Charged(e) == loss[e] \in {"marked", "counted"}

\* Every other loss of an exchange is in the count its recording was finalized
\* with, although the exchange may be over for its tasks and not for its tap.
LossIsPublished ==
    \A r \in Exchanges :
      state[r] \in {"closed", "failed"} =>
        published[r] >= Cardinality({e \in Exchanges : lease[e] = r /\ Charged(e)})

\* A recording that is being retired takes no further exchange.
RetiringRefuses ==
    [][\A r \in Exchanges : retiring[r] => Leased(r)' \subseteq Leased(r)]_vars

\* When run() returns every recording is finalized, and it reports success only
\* if every forwarded exchange had a lease, no finalization failed and no exchange
\* lost a message, except through a tap that was outrun.
ExitIsAccounted ==
    phase = "exited" =>
      /\ \A r \in Exchanges : state[r] \in {"none", "closed", "failed"}
      /\ succeeded =>
           /\ \A e \in Exchanges : at[e] = "done" => lease[e] # None
           /\ \A r \in Exchanges : state[r] # "failed"
           /\ \A e \in Exchanges : ~Charged(e)

\* Once serving has ended, the recorder exits: nothing it waits for is lost.
ShutdownTerminates == phase = "reaper" ~> phase = "exited"

\* transport-http.md:173 says that an existing matching recording also gains a
\* dropped count when an exchange is forwarded without capture.
RefusalIsCharged ==
    \A e \in Exchanges :
      at[e] = "done" /\ refusedBy[e] # None /\ state[refusedBy[e]] = "closed" =>
        published[refusedBy[e]] > 0
=============================================================================
