-------------------------- MODULE RecordLifecycleProofs --------------------------
(***************************************************************************)
(* Proofs about RecordLifecycle, for any number of stop requests.           *)
(***************************************************************************)
EXTENDS RecordLifecycle, TLAPS

\* Every variable keeps its type, and no request is seen before it is made.
LEMMA LifecycleTypeStep == TypeOK /\ [Next]_vars => TypeOK'
<1> SUFFICES ASSUME TypeOK, [Next]_vars PROVE TypeOK'
  OBVIOUS
<1> USE MaxStopsAssumption DEF TypeOK, envVars, pumpVars, stopVars, judgeVars
<1>1. CASE Startup
  <2>1. CASE SetupFails
    BY <2>1 DEF SetupFails
  <2>2. CASE SetupSucceeds
    BY <2>2 DEF SetupSucceeds
  <2>3. CASE CleanUp
    BY <2>3 DEF CleanUp
  <2> QED BY <1>1, <2>1, <2>2, <2>3 DEF Startup
<1>2. CASE EndOfPumping
  <2>1. CASE ClientClosed
    BY <2>1 DEF ClientClosed
  <2>2. CASE ServerClosed \/ Drained
    <3>1. pumpsFailed' \in BOOLEAN
      BY <2>2, Zenon DEF ServerClosed, Drained
    <3>2. /\ stage' = "noting"
          /\ UNCHANGED <<pumpVars, envVars, stopVars, session, stopped, storageFailed, status, exit>>
      BY <2>2, Zenon DEF ServerClosed, Drained
    <3> QED BY <3>1, <3>2
  <2>3. CASE StopWhilePumping
    BY <2>3 DEF StopWhilePumping
  <2> QED BY <1>2, <2>1, <2>2, <2>3 DEF EndOfPumping, PumpEnds
<1>3. CASE Shutdown
  <2>1. CASE NoteStop
    BY <2>1 DEF NoteStop, SeenAtEnd
  <2>2. CASE FinishStorage
    <3>1. storageFailed' \in BOOLEAN /\ session' \in {"open", "closed"}
      BY <2>2, Zenon DEF FinishStorage
    <3> QED BY <2>2, <3>1 DEF FinishStorage
  <2>3. CASE ReapExited
    BY <2>3 DEF ReapExited, Exited
  <2>4. CASE StopWhileReaping
    BY <2>4 DEF StopWhileReaping
  <2>5. CASE Kill
    <3>1. serverOut' \in BOOLEAN /\ server' \in {server, "killed"}
      BY <2>5, Zenon DEF Kill
    <3>2. status' \in {status, "none", "kill_failed", "exited_ok", "exited_bad"}
      BY <2>5, Zenon DEF Kill, Exited
    <3> QED BY <2>5, <3>1, <3>2 DEF Kill
  <2>6. CASE Decide
    BY <2>6 DEF Decide
  <2> QED BY <1>3, <2>1, <2>2, <2>3, <2>4, <2>5, <2>6 DEF Shutdown
<1>4. CASE DrainTimeout \/ ReapTimeout
  BY <1>4 DEF DrainTimeout, ReapTimeout
<1>5. CASE Environment
  <2>1. CASE SignalArrives \/ Crash
    BY <2>1 DEF SignalArrives, Crash
  <2>2. CASE ClientSends \/ ServerReads \/ ServerSends \/ ClientReceives
    BY <2>2 DEF ClientSends, ServerReads, ServerSends, ClientReceives
  <2>3. CASE ClientChanges
    <3>1. clientOpen' \in BOOLEAN /\ clientReads' \in BOOLEAN
      BY <2>3, Zenon DEF ClientChanges
    <3> QED BY <2>3, <3>1 DEF ClientChanges
  <2>4. CASE ServerChanges
    <3>1. serverIn' \in BOOLEAN /\ serverOut' \in BOOLEAN
      BY <2>4, Zenon DEF ServerChanges
    <3>2. server' \in {server, "exited_ok", "exited_bad"}
      BY <2>4, Zenon DEF ServerChanges
    <3> QED BY <2>4, <3>1, <3>2 DEF ServerChanges
  <2> QED BY <1>5, <2>1, <2>2, <2>3, <2>4 DEF Environment
<1>6. CASE UNCHANGED vars
  BY <1>6 DEF vars
<1> QED BY <1>1, <1>2, <1>3, <1>4, <1>5, <1>6 DEF Next

\* The recorder starts well typed.
LEMMA LifecycleInit == Init => TypeOK
<1> SUFFICES ASSUME Init PROVE TypeOK
  OBVIOUS
<1>1. requests \in 0..MaxStops /\ seen \in 0..requests /\ notedRequests \in 0..requests
  BY MaxStopsAssumption DEF Init
<1>2. /\ clientOpen \in BOOLEAN /\ clientReads \in BOOLEAN /\ serverIn \in BOOLEAN
      /\ serverOut \in BOOLEAN /\ lateWrite \in BOOLEAN /\ pumpsFailed \in BOOLEAN
      /\ stopped \in BOOLEAN /\ storageFailed \in BOOLEAN
  BY Zenon DEF Init
<1> QED BY <1>1, <1>2 DEF Init, TypeOK

\* TypeOK as a theorem of the specification.
THEOREM LifecycleTypeCorrect == Spec => []TypeOK
<1>1. Init => TypeOK
  BY LifecycleInit
<1> QED BY <1>1, LifecycleTypeStep, PTL DEF Spec

-------------------------------------------------------------------------------
(* The judgement.  What run() may conclude at the end depends on what each     *)
(* stage has established: the session is closed before the reap, the status is *)
(* known only after it, a stop counts only if it was requested, and a server   *)
(* that still runs when run() decides is one it failed to kill.                *)

StorageIsFinished ==
    stage \in {"reaping", "killing", "deciding"} => session = "closed" \/ storageFailed

StatusIsLate == stage \notin {"deciding", "exited", "crashed"} => status = "none"

ExitIsLast == exit # "none" => stage = "exited"

StopWasRequested == stopped => requests > 0

StatusIsTheServers ==
    stage = "deciding" =>
        /\ server = "running" => status = "kill_failed"
        /\ status \in {"exited_ok", "exited_bad"} => server = status

ZeroExit ==
    exit = "zero" =>
        /\ session = "closed" /\ ~storageFailed /\ ~pumpsFailed
        /\ server # "running"
        /\ server = "exited_bad" => requests > 0 \/ status = "none"

NotedIsSeen ==
    stage \in {"finalizing", "reaping"} => seen >= notedRequests

JudgementInv ==
    /\ StorageIsFinished /\ StatusIsLate /\ ExitIsLast /\ StopWasRequested
    /\ StatusIsTheServers /\ ZeroExit /\ NotedIsSeen

\* Every step of the recorder and of its environment keeps the judgement invariant.
LEMMA JudgementStep == TypeOK /\ JudgementInv /\ [Next]_vars => JudgementInv'
<1> SUFFICES ASSUME TypeOK, JudgementInv, [Next]_vars PROVE JudgementInv'
  OBVIOUS
<1> USE DEF TypeOK, envVars, pumpVars, stopVars, judgeVars, JudgementInv, StorageIsFinished,
            StatusIsLate, ExitIsLast, StopWasRequested, StatusIsTheServers, ZeroExit, NotedIsSeen
<1>1. CASE Startup
  BY <1>1 DEF Startup, SetupFails, SetupSucceeds, CleanUp
<1>2. CASE ClientClosed
  BY <1>2 DEF ClientClosed
<1>3. CASE ServerClosed
  BY <1>3 DEF ServerClosed
<1>4. CASE Drained
  BY <1>4 DEF Drained
<1>5. CASE StopWhilePumping
  BY <1>5 DEF StopWhilePumping, UnseenStop
<1>6. CASE NoteStop
  BY <1>6 DEF NoteStop, SeenAtEnd
<1>7. CASE FinishStorage
  BY <1>7 DEF FinishStorage
<1>8. CASE ReapExited
  BY <1>8 DEF ReapExited, Exited
<1>9. CASE StopWhileReaping
  BY <1>9 DEF StopWhileReaping
<1>10. CASE Kill
  BY <1>10 DEF Kill, Exited
<1>11. CASE Decide
  BY <1>11 DEF Decide, ExitIsError, StatusForgiven
<1>12. CASE DrainTimeout \/ ReapTimeout
  BY <1>12 DEF DrainTimeout, ReapTimeout
<1>13. CASE SignalArrives
  BY <1>13 DEF SignalArrives
<1>14. CASE ClientSends \/ ServerReads \/ ServerSends \/ ClientReceives \/ ClientChanges
  BY <1>14 DEF ClientSends, ServerReads, ServerSends, ClientReceives, ClientChanges
<1>15. CASE ServerChanges
  BY <1>15 DEF ServerChanges
<1>16. CASE Crash
  BY <1>16 DEF Crash
<1>17. CASE UNCHANGED vars
  BY <1>17 DEF vars
<1> QED
  BY <1>1, <1>2, <1>3, <1>4, <1>5, <1>6, <1>7, <1>8, <1>9, <1>10, <1>11, <1>12, <1>13, <1>14,
     <1>15, <1>16, <1>17
  DEF Next, EndOfPumping, PumpEnds, Shutdown, Environment

\* It holds of every reachable state.
LEMMA JudgementInvariant == Spec => [](TypeOK /\ JudgementInv)
<1>1. Init => TypeOK /\ JudgementInv
  BY LifecycleInit
  DEF Init, JudgementInv, StorageIsFinished, StatusIsLate, ExitIsLast, StopWasRequested,
      StatusIsTheServers, ZeroExit, NotedIsSeen
<1> QED BY <1>1, LifecycleTypeStep, JudgementStep, PTL DEF Spec

\* ZeroExitIsEarned: the exit status of run() is 0 only if the session is closed
\* without a recording loss, both pumps ended cleanly, and a server that failed
\* was asked to stop.
THEOREM ZeroExitEarned == Spec => []ZeroExitIsEarned
<1>1. JudgementInv => ZeroExitIsEarned
  BY DEF JudgementInv, ZeroExit, ZeroExitIsEarned
<1> QED BY <1>1, JudgementInvariant, PTL

\* FreshStopCutsReap: the request that ended forwarding, and any that lost the
\* race against it, never cuts the reap short; only a later one does.
THEOREM OnlyFreshStopCutsReap == Spec => FreshStopCutsReap
<1>1. TypeOK /\ JudgementInv /\ [Next]_vars
        => [stage = "reaping" /\ seen' > seen => requests > notedRequests]_vars
  <2> SUFFICES ASSUME TypeOK, JudgementInv, [Next]_vars, stage = "reaping", seen' > seen
      PROVE  requests > notedRequests
    OBVIOUS
  <2> USE DEF TypeOK, envVars, pumpVars, stopVars, judgeVars
  <2>1. seen >= notedRequests
    BY DEF JudgementInv, NotedIsSeen
  <2>2. UNCHANGED seen \/ StopWhileReaping
    <3>1. CASE Shutdown
      BY <3>1 DEF Shutdown, NoteStop, FinishStorage, ReapExited, Kill, Decide
    <3>2. CASE Startup \/ EndOfPumping
      BY <3>2 DEF Startup, SetupFails, SetupSucceeds, CleanUp, EndOfPumping, PumpEnds, ClientClosed,
                  ServerClosed, Drained, StopWhilePumping
    <3>3. CASE DrainTimeout \/ ReapTimeout \/ Environment \/ UNCHANGED vars
      BY <3>3 DEF DrainTimeout, ReapTimeout, Environment, SignalArrives, ClientSends, ServerReads,
                  ServerSends, ClientReceives, ClientChanges, ServerChanges, Crash, vars
    <3> QED BY <3>1, <3>2, <3>3 DEF Next
  <2> QED BY <2>1, <2>2 DEF StopWhileReaping, UnseenStop
<1> QED BY <1>1, JudgementInvariant, PTL DEF Spec, FreshStopCutsReap
=============================================================================
