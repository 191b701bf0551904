---------------------------- MODULE RecordLifecycle ----------------------------
(***************************************************************************)
(* One `mcptracer record` process from start to exit status: run(),        *)
(* coordinate_pumps() and reap_server() of commands/record.rs, and the     *)
(* stop requests of shutdown.rs.  The recording pipeline behind it is      *)
(* SessionWriter; here finish_storage_writer either closes the session and *)
(* returns, or returns an error.                                           *)
(*                                                                         *)
(* A pump is "reading" its source or "writing" to its sink.  Both futures  *)
(* are polled by one select!, so a pump that ends and the branch it takes  *)
(* are one step, and a pump that loses the race is dropped where it is.    *)
(***************************************************************************)
EXTENDS Naturals

CONSTANT MaxStops    \* bound: stop signals in one behaviour

ASSUME MaxStopsAssumption == MaxStops \in Nat

VARIABLES
    stage,            \* where run() is
    c2s, s2c,         \* what each pump is doing
    clientOpen,       \* the client keeps our stdin open
    clientReads,      \* the client keeps our stdout open
    server,           \* the wrapped process
    serverIn,         \* it keeps its stdin open
    serverOut,        \* it, or a child of its own, keeps its stdout open
    requests,         \* the watch channel: stop requests so far
    seen,             \* those this receiver has observed
    session,          \* the session row: absent, open, closed
    pumpsFailed,      \* PumpsOutcome.result is an error
    stopped,          \* PumpsOutcome.stopped
    storageFailed,    \* finish_storage_writer returned an error
    status,           \* what reap_server returned
    exit,             \* exit status of the recorder
    notedRequests,    \* history: requests counted as seen before the reap
    lateWrite         \* history: a stop was requested, the server exited of itself,
                      \* and then the pump writing to it ended the forwarding

envVars   == <<clientOpen, clientReads, server, serverIn, serverOut>>
pumpVars  == <<c2s, s2c>>
stopVars  == <<requests, seen, notedRequests, lateWrite>>
judgeVars == <<session, pumpsFailed, stopped, storageFailed, status, exit>>
vars == <<stage, pumpVars, envVars, stopVars, judgeVars>>

Init ==
    /\ stage = "setup"
    /\ c2s = "reading" /\ s2c = "reading"
    /\ clientOpen = TRUE /\ clientReads = TRUE
    /\ server = "none" /\ serverIn = TRUE /\ serverOut = TRUE
    /\ requests = 0 /\ seen = 0 /\ notedRequests = 0 /\ lateWrite = FALSE
    /\ session = "none"
    /\ pumpsFailed = FALSE /\ stopped = FALSE /\ storageFailed = FALSE
    /\ status = "none" /\ exit = "none"

Polled(pump) ==
    \/ stage = "pumping"
    \/ stage = "draining" /\ pump = "s2c"

-------------------------------------------------------------------------------
(* The environment: peers, the operator, the operating system.               *)

SignalArrives ==
    /\ requests < MaxStops
    /\ stage \notin {"exited", "crashed"}
    /\ requests' = requests + 1
    /\ UNCHANGED <<stage, pumpVars, envVars, seen, notedRequests, lateWrite, judgeVars>>

ClientSends ==
    /\ Polled("c2s") /\ c2s = "reading" /\ clientOpen
    /\ c2s' = "writing"
    /\ UNCHANGED <<stage, s2c, envVars, stopVars, judgeVars>>

ServerReads ==
    /\ Polled("c2s") /\ c2s = "writing" /\ serverIn
    /\ c2s' = "reading"
    /\ UNCHANGED <<stage, s2c, envVars, stopVars, judgeVars>>

ServerSends ==
    /\ Polled("s2c") /\ s2c = "reading" /\ serverOut
    /\ s2c' = "writing"
    /\ UNCHANGED <<stage, c2s, envVars, stopVars, judgeVars>>

ClientReceives ==
    /\ Polled("s2c") /\ s2c = "writing" /\ clientReads
    /\ s2c' = "reading"
    /\ UNCHANGED <<stage, c2s, envVars, stopVars, judgeVars>>

ClientChanges ==
    /\ stage \notin {"exited", "crashed"}
    /\ \/ clientOpen /\ clientOpen' = FALSE /\ UNCHANGED clientReads
       \/ clientReads /\ clientReads' = FALSE /\ UNCHANGED clientOpen
    /\ UNCHANGED <<stage, pumpVars, server, serverIn, serverOut, stopVars, judgeVars>>

ServerChanges ==
    /\ server = "running"
    /\ \/ serverOut /\ serverOut' = FALSE /\ UNCHANGED <<server, serverIn>>
       \/ serverIn /\ serverIn' = FALSE /\ UNCHANGED <<server, serverOut>>
       \/ /\ server' \in {"exited_ok", "exited_bad"} /\ serverIn' = FALSE
          /\ serverOut' \in {FALSE, serverOut}
    /\ UNCHANGED <<stage, pumpVars, clientOpen, clientReads, stopVars, judgeVars>>

\* SIGKILL of the recorder itself.
Crash ==
    /\ stage \notin {"exited", "crashed"}
    /\ stage' = "crashed"
    /\ UNCHANGED <<pumpVars, envVars, stopVars, judgeVars>>

-------------------------------------------------------------------------------
(* Startup.                                                                  *)

\* Spawning fails, or the store cannot be opened, or the session cannot be
\* created, or its redaction policy cannot be stored once it exists.
SetupFails ==
    /\ stage = "setup"
    /\ \/ stage' = "exited" /\ exit' = "error" /\ UNCHANGED <<server, session>>
       \/ /\ stage' = "cleanup" /\ server' = "running"
          /\ session' \in {"none", "open"} /\ UNCHANGED exit
    /\ UNCHANGED <<pumpVars, clientOpen, clientReads, serverIn, serverOut, stopVars, pumpsFailed,
                   stopped, storageFailed, status>>

SetupSucceeds ==
    /\ stage = "setup"
    /\ stage' = "pumping" /\ server' = "running" /\ session' = "open"
    /\ UNCHANGED <<pumpVars, clientOpen, clientReads, serverIn, serverOut, stopVars, pumpsFailed,
                   stopped, storageFailed, status, exit>>

\* cleanup_failed_start, including its timeout: the setup error is returned.
CleanUp ==
    /\ stage = "cleanup"
    /\ server' = IF server = "running" THEN "killed" ELSE server
    /\ stage' = "exited" /\ exit' = "error"
    /\ UNCHANGED <<pumpVars, clientOpen, clientReads, serverIn, serverOut, stopVars, session,
                   pumpsFailed, stopped, storageFailed, status>>

-------------------------------------------------------------------------------
(* coordinate_pumps.                                                         *)

\* The client->server pump returns: end of input, a malformed or oversize frame,
\* or a write the server did not take.
C2sEnds(failed) ==
    \/ c2s = "reading" /\ ~clientOpen /\ ~failed
    \/ c2s = "reading" /\ failed
    \/ c2s = "writing" /\ ~serverIn /\ failed

S2cEnds(failed) ==
    \/ s2c = "reading" /\ ~serverOut /\ ~failed
    \/ s2c = "reading" /\ failed
    \/ s2c = "writing" /\ ~clientReads /\ failed

\* Whichever way the client's side ended, the server's output is drained.
ClientClosed ==
    /\ stage = "pumping"
    /\ \E failed \in BOOLEAN : C2sEnds(failed) /\ pumpsFailed' = failed
    /\ stage' = "draining"
    /\ lateWrite' = (requests > 0 /\ c2s = "writing" /\ server \in {"exited_ok", "exited_bad"})
    /\ UNCHANGED <<pumpVars, envVars, requests, seen, notedRequests, session, stopped,
                   storageFailed, status, exit>>

ServerClosed ==
    /\ stage = "pumping"
    /\ \E failed \in BOOLEAN : S2cEnds(failed) /\ pumpsFailed' = failed
    /\ stage' = "noting"
    /\ UNCHANGED <<pumpVars, envVars, stopVars, session, stopped, storageFailed, status, exit>>

Drained ==
    /\ stage = "draining"
    /\ \E failed \in BOOLEAN : S2cEnds(failed) /\ pumpsFailed' = (pumpsFailed \/ failed)
    /\ stage' = "noting"
    /\ UNCHANGED <<pumpVars, envVars, stopVars, session, stopped, storageFailed, status, exit>>

DrainTimeout ==
    /\ stage = "draining"
    /\ stage' = "noting"
    /\ UNCHANGED <<pumpVars, envVars, stopVars, judgeVars>>

\* next_stop_request resolves on a change not seen yet and marks all as seen.
UnseenStop == requests > seen

StopWhilePumping ==
    /\ stage \in {"pumping", "draining"}
    /\ UnseenStop
    /\ seen' = requests /\ stopped' = TRUE
    /\ stage' = "noting"
    /\ UNCHANGED <<pumpVars, envVars, requests, notedRequests, lateWrite, session,
                   pumpsFailed, storageFailed, status, exit>>

-------------------------------------------------------------------------------
(* Finalizing and reaping.                                                   *)

KeepsUnseen == IF stopped THEN requests ELSE seen

\* A request that lost the race to end forwarding is counted as seen.
SeenAtEnd == IF stopped \/ requests > 0 THEN requests ELSE seen

NoteStop ==
    /\ stage = "noting"
    /\ seen' = SeenAtEnd /\ notedRequests' = requests
    /\ stage' = "finalizing"
    /\ UNCHANGED <<pumpVars, envVars, requests, lateWrite, judgeVars>>

\* finish_storage_writer: closed without a loss, closed with one, or not closed.
FinishStorage ==
    /\ stage = "finalizing"
    /\ \/ session' = "closed" /\ storageFailed' \in BOOLEAN
       \/ session' = "open" /\ storageFailed' = TRUE
    /\ stage' = "reaping"
    /\ UNCHANGED <<pumpVars, envVars, stopVars, pumpsFailed, stopped, status, exit>>

Exited == server \in {"exited_ok", "exited_bad"}

ReapExited ==
    /\ stage = "reaping" /\ Exited
    /\ status' = server
    /\ stage' = "deciding"
    /\ UNCHANGED <<pumpVars, envVars, stopVars, session, pumpsFailed, stopped,
                   storageFailed, exit>>

\* After SERVER_REAP_GRACE.
WaitForever == FALSE /\ UNCHANGED vars

ReapTimeout ==
    /\ stage = "reaping" /\ ~Exited
    /\ stage' = "killing"
    /\ UNCHANGED <<pumpVars, envVars, stopVars, judgeVars>>

StopWhileReaping ==
    /\ stage = "reaping" /\ UnseenStop
    /\ seen' = requests
    /\ stage' = "killing"
    /\ UNCHANGED <<pumpVars, envVars, requests, notedRequests, lateWrite, judgeVars>>

\* The process is killed, or was gone already and its status may be lost to the
\* kill; or the kill is refused and run() returns its error.
Kill ==
    /\ stage = "killing"
    /\ \/ server = "running" /\ server' = "killed" /\ serverOut' = FALSE /\ UNCHANGED status
       \/ server = "running" /\ status' = "kill_failed" /\ UNCHANGED <<server, serverOut>>
       \/ Exited /\ status' \in {"none", server} /\ UNCHANGED <<server, serverOut>>
    /\ stage' = "deciding"
    /\ UNCHANGED <<pumpVars, clientOpen, clientReads, serverIn, stopVars, session, pumpsFailed,
                   stopped, storageFailed, exit>>

\* The order in which run() looks at its results.
StatusForgiven    == stopped \/ requests > 0
IgnoresStorage    == pumpsFailed \/ status = "kill_failed"
                       \/ (status = "exited_bad" /\ ~StatusForgiven)
ExitIsError       == pumpsFailed \/ storageFailed \/ status = "kill_failed"
                       \/ (status = "exited_bad" /\ ~StatusForgiven)

Decide ==
    /\ stage = "deciding"
    /\ exit' = IF ExitIsError THEN "error" ELSE "zero"
    /\ stage' = "exited"
    /\ UNCHANGED <<pumpVars, envVars, stopVars, session, pumpsFailed, stopped,
                   storageFailed, status>>

-------------------------------------------------------------------------------
PumpEnds     == ClientClosed \/ ServerClosed \/ Drained
EndOfPumping == PumpEnds \/ StopWhilePumping

Shutdown ==
    \/ NoteStop \/ FinishStorage \/ ReapExited \/ StopWhileReaping \/ Kill \/ Decide

Startup == SetupFails \/ SetupSucceeds \/ CleanUp

Environment ==
    \/ SignalArrives \/ ClientSends \/ ServerReads \/ ServerSends \/ ClientReceives
    \/ ClientChanges \/ ServerChanges \/ Crash

Done == stage \in {"exited", "crashed"}

Next ==
    \/ Startup \/ EndOfPumping \/ Shutdown \/ DrainTimeout \/ ReapTimeout \/ Environment
    \/ Done /\ UNCHANGED vars

Spec == Init /\ [][Next]_vars

\* The recorder takes the steps it can take, an end of input is read, a write to
\* a closed pipe fails, and timers fire.  Neither peer, nor the operator, owes the
\* recorder anything, and no other failure has to happen.
InputEnds  == PumpEnds /\ UNCHANGED pumpsFailed
WriteFails == PumpEnds /\ pumpsFailed' /\ (c2s = "writing" \/ s2c = "writing")

FairSpec ==
    /\ Spec
    /\ WF_vars(Startup) /\ WF_vars(StopWhilePumping) /\ WF_vars(Shutdown)
    /\ WF_vars(InputEnds) /\ WF_vars(WriteFails)
    /\ WF_vars(DrainTimeout) /\ WF_vars(ReapTimeout)

\* The same beside a client that goes on reading as long as it keeps our stdout.
ReadingClientSpec == FairSpec /\ WF_vars(ClientReceives)

-------------------------------------------------------------------------------
(* Properties.                                                               *)

TypeOK ==
    /\ stage \in {"setup", "cleanup", "pumping", "draining", "noting", "finalizing",
                  "reaping", "killing", "deciding", "exited", "crashed"}
    /\ c2s \in {"reading", "writing"} /\ s2c \in {"reading", "writing"}
    /\ clientOpen \in BOOLEAN /\ clientReads \in BOOLEAN
    /\ serverIn \in BOOLEAN /\ serverOut \in BOOLEAN
    /\ server \in {"none", "running", "exited_ok", "exited_bad", "killed"}
    /\ requests \in 0..MaxStops /\ seen \in 0..requests /\ notedRequests \in 0..requests
    /\ session \in {"none", "open", "closed"}
    /\ lateWrite \in BOOLEAN /\ pumpsFailed \in BOOLEAN
    /\ stopped \in BOOLEAN /\ storageFailed \in BOOLEAN
    /\ status \in {"none", "exited_ok", "exited_bad", "kill_failed"}
    /\ exit \in {"none", "zero", "error"}

\* Exit status 0 is earned: the session is closed without a recording loss, both
\* directions ended cleanly, and a server that failed was stopped on request.
ZeroExitIsEarned ==
    exit = "zero" =>
        /\ session = "closed" /\ ~storageFailed /\ ~pumpsFailed
        /\ server = "exited_bad" => requests > 0 \/ status = "none"

\* One stop request never ends two waits: a server that shuts down on the signal
\* that also stopped the recorder gets its whole grace, whichever of the two ended
\* forwarding; the reap is cut short only by a request made after those counted at
\* the end of forwarding.
FreshStopCutsReap ==
    [][stage = "reaping" /\ seen' > seen => requests > notedRequests]_vars

\* Whatever the peers do, even while a pump is blocked on one of them: once
\* forwarding has ended or a stop was requested, the recorder ends.
StopTerminates ==
    stage = "draining" \/ (stage \notin {"setup", "cleanup"} /\ requests > 0) ~> Done

\* recording.md:34 says record stops as soon as the client closes stdin; also the
\* comment on CLIENT_EOF_DRAIN_GRACE: a server must not keep the recorder alive.
ClientCloseStops == stage = "pumping" /\ ~clientOpen ~> Done \/ ~clientReads

\* recording.md:48 says a stop request exits with status 0, and record.rs:157 that
\* forwarding which ends after one is judged by the request's arrival, not by the
\* future that won: a write the dying server did not take is no exception.
StopRequestExitsZero ==
    lateWrite /\ exit = "error" => storageFailed \/ status = "kill_failed"
=============================================================================
