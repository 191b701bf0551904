------------------------------- MODULE CaptureLog -------------------------------
(***************************************************************************)
(* What the recorder promises about one session, seen from outside: frames *)
(* are relayed, a subset of them is stored while the session is open, and  *)
(* the session is closed at most once.  Unless it is closed with a declared *)
(* loss, everything relayed is in the log, and a closed log never changes. *)
(***************************************************************************)
EXTENDS Naturals

VARIABLES
    relayed,     \* what the peers received
    log,         \* what the session stores of it
    declared,    \* the session declares a loss
    closed       \* the session is closed

logVars == <<relayed, log, declared, closed>>

LogInit == relayed = {} /\ log = {} /\ declared = FALSE /\ closed = FALSE

\* Relaying never waits for the log.
Relay ==
    /\ ~closed
    /\ relayed \subseteq relayed'
    /\ UNCHANGED <<log, declared, closed>>

\* Only what was relayed is ever stored.
Store ==
    /\ ~closed
    /\ log \subseteq log' /\ log' \subseteq relayed
    /\ UNCHANGED <<relayed, declared, closed>>

Declare ==
    /\ ~closed
    /\ declared' = TRUE
    /\ UNCHANGED <<relayed, log, closed>>

Close ==
    /\ ~closed
    /\ closed' = TRUE
    /\ declared \/ relayed \subseteq log
    /\ UNCHANGED <<relayed, log, declared>>

LogNext == Relay \/ Store \/ Declare \/ Close

LogSpec == LogInit /\ [][LogNext]_logVars
=============================================================================
