----------------------------- MODULE SessionHealth -----------------------------
(***************************************************************************)
(* crates/mcptracer-proxy/src/session_health.rs: whether the stored        *)
(* capture of a session can be trusted.                                    *)
(*                                                                         *)
(* A message adds to the fields of Correlation                             *)
(*   shape  what the redaction context tracker reads of its envelope       *)
(*   bare   the contexts in which the stored payload still shows a value   *)
(*          under a key its session's policy masks                         *)
(* A summary has the fields ended, dropped and policy, where the policy is *)
(* "invalid" when its stored name or keys cannot be read back.             *)
(***************************************************************************)
EXTENDS Correlation

Policies == {"none", "default", "custom", "invalid"}

\* The tracker before each message; an unparsable payload is not shown to it.
Observed(messages) == SelectSeq(messages, LAMBDA m : m.valid)

TrackerBefore(observed, i) == FoldLeft(ObserveTracker, EmptyTracker, SubSeq(observed, 1, i - 1))

\* The first message that found the bounded redaction context lost.
FirstLost(observed) ==
    {i \in DOMAIN observed :
        /\ TrackerBefore(observed, i + 1).lost
        /\ ~TrackerBefore(observed, i).lost}

append_redaction_issues(messages, policy) ==
    LET observed == Observed(messages)
        context(i) == ObserveContext(TrackerBefore(observed, i), observed[i])
    IN  IF policy = "invalid" THEN {Issue("InvalidRedactionConfiguration", NoSeq)}
        ELSE IF policy = "none" THEN {}
        ELSE {Issue("DroppedMessages", observed[i].seq) : i \in FirstLost(observed)}
               \cup {Issue("UnredactedSensitiveValue", observed[i].seq) :
                        i \in {j \in DOMAIN observed : context(j) \in observed[j].bare}}

assess_capture(summary, messages) ==
    UNION {validate_session(messages, summary.dropped),
           append_redaction_issues(messages, summary.policy),
           IssueIf(~summary.ended, "SessionNotClosed", NoSeq)}

\* require_healthy_session: nothing at all is wrong.
Healthy(summary, messages) == assess_capture(summary, messages) = {}

\* require_complete_capture: redaction findings are left to the export options.
CompleteCapture(summary, messages) ==
    \A issue \in assess_capture(summary, messages) : issue.kind = "UnredactedSensitiveValue"
=============================================================================
