------------------------------- MODULE ReplayPlan -------------------------------
(***************************************************************************)
(* What a replay sends: crates/mcptracer-model/src/plan.rs and the         *)
(* preparation in crates/mcptracer-proxy/src/commands/replay.rs.  A        *)
(* message adds to the fields of Correlation                               *)
(*   tools   for a tools/list result, the tools it defines with their      *)
(*           hints (a function from tool names to Hints)                   *)
(*   masked  whether the payload holds the redaction placeholder           *)
(***************************************************************************)
EXTENDS Correlation

Hints == [destructive : BOOLEAN, readOnly : BOOLEAN]

\* driven_messages: what the client originated, initialize moved to the front.
driven_messages(source) ==
    LET driven == SelectSeq(source, LAMBDA m : m.dir = "c2s" /\ m.kind \in {"request", "notification"})
        inits  == {i \in DOMAIN driven : driven[i].method = "initialize"}
    IN  IF inits = {} THEN driven
        ELSE LET first == CHOOSE i \in inits : \A j \in inits : i <= j
             IN  <<driven[first]>> \o RemoveAt(driven, first)

\* tool_is_allowed: --deny-tool wins, an empty --allow-tool allows all.
tool_is_allowed(tool, allow, deny) ==
    tool = NoTool \/ (tool \notin deny /\ (allow = {} \/ tool \in allow))

\* observed_tool_annotations: the last definition of a tool counts.
observed_tool_annotations(source) ==
    FoldLeft(LAMBDA known, m : IF m.dir = "s2c" THEN m.tools @@ known ELSE known, <<>>, source)

risk_for(tool, known) ==
    CASE tool = NoTool                                    -> "ReadOnly"
      [] tool \in DOMAIN known /\ known[tool].destructive -> "Destructive"
      [] tool \in DOMAIN known /\ known[tool].readOnly    -> "ReadOnly"
      [] OTHER                                            -> "Unknown"

\* build_plan: what --plan reports without sending anything.
build_plan(source, allow, deny) ==
    LET known   == observed_tool_annotations(source)
        calls   == driven_messages(source)
        allowed == SelectSeq(calls, LAMBDA m : tool_is_allowed(m.tool, allow, deny))
        risky(r) == Len(SelectSeq(allowed, LAMBDA m : risk_for(m.tool, known) = r))
        masked  == Len(SelectSeq(allowed, LAMBDA m : m.masked))
    IN  [total |-> Len(calls), allowed |-> Len(allowed), filtered_out |-> Len(calls) - Len(allowed),
         destructive |-> risky("Destructive"), unknown_risk |-> risky("Unknown"), masked |-> masked,
         requires_acknowledgement |-> risky("Destructive") > 0 \/ masked > 0]

-----------------------------------------------------------------------------
\* cancellation_notifications: the client's first cancellation after each
\* request that correlation calls cancelled.
CancellationOf(source, exchange) ==
    {i \in DOMAIN source :
        /\ source[i].seq > exchange.req /\ source[i].dir = "c2s"
        /\ source[i].kind = "notification" /\ source[i].method = "cancelled"
        /\ source[i].target = exchange.id}

cancellation_notifications(source) ==
    LET exchanges == correlate(source).exchanges
        cancelled == {i \in DOMAIN exchanges :
                         /\ exchanges[i].status = "Cancelled" /\ exchanges[i].req # NoSeq
                         /\ exchanges[i].id # NoId /\ CancellationOf(source, exchanges[i]) # {}}
        first(e)  == CHOOSE i \in CancellationOf(source, e) : \A j \in CancellationOf(source, e) : i <= j
    IN  [seq \in {exchanges[i].req : i \in cancelled} |->
            source[first(exchanges[CHOOSE i \in cancelled : exchanges[i].req = seq])]]

\* server_initiated_responses: how the recorded client answered the server.
server_initiated_responses(source) ==
    LET exchanges == correlate(source).exchanges
        answered  == {i \in DOMAIN exchanges : /\ exchanges[i].origin = "s2c"
                                               /\ exchanges[i].id # NoId /\ exchanges[i].resp # NoSeq}
        last(id)  == CHOOSE i \in answered : /\ exchanges[i].id = id
                                             /\ \A j \in answered : exchanges[j].id = id => j <= i
        at(seq)   == CHOOSE i \in DOMAIN source : source[i].seq = seq
    IN  [id \in {exchanges[i].id : i \in answered} |-> source[at(exchanges[last(id)].resp)]]

\* The driven messages the tool filter leaves.
AllowedMessages(source, allow, deny) ==
    SelectSeq(driven_messages(source), LAMBDA m : tool_is_allowed(m.tool, allow, deny))

\* A cancellation is replayed right after its request or the session cannot
\* be replayed; one whose request is not sent is dropped.
ReplayedCancellations(source, allowed) ==
    LET all  == cancellation_notifications(source)
        sent == {allowed[i].seq : i \in DOMAIN allowed}
    IN  [seq \in DOMAIN all \cap sent |-> all[seq]]

CancellationsAdjacent(allowed, cancellations) ==
    \A i \in DOMAIN allowed :
        allowed[i].seq \in DOMAIN cancellations =>
            i < Len(allowed) /\ allowed[i + 1].seq = cancellations[allowed[i].seq].seq

ReplayedMessages(allowed, cancellations) ==
    LET kept == {cancellations[seq].seq : seq \in DOMAIN cancellations}
    IN  SelectSeq(allowed, LAMBDA m : m.method # "cancelled" \/ m.seq \in kept)
=============================================================================
