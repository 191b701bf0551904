---------------------------------- MODULE Diff ----------------------------------
(***************************************************************************)
(* crates/mcptracer-model/src/diff.rs: the structured difference of two    *)
(* recorded sessions, which gates CI, and the tool catalog a session shows.*)
(*                                                                         *)
(* A message adds to the fields of Correlation                             *)
(*   payload  its JSON body (params, result or error), Absent when the     *)
(*            stored text does not parse                                   *)
(* Options have ignored (a set of pointers), volatile (a set of keys),     *)
(* ignore_latency, threshold_pct and threshold_ns.                         *)
(***************************************************************************)
EXTENDS Correlation, Json

OpaqueState == Text("<opaque MCP request state>")

\* normalize: without the ignored pointers and the volatile keys.
RECURSIVE Kept(_, _, _)
Kept(v, pointer, opts) ==
    LET keeps(k) == ChildPointer(pointer, v, k) \notin opts.ignored
        kid(k)   == Kept(Kids(v)[k], ChildPointer(pointer, v, k), opts)
    IN  CASE v.type = "object" ->
                 Object([k \in {key \in DOMAIN v.kids : key \notin opts.volatile /\ keeps(key)} |-> kid(k)])
          [] v.type = "array"  ->
                 LET places == SelectSeq([i \in DOMAIN v.items |-> i], keeps)
                 IN  Array([i \in DOMAIN places |-> kid(places[i])])
          [] OTHER -> v

normalize(v, opts) == IF <<>> \in opts.ignored THEN Null ELSE Kept(v, <<>>, opts)

\* An opaque retry token counts by its presence only.
normalize_request(v, opts) ==
    LET kept == normalize(v, opts)
    IN  IF GetText(kept, "requestState") = Absent THEN kept
        ELSE [kept EXCEPT !.kids["requestState"] = OpaqueState]

normalize_response(v, opts) ==
    LET kept == normalize(v, opts)
    IN  IF Get(kept, "resultType") # Text("input_required") THEN kept
        ELSE [kept EXCEPT !.kids = Restrict(@, DOMAIN @ \ {"requestState"})]

\* compare_values: the pointers at which two values differ; a masked value equals
\* any other.
RECURSIVE compare_values(_, _, _)
compare_values(a, b, pointer) ==
    IF Placeholder \in {a, b} THEN {}
    ELSE IF a.type = b.type /\ IsContainer(a)
    THEN UNION {LET child == ChildPointer(pointer, a, k)
                IN  IF k \in DOMAIN Kids(a) /\ k \in DOMAIN Kids(b)
                    THEN compare_values(Kids(a)[k], Kids(b)[k], child) ELSE {child} :
                k \in DOMAIN Kids(a) \cup DOMAIN Kids(b)}
    ELSE IF a # b THEN {pointer} ELSE {}

-----------------------------------------------------------------------------
\* payloads_by_seq
PayloadAt(messages, seq) ==
    LET found == {i \in DOMAIN messages : messages[i].seq = seq}
    IN  IF found = {} THEN Absent ELSE messages[CHOOSE i \in found : TRUE].payload

\* A request without params counts as null, one that does not parse is unknown.
request_params(exchange, messages) ==
    LET payload == PayloadAt(messages, exchange.req)
    IN  IF payload = Absent THEN Absent
        ELSE IF Get(payload, "params") = Absent THEN Null ELSE Get(payload, "params")

BodyField(status) == CASE status \in {"Ok", "ToolError"} -> "result"
                       [] status = "Error"               -> "error"
                       [] OTHER                          -> "none"

response_subtree(exchange, messages) ==
    Get(PayloadAt(messages, exchange.resp), BodyField(exchange.status))

error_code(exchange, messages) == Get(Get(PayloadAt(messages, exchange.resp), "error"), "code")

RequestDiffs(a, b, left, right, opts) ==
    LET p == request_params(a, left)
        q == request_params(b, right)
    IN  IF Absent \in {p, q} THEN {}
        ELSE compare_values(normalize_request(p, opts), normalize_request(q, opts), <<>>)

ResponseDiffs(a, b, left, right, opts) ==
    LET p == response_subtree(a, left)
        q == response_subtree(b, right)
    IN  IF Absent \in {p, q} THEN {}
        ELSE compare_values(normalize_response(p, opts), normalize_response(q, opts), <<>>)

Distance(x, y) == IF x < y THEN y - x ELSE x - y

\* Both the relative and the absolute change must exceed their threshold.
LatencyChanged(from, to, opts) ==
    /\ ~opts.ignore_latency /\ from # NoTime /\ to # NoTime
    /\ from > 0 /\ Distance(from, to) > opts.threshold_ns
    /\ Distance(from, to) * 100 > opts.threshold_pct * from

\* compare_exchanges: bodies are compared only when the outcome is the same.
compare_exchanges(a, b, left, right, opts) ==
    LET same == a.status = b.status
        delta(condition, kind) == IF condition THEN {kind} ELSE {}
    IN  UNION {delta(RequestDiffs(a, b, left, right, opts) # {}, "RequestChanged"),
               delta(~same, "StatusChanged"),
               delta(same /\ error_code(a, left) # error_code(b, right), "ErrorCodeChanged"),
               delta(same /\ ResponseDiffs(a, b, left, right, opts) # {}, "ResponseChanged"),
               delta(LatencyChanged(a.latency, b.latency, opts), "LatencyChanged")}

-----------------------------------------------------------------------------
\* Items numbered per base: a key is a base with its ordinal.  The code joins the
\* words of a base into one string; here a base is their sequence, as methods and
\* tools are atoms.  (Joined, a method that holds a space or begins with
\* "server:" could pass for another base; no MCP method does.)
Numbered(items, Base(_)) ==
    [i \in DOMAIN items |->
        [key  |-> <<Base(items[i]), Cardinality({j \in 1..(i - 1) : Base(items[j]) = Base(items[i])})>>,
         item |-> items[i]]]

Keys(aligned) == {aligned[i].key : i \in DOMAIN aligned}

ItemAt(aligned, key) == aligned[CHOOSE i \in DOMAIN aligned : aligned[i].key = key].item

\* Orphan responses, and requests without a method, take no part.
alignment_keys(messages) ==
    Numbered(SelectSeq(correlate(messages).exchanges, LAMBDA e : e.status # "OrphanResponse" /\ e.method # "none"),
             LAMBDA e : (IF e.origin = "c2s" THEN <<>> ELSE <<"server:">>) \o <<e.method>>
                        \o (IF e.tool = NoTool THEN <<>> ELSE <<e.tool>>))

notification_alignment_keys(messages) ==
    Numbered(SelectSeq(messages, LAMBDA m : m.kind = "notification" /\ m.method # "none" /\ m.dir \in Direction),
             LAMBDA m : <<IF m.dir = "s2c" THEN "server:" ELSE "client:", "notification", m.method>>)

\* diff_notification_events: whole payloads are compared, unreadable ones not.
NotificationDiffs(m, n, opts) ==
    IF Absent \in {m.payload, n.payload} THEN {}
    ELSE compare_values(normalize(m.payload, opts), normalize(n.payload, opts), <<>>)

diff_notification_events(left, right, opts) ==
    LET a == notification_alignment_keys(left)
        b == notification_alignment_keys(right)
    IN  [removed |-> Keys(a) \ Keys(b), added |-> Keys(b) \ Keys(a),
         changed |-> {<<k, {"ResponseChanged"}>> :
                         k \in {key \in Keys(a) \cap Keys(b) :
                                   NotificationDiffs(ItemAt(a, key), ItemAt(b, key), opts) # {}}}]

-----------------------------------------------------------------------------
NoDivergence == [step |-> -1, key |-> <<>>, kind |-> "none"]

\* Why the two sessions differ at one step, the first reason that holds.
StepDivergence(x, y, left, right, opts) ==
    CASE x.key # y.key                                            -> "MethodMismatch"
      [] x.item.status # y.item.status                            -> "StatusMismatch"
      [] error_code(x.item, left) # error_code(y.item, right)     -> "ErrorCodeMismatch"
      [] RequestDiffs(x.item, y.item, left, right, opts) # {}     -> "RequestMismatch"
      [] ResponseDiffs(x.item, y.item, left, right, opts) # {}    -> "ResponseMismatch"
      [] OTHER                                                    -> "none"

compute_point_of_divergence(a, b, left, right, opts) ==
    LET shared   == IF Len(a) < Len(b) THEN Len(a) ELSE Len(b)
        why(i)   == StepDivergence(a[i], b[i], left, right, opts)
        diverged == {i \in 1..shared : why(i) # "none"}
        at(i, key, kind) == [step |-> i - 1, key |-> key, kind |-> kind]
    IN  IF diverged # {}
        THEN LET first == CHOOSE i \in diverged : \A j \in diverged : i <= j
             IN  at(first, a[first].key, why(first))
        ELSE IF Len(a) > shared THEN at(shared + 1, a[shared + 1].key, "MissingExchange")
        ELSE IF Len(b) > shared THEN at(shared + 1, b[shared + 1].key, "ExtraExchange")
        ELSE NoDivergence

-----------------------------------------------------------------------------
ToolFields == {"title", "description", "inputSchema", "outputSchema", "annotations"}

\* ToolDef: a title or a description that is no string counts as absent.
ToolDef(tool) ==
    [f \in ToolFields |-> IF f \in {"title", "description"} THEN GetText(tool, f) ELSE Get(tool, f)]

\* The tools of one page; an entry without a name is left out, the last of two wins.
PageTools(tools) ==
    FoldLeft(LAMBDA known, tool : IF GetText(tool, "name") = Absent THEN known
                                  ELSE (GetText(tool, "name").text :> ToolDef(tool)) @@ known,
             <<>>, tools.items)

EmptyCatalog == [tools |-> <<>>, complete |-> FALSE, cursor |-> Absent, collecting |-> FALSE]

\* One answered tools/list: without a cursor it starts over, with one it must
\* continue the page before.
SeeList(catalog, exchange, messages) ==
    LET cursor == GetText(Get(PayloadAt(messages, exchange.req), "params"), "cursor")
        begun  == IF cursor = Absent THEN [EmptyCatalog EXCEPT !.collecting = TRUE] ELSE catalog
        result == Get(PayloadAt(messages, exchange.resp), "result")
        tools  == Get(result, "tools")
        next   == GetText(result, "nextCursor")
    IN  IF ~begun.collecting \/ cursor # begun.cursor \/ tools.type # "array" THEN begun
        ELSE [begun EXCEPT !.tools = PageTools(tools) @@ @, !.cursor = next, !.complete = next = Absent]

extract_tool_catalog(messages) ==
    FoldLeft(LAMBDA catalog, e : SeeList(catalog, e, messages), EmptyCatalog,
             SelectSeq(correlate(messages).exchanges, LAMBDA e : e.method = "list" /\ e.status = "Ok"))

\* diff_tools: what changed in each tool's contract; here a masked value differs
\* from the value it stands for.
diff_tools(before, after) ==
    {<<"ToolAdded", t>>   : t \in DOMAIN after \ DOMAIN before}
        \cup {<<"ToolRemoved", t>> : t \in DOMAIN before \ DOMAIN after}
        \cup {<<f, t>> \in ToolFields \X (DOMAIN before \cap DOMAIN after) : before[t][f] # after[t][f]}

-----------------------------------------------------------------------------
ErrorRate(aligned) ==
    <<Cardinality({i \in DOMAIN aligned : aligned[i].status \in {"Error", "ToolError"}}), Len(aligned)>>

diff_sessions(left, right, opts) ==
    LET a == alignment_keys(left)
        b == alignment_keys(right)
        deltas(k) == compare_exchanges(ItemAt(a, k), ItemAt(b, k), left, right, opts)
        events == diff_notification_events(left, right, opts)
    IN  [changed  |-> {<<k, deltas(k)>> : k \in {key \in Keys(a) \cap Keys(b) : deltas(key) # {}}}
                         \cup events.changed,
         removed  |-> (Keys(a) \ Keys(b)) \cup events.removed,
         added    |-> (Keys(b) \ Keys(a)) \cup events.added,
         security |-> diff_tools(extract_tool_catalog(left).tools, extract_tool_catalog(right).tools),
         error_rate_from |-> ErrorRate(correlate(left).exchanges),
         error_rate_to   |-> ErrorRate(correlate(right).exchanges),
         point_of_divergence |-> compute_point_of_divergence(a, b, left, right, opts)]

\* DiffReport::is_empty
is_empty(report) ==
    /\ report.changed = {} /\ report.added = {} /\ report.removed = {}
    /\ report.security = {} /\ report.point_of_divergence = NoDivergence
=============================================================================
