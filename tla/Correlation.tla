------------------------------ MODULE Correlation ------------------------------
(***************************************************************************)
(* The correlated view of one recorded session, from                       *)
(* crates/mcptracer-model/src/lib.rs: correlate pairs the requests of a    *)
(* seq-ordered message log with their responses, validate_session lists    *)
(* what makes the log unfit for a regression gate, compute_stats           *)
(* aggregates it.                                                          *)
(*                                                                         *)
(* A message adds to the fields RedactionContext reads (seq, dir, id)      *)
(*   ts      its timestamp                                                 *)
(*   kind    the stored message kind                                       *)
(*   method  what correlate tells apart of the method, one of Methods      *)
(*   tool    the tool name, or NoTool                                      *)
(*   err     is_error, with its error code                                 *)
(*   toolErr whether the payload says result.isError = true                *)
(*   target  the id a cancellation or an acknowledgment names in its       *)
(*           payload, NoId when that is neither a string nor a number      *)
(*   valid   whether the stored payload parses as JSON                     *)
(***************************************************************************)
EXTENDS RedactionContext, SequencesExt

CONSTANT NoTool

Kinds == {"request", "response", "notification"}

\* initialize, tools/list, tools/call, prompts/get, resources/read, subscriptions/listen, notifications/cancelled,
\* notifications/subscriptions/acknowledged, and every other method.
Methods == {"initialize", "list", "call", "prompt", "resource", "listen", "cancelled", "acknowledged",
            "other", "none"}

\* ExchangeStatus
Statuses == {"Ok", "Error", "ToolError", "Subscribed", "Cancelled", "Unanswered", "OrphanResponse"}

NoTime == -1     \* latency_ns: None, and no timestamp

\* A request that was just seen.
OpenExchange(m) ==
    [req |-> m.seq, resp |-> NoSeq, id |-> m.id, origin |-> m.dir, method |-> m.method,
     tool |-> m.tool, status |-> "Unanswered", latency |-> NoTime, begun |-> m.ts]

\* A response whose request is not in the log.
OrphanExchange(m) ==
    [req |-> NoSeq, resp |-> m.seq, id |-> m.id, origin |-> Opposite(m.dir), method |-> "none",
     tool |-> NoTool, status |-> "OrphanResponse", latency |-> NoTime, begun |-> NoTime]

\* SessionModel while correlate builds it; pending maps the direction and the
\* id a response must have to the place of the exchange it would complete.
EmptyModel == [exchanges |-> <<>>, notifications |-> <<>>, pending |-> <<>>]

Forget(pending, key) == Restrict(pending, DOMAIN pending \ {key})

\* Mutant: the older request keeps the id.
OlderKeepsId(model, m) ==
    [model EXCEPT
        !.exchanges = Append(@, OpenExchange(m)),
        !.pending   = IF m.id = NoId THEN @
                      ELSE @ @@ (<<Opposite(m.dir), m.id>> :> Len(model.exchanges) + 1)]

\* A newer request claims an id that is already in flight.
SeeRequest(model, m) ==
    [model EXCEPT
        !.exchanges = Append(@, OpenExchange(m)),
        !.pending   = IF m.id = NoId THEN @
                      ELSE (<<Opposite(m.dir), m.id>> :> Len(model.exchanges) + 1) @@ @]

ResponseStatus(exchange, m) ==
    IF m.err THEN "Error"
    ELSE IF exchange.method = "call" /\ m.toolErr THEN "ToolError" ELSE "Ok"

Complete(exchange, m) ==
    [exchange EXCEPT !.resp = m.seq, !.status = ResponseStatus(exchange, m),
                     !.latency = m.ts - exchange.begun]

SeeResponse(model, m) ==
    LET key == <<m.dir, m.id>>
    IN  IF m.id # NoId /\ key \in DOMAIN model.pending
        THEN [model EXCEPT !.exchanges[model.pending[key]] = Complete(@, m),
                           !.pending = Forget(@, key)]
        ELSE [model EXCEPT !.exchanges = Append(@, OrphanExchange(m))]

\* notifications/cancelled comes from the request's originator.
Cancels(model, m) ==
    m.method = "cancelled" /\ m.valid /\ m.target # NoId
        /\ <<Opposite(m.dir), m.target>> \in DOMAIN model.pending

\* The acknowledgment of a client's subscriptions/listen; the request stays
\* pending, a later response still completes it.
Acknowledges(model, m) ==
    /\ m.method = "acknowledged" /\ m.dir = "s2c" /\ m.valid /\ m.target # NoId
    /\ <<m.dir, m.target>> \in DOMAIN model.pending
    /\ LET exchange == model.exchanges[model.pending[<<m.dir, m.target>>]]
       IN  exchange.origin = "c2s" /\ exchange.method = "listen"

SeeNotification(model, m) ==
    LET noted == [model EXCEPT !.notifications = Append(@, m.seq)]
        reply == <<Opposite(m.dir), m.target>>
    IN  IF Cancels(model, m)
        THEN [noted EXCEPT !.exchanges[model.pending[reply]].status = "Cancelled",
                           !.pending = Forget(@, reply)]
        ELSE IF Acknowledges(model, m)
        THEN [noted EXCEPT !.exchanges[model.pending[<<m.dir, m.target>>]].status = "Subscribed"]
        ELSE noted

\* An unknown direction or kind is skipped.
SeeMessage(model, m) ==
    CASE m.dir \notin Direction    -> model
      [] m.kind = "request"        -> SeeRequest(model, m)
      [] m.kind = "response"       -> SeeResponse(model, m)
      [] m.kind = "notification"   -> SeeNotification(model, m)
      [] OTHER                     -> model

\* Exchanges are listed by request seq, orphans by their response seq.
FirstSeq(exchange) == IF exchange.req # NoSeq THEN exchange.req ELSE exchange.resp

correlate(messages) ==
    LET model == FoldLeft(SeeMessage, EmptyModel, messages)
    IN  [exchanges     |-> SortSeq(model.exchanges, LAMBDA x, y : FirstSeq(x) < FirstSeq(y)),
         notifications |-> model.notifications]

-----------------------------------------------------------------------------
\* SessionIntegrityIssueKind
IssueKinds ==
    {"EmptySession", "SessionNotClosed", "DroppedMessages", "NonMonotonicSequence",
     "InvalidPayload", "InvalidRedactionConfiguration", "UnredactedSensitiveValue",
     "UnknownDirection", "UnknownMessageKind", "UnansweredRequest", "OrphanResponse"}

Issue(kind, seq) == [kind |-> kind, seq |-> seq]

IssueIf(condition, kind, seq) == IF condition THEN {Issue(kind, seq)} ELSE {}

\* What is wrong with the i-th message taken by itself and after the one before.
MessageIssues(messages, i) ==
    LET m == messages[i]
    IN  UNION {IssueIf(i > 1 /\ m.seq <= messages[IF i > 1 THEN i - 1 ELSE i].seq,
                       "NonMonotonicSequence", m.seq),
               IssueIf(m.dir \notin Direction, "UnknownDirection", m.seq),
               IssueIf(m.kind \notin Kinds, "UnknownMessageKind", m.seq),
               IssueIf(~m.valid, "InvalidPayload", m.seq)}

\* A request nothing answered, a response nothing asked for.
ExchangeIssue(exchange) ==
    IssueIf(exchange.status = "Unanswered", "UnansweredRequest", exchange.req)
        \cup IssueIf(exchange.status = "OrphanResponse", "OrphanResponse", exchange.resp)

validate_session(messages, dropped) ==
    LET exchanges == correlate(messages).exchanges
    IN  UNION {IssueIf(messages = <<>>, "EmptySession", NoSeq),
               IssueIf(dropped > 0, "DroppedMessages", NoSeq),
               UNION {MessageIssues(messages, i) : i \in DOMAIN messages},
               UNION {ExchangeIssue(exchanges[i]) : i \in DOMAIN exchanges}}

-----------------------------------------------------------------------------
CountOf(exchanges, statuses) == Len(SelectSeq(exchanges, LAMBDA e : e.status \in statuses))

\* Nearest rank: the ceil(percent * n / 100)-th of n sorted values, never
\* before the first nor after the last.
percentile(sorted, percent) ==
    LET n    == Len(sorted)
        rank == (percent * n + 99) \div 100
    IN  IF n = 0 THEN NoTime ELSE sorted[IF rank = 0 THEN 1 ELSE IF rank > n THEN n ELSE rank]

\* The calls per tool, most called first, ties by name; ToolOrder lists the
\* tool names alphabetically.
ToolCounts(exchanges, ToolOrder) ==
    LET count(t) == Len(SelectSeq(exchanges, LAMBDA e : e.tool = t))
        place(t) == CHOOSE i \in DOMAIN ToolOrder : ToolOrder[i] = t
        called   == SelectSeq(ToolOrder, LAMBDA t : count(t) > 0)
    IN  SortSeq([i \in DOMAIN called |-> <<called[i], count(called[i])>>],
                LAMBDA x, y : x[2] > y[2] \/ (x[2] = y[2] /\ place(x[1]) < place(y[1])))

compute_stats(exchanges, notifications, ToolOrder) ==
    LET answered  == SelectSeq(exchanges, LAMBDA e : e.latency # NoTime)
        latencies == SortSeq([i \in DOMAIN answered |-> answered[i].latency], <)
    IN  [total_exchanges  |-> Len(exchanges),
         notifications    |-> Len(notifications),
         ok               |-> CountOf(exchanges, {"Ok", "Subscribed"}),
         errors           |-> CountOf(exchanges, {"Error", "ToolError"}),
         cancelled        |-> CountOf(exchanges, {"Cancelled"}),
         unanswered       |-> CountOf(exchanges, {"Unanswered"}),
         orphan_responses |-> CountOf(exchanges, {"OrphanResponse"}),
         latency_p50      |-> percentile(latencies, 50),
         latency_p95      |-> percentile(latencies, 95),
         latency_max      |-> IF latencies = <<>> THEN NoTime ELSE Last(latencies),
         tool_call_counts |-> ToolCounts(exchanges, ToolOrder)]
=============================================================================
