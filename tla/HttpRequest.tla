------------------------------ MODULE HttpRequest ------------------------------
(***************************************************************************)
(* What replay-http checks and derives before it sends or records a        *)
(* message: routing headers, multi-round-trip retries and subscription     *)
(* frames, crates/mcptracer-proxy/src/commands/replay_http.rs.             *)
(*                                                                         *)
(* A message adds to the fields of ReplayPlan                              *)
(*   modern   it names its protocol version in _meta                       *)
(*   named    its params carry the name or uri its method needs            *)
(*   args     its arguments, a function from property paths to types       *)
(*   lists    for a tools/list result, the input schema of each tool, the  *)
(*            sequence of its x-mcp-header annotations                     *)
(*   body     the request without id, inputResponses and requestState      *)
(*   keys     the keys of inputResponses, or of inputRequests in a result  *)
(*   state    requestState, NoState when it has none                       *)
(*   sub      the subscription a notification is tagged with, or NoId      *)
(*   topics   the filter of a listen request or of an acknowledgment       *)
(*   topic    what a notification is about: a list, or one resource        *)
(***************************************************************************)
EXTENDS SessionHealth, ReplayPlan

CONSTANTS NoState, MaxRounds      \* MAX_MRTR_ROUNDS

\* Header and argument types, ToolParamType.
ToolParamTypes == {"string", "integer", "boolean"}

\* is_tools_list_response: the last client message with its id asked for it.
is_tools_list_response(messages, i) ==
    LET asked == {j \in 1 .. i - 1 : messages[j].dir = "c2s" /\ messages[j].id = messages[i].id}
        last  == CHOOSE j \in asked : \A k \in asked : k <= j
    IN  /\ messages[i].id # NoId /\ asked # {}
        /\ messages[last].kind = "request" /\ messages[last].method = "list"

\* visit_schema: only a typed property with a header name of its own may carry one.
collect_tool_header_bindings(schema) ==
    [valid    |-> /\ \A i \in DOMAIN schema : /\ schema[i].property /\ schema[i].token
                                              /\ schema[i].type \in ToolParamTypes
                  /\ \A i, j \in DOMAIN schema : schema[i].header = schema[j].header => i = j,
     bindings |-> Range(schema)]

\* tool_header_bindings_at: the latest tools/list result before the call must
\* define the tool.
tool_header_bindings_at(messages, seq, tool) ==
    LET lists == {i \in DOMAIN messages :
                    /\ messages[i].seq < seq /\ messages[i].dir = "s2c"
                    /\ is_tools_list_response(messages, i) /\ messages[i].lists # <<>>}
        last  == CHOOSE i \in lists : \A j \in lists : j <= i
    IN  IF lists = {} \/ tool \notin DOMAIN messages[last].lists
        THEN [valid |-> FALSE, bindings |-> {}]
        ELSE collect_tool_header_bindings(messages[last].lists[tool])

\* insert_tool_headers: an argument that is present must have its declared type.
ToolHeaders(request, bindings) ==
    {b \in bindings : b.path \in DOMAIN request.args}

build_request_headers(messages, seq, request, session) ==
    LET tool  == request.modern /\ request.method = "call"
        found == tool_header_bindings_at(messages, seq, request.tool)
        kept  == ToolHeaders(request, found.bindings)
    IN  [valid   |-> /\ tool => request.named /\ found.valid
                     /\ tool => \A b \in kept : request.args[b.path] = b.type
                     /\ request.modern => request.named,
         params  |-> IF tool THEN {b.header : b \in kept} ELSE {},
         session |-> IF request.modern THEN NoId ELSE session]

-----------------------------------------------------------------------------
\* is_mrtr_capable_request
is_mrtr_capable_request(request) ==
    request.modern /\ request.method \in {"call", "prompt", "resource"}

\* build_mrtr_retry_request: the recorded retry must repeat the request and
\* answer what the target asks.
RetryFits(original, retry, required) ==
    /\ retry.method = original.method /\ retry.body = original.body
    /\ retry.keys = required.keys
    /\ (retry.state = NoState) <=> (required.state = NoState)

\* Fault: the retry is sent with the recorded state.
KeepRecordedState(retry, required, id) == [retry EXCEPT !.id = id]

\* The target's live state and a fresh id replace the recorded ones.
build_mrtr_retry_request(retry, required, id) ==
    [retry EXCEPT !.state = required.state, !.id = id]

-----------------------------------------------------------------------------
\* validate_subscription_acknowledgment, subscription_acknowledgment_filter
IsAcknowledgment(frame, id, requested) ==
    /\ frame.kind = "notification" /\ frame.sub = id
    /\ frame.method = "acknowledged" /\ frame.topics \subseteq requested

\* validate_subscription_notification for the frames after the first.
IsNotification(frame, id, accepted) ==
    /\ frame.kind = "notification" /\ frame.sub = id
    /\ frame.method # "acknowledged" /\ frame.topic \in accepted

\* is_subscription_terminal_response
IsTerminal(frame, id) == frame.kind = "response" /\ frame.id = id

\* subscription_expectation: the recorded stream of a listen request, an
\* acknowledgment and then notifications it allows.
subscription_expectation(messages, listen) ==
    LET tagged   == SelectSeq(messages, LAMBDA m : m.dir = "s2c" /\ m.sub = listen.id)
        accepted == IF tagged = <<>> THEN {} ELSE tagged[1].topics
    IN  [valid    |-> /\ tagged # <<>> /\ listen.id # NoId
                      /\ \A i \in DOMAIN messages : messages[i].dir = "s2c" => messages[i].valid
                      /\ \A i \in DOMAIN tagged : tagged[i].seq > listen.seq
                      /\ IsAcknowledgment(tagged[1], listen.id, listen.topics)
                      /\ \A i \in 2 .. Len(tagged) : IsNotification(tagged[i], listen.id, accepted),
         requested |-> listen.topics,
         accepted  |-> accepted,
         expected  |-> Len(tagged)]
=============================================================================
