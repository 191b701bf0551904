-------------------------------- MODULE Analysis --------------------------------
(***************************************************************************)
(* What the analyses promise: the diff gate, the schema explanations, the  *)
(* redactor, the stream decoders and the mock server are pure functions of *)
(* recorded evidence.  Each property compares one of them with a reference *)
(* definition, or two of them with each other; the actions only enumerate  *)
(* their inputs.  `part` says which analysis a behaviour is about, and     *)
(* left and right are its inputs:                                          *)
(*   sessions  a recorded session and an edited copy of it                 *)
(*   schemas   a tool's input schema and an edited copy of it              *)
(*   payloads  a schema in a tools/list answer, and the policy and the     *)
(*             context it is masked by                                     *)
(*   streams   a byte stream, and the chunks it arrives in                 *)
(*   mocks     a recorded session, and the requests a live client sends    *)
(***************************************************************************)
EXTENDS SchemaChange, SessionHealth, Redaction, Framing, MockServer

CONSTANTS
    Sessions,        \* recorded sessions
    RequestBodies,   \* what a request or a notification of the copy may carry instead
    ResponseBodies,  \* what a response of the copy may carry instead
    Schemas,         \* input schemas
    Keywords,        \* the values an edit gives a schema keyword (Absent removes it)
    PropertySchemas, \* the values an edit gives a property's schema
    Instances,       \* the JSON values a schema is tried on
    Hidden,          \* the values a masked schema may hold under a keyword
    PolicyChoices,   \* the redaction options of a command line
    Lines,           \* the lines of a stream
    Mocked,          \* sessions to serve
    Asked,           \* live requests
    MaxEdits, MaxLines, MaxCuts, MaxAsked

VARIABLES part, left, right, edits
vars == <<part, left, right, edits>>

-----------------------------------------------------------------------------
(* The inputs. *)

Start(p, a, b) == part = p /\ left = a /\ right = b /\ edits = 0

Init ==
    \/ \E s \in Sessions : Start("sessions", s, s)
    \/ \E s \in Schemas : Start("schemas", s, s)
    \/ \E choice \in PolicyChoices, context \in Context :
           Start("payloads", Object(<<>>), [choice |-> choice, context |-> context])
    \/ Start("streams", <<>>, <<>>)
    \/ \E s \in Mocked : Start("mocks", s, <<>>)

Edit(p, bound) == part = p /\ edits < bound /\ edits' = edits + 1 /\ UNCHANGED part

Renumber(log) == [i \in DOMAIN log |-> [log[i] EXCEPT !.seq = i - 1]]

\* A message with another body, and the columns that are derived from it.
WithBody(m, body) ==
    IF m.kind # "response" THEN [m EXCEPT !.payload = body]
    ELSE [m EXCEPT !.payload = body, !.err = Get(body, "error") # Absent,
                   !.toolErr = Get(Get(body, "result"), "isError") = Flag(TRUE),
                   !.shape = IF Get(body, "error") = Absent THEN "result" ELSE "unmatched"]

DropMessage ==
    /\ Edit("sessions", MaxEdits) /\ UNCHANGED left
    /\ \E i \in DOMAIN right : right' = Renumber(RemoveAt(right, i))

SwapMessages ==
    /\ Edit("sessions", MaxEdits) /\ UNCHANGED left
    /\ \E i \in 1..(Len(right) - 1) :
           right' = Renumber([right EXCEPT ![i] = right[i + 1], ![i + 1] = right[i]])

ChangeBody ==
    /\ Edit("sessions", MaxEdits) /\ UNCHANGED left
    /\ \E i \in DOMAIN right :
           /\ right[i].method \notin {"cancelled", "acknowledged"}
           /\ \E body \in IF right[i].kind = "response" THEN ResponseBodies ELSE RequestBodies :
                  right' = [right EXCEPT ![i] = WithBody(@, body)]

\* An object with one member set or removed.
Put(v, key, value) ==
    Object(IF value = Absent THEN Restrict(v.kids, DOMAIN v.kids \ {key}) ELSE (key :> value) @@ v.kids)

ChangeKeyword ==
    /\ Edit("schemas", MaxEdits) /\ UNCHANGED left
    /\ \E key \in DOMAIN Keywords : \E value \in Keywords[key] : right' = Put(right, key, value)

ChangeProperty ==
    /\ Edit("schemas", MaxEdits) /\ UNCHANGED left
    /\ \E schema \in PropertySchemas :
           LET known == Get(right, "properties")
           IN  right' = Put(right, "properties", Put(IF known.type = "object" THEN known ELSE Object(<<>>), "x", schema))

HideValue ==
    /\ Edit("payloads", MaxEdits) /\ UNCHANGED right
    /\ \E key \in DOMAIN Hidden : \E value \in Hidden[key] : left' = Put(left, key, value)

AddLine ==
    /\ Edit("streams", MaxLines) /\ Len(right) <= 1
    /\ \E line \in Lines : left' = left \o line /\ right' = <<left \o line>>

CutChunk ==
    /\ Edit("streams", MaxLines + MaxCuts)
    /\ edits >= MaxLines
    /\ \E i \in DOMAIN right : \E j \in 1..(Len(right[i]) - 1) :
           right' = SubSeq(right, 1, i - 1)
                        \o <<SubSeq(right[i], 1, j), SubSeq(right[i], j + 1, Len(right[i]))>>
                        \o SubSeq(right, i + 1, Len(right))
    /\ UNCHANGED left

Ask ==
    /\ Edit("mocks", MaxAsked) /\ UNCHANGED left
    /\ \E live \in Asked : right' = Append(right, live)

Next == \/ DropMessage \/ SwapMessages \/ ChangeBody \/ ChangeKeyword \/ ChangeProperty
        \/ HideValue \/ AddLine \/ CutChunk \/ Ask

Spec == Init /\ [][Next]_vars

-----------------------------------------------------------------------------
(* The diff gate. *)

Options == [ignored |-> {}, volatile |-> {"timestamp"}, ignore_latency |-> TRUE,
            threshold_pct |-> 20, threshold_ns |-> 1]

\* Reference: the requests of a log in order.
Requests(log) == SelectSeq([i \in DOMAIN log |-> i], LAMBDA i : log[i].kind = "request")

\* Reference: the messages that can still settle the request at place i, up to
\* the next request that reuses its id.
Claimed(log, i) ==
    {j \in (i + 1)..Len(log) :
        ~\E k \in (i + 1)..j : log[k].kind = "request" /\ log[k].dir = log[i].dir /\ log[k].id = log[i].id}

Settles(log, i, j) ==
    \/ log[j].kind = "response" /\ log[j].dir # log[i].dir /\ log[j].id = log[i].id
    \/ log[j].method = "cancelled" /\ log[j].dir = log[i].dir /\ log[j].target = log[i].id

Acknowledged(log, i) ==
    /\ log[i].method = "listen" /\ log[i].dir = "c2s"
    /\ \E j \in Claimed(log, i) :
           log[j].method = "acknowledged" /\ log[j].dir = "s2c" /\ log[j].target = log[i].id

Without(v, key) == IF Get(v, key) = Absent THEN v ELSE Object(Restrict(v.kids, DOMAIN v.kids \ {key}))

\* Reference: what one request asked and what became of it.
Step(log, i) ==
    LET settling == {j \in Claimed(log, i) : Settles(log, i, j)}
        j        == CHOOSE k \in settling : \A l \in settling : k <= l
        asked    == Without(Get(log[i].payload, "params"), "timestamp")
        status   == IF settling = {} THEN IF Acknowledged(log, i) THEN "Subscribed" ELSE "Unanswered"
                    ELSE IF log[j].kind # "response" THEN "Cancelled"
                    ELSE IF log[j].err THEN "Error"
                    ELSE IF log[i].method = "call" /\ log[j].toolErr THEN "ToolError" ELSE "Ok"
        answer   == CASE status \in {"Ok", "ToolError"} -> Without(Get(log[j].payload, "result"), "timestamp")
                      [] status = "Error"               -> Get(log[j].payload, "error")
                      [] OTHER                          -> Absent
    IN  <<log[i].dir, log[i].method, log[i].tool, status,
          IF asked = Absent THEN Null
          ELSE IF GetText(asked, "requestState") = Absent THEN asked ELSE Put(asked, "requestState", OpaqueState),
          IF Get(answer, "resultType") = Text("input_required") THEN Without(answer, "requestState") ELSE answer>>

Trace(log) == LET places == Requests(log) IN [n \in DOMAIN places |-> Step(log, places[n])]

Notices(log) ==
    [base \in Direction \X Methods |->
        LET own == SelectSeq(log, LAMBDA m : m.kind = "notification" /\ <<m.dir, m.method>> = base)
        IN  [n \in DOMAIN own |-> Without(own[n].payload, "timestamp")]]

\* The first place at which two sequences differ, 0 when they are equal.
FirstDifference(a, b) ==
    LET places == {n \in DOMAIN a \cup DOMAIN b : n > Len(a) \/ n > Len(b) \/ (n <= Len(a) /\ n <= Len(b) /\ a[n] # b[n])}
    IN  IF places = {} THEN 0 ELSE CHOOSE n \in places : \A k \in places : n <= k

\* The diff gate reports nothing exactly when the two sessions asked the same,
\* were answered the same, notified the same and offered the same tools, and the
\* point of divergence is the first request whose story differs: aligning by
\* ordinal keys, in two independent passes, agrees with comparing the stories
\* one by one (diff_sessions, compute_point_of_divergence, correlate).
DiffAgreesWithTraces ==
    part = "sessions" =>
        LET report == diff_sessions(left, right, Options)
            first  == FirstDifference(Trace(left), Trace(right))
        IN  /\ report.point_of_divergence.step = first - 1
            /\ is_empty(report) <=>
                   /\ first = 0 /\ Notices(left) = Notices(right)
                   /\ extract_tool_catalog(left).tools = extract_tool_catalog(right).tools

-----------------------------------------------------------------------------
(* Masking. *)

DefaultPolicy == Policy("default", {})

\* A session as the recorder would have stored it under the default policy.
MaskLog(log) ==
    [i \in DOMAIN log |->
        [log[i] EXCEPT !.payload = redact_with_context(@, DefaultPolicy,
                                       ObserveContext(TrackerBefore(log, i), log[i]), FALSE)]]

Changed(report) == {entry[1] : entry \in report.changed}

\* Reference: the fields of a tool's definition that hold a value under a
\* sensitive key.  The name of a property is no value; its default is.
HoldsValue(tool) ==
    LET named(v)    == \E k \in SensitiveKeys : Get(v, k) # Absent
        defaults(f) == {Get(Get(Get(tool[f], "properties"), k), "default") : k \in PropertyNames(tool[f])}
    IN  {f \in {"inputSchema", "outputSchema"} : \E v \in defaults(f) \cup {Get(tool[f], "default")} : named(v)}
            \cup {f \in {"annotations"} : named(tool[f])}

\* The findings that masking may bring about: diff_tools compares with !=, so a
\* value masked inside a tool definition is a change of that field.
DriftOfValues(log) ==
    LET tools == extract_tool_catalog(log).tools
    IN  UNION {{<<f, t>> : f \in HoldsValue(tools[t])} : t \in DOMAIN tools}

\* Recording one of two sessions with --redact adds no difference to their diff: a
\* masked value equals any other, and the request context keeps the property
\* names of tool schemas out of the mask.  The exception is stated: a default or
\* an annotation of a tool that holds a sensitive value becomes tool drift
\* (Redactor, RedactionContextTracker, compare_values, diff_tools).
MaskingAddsNoDifference ==
    part = "sessions" =>
        LET plain  == diff_sessions(left, right, Options)
            masked == diff_sessions(MaskLog(left), right, Options)
        IN  /\ Changed(masked) \subseteq Changed(plain)
            /\ masked.added = plain.added /\ masked.removed = plain.removed
            /\ masked.security \subseteq plain.security \cup DriftOfValues(left)
            /\ masked.point_of_divergence # NoDivergence => plain.point_of_divergence # NoDivergence

\* docs/spec/diff.md:67-68: "Redaction placeholders ... compare equal to anything",
\* a redacted field is unknown, not a difference: masking brings no tool drift.
MaskingIsNoDrift ==
    part = "sessions" =>
        diff_sessions(MaskLog(left), right, Options).security \subseteq diff_sessions(left, right, Options).security

\* A tools/list answer with this schema, and a description that looks like a credential.
ToolList(schema) ==
    Object("result" :> Object("tools" :> Array(<<Object(
        ("name" :> Text("t")) @@ ("description" :> Text("bearer")) @@ ("inputSchema" :> schema))>>)))

\* What the recorder masks, under the policy its command line names, passes the
\* check that validation makes under the policy read back from the session's
\* row, in either context; masking again changes nothing, by type or not, and
\* masking brings no new finding to the export lint (from_cli, from_storage,
\* redact_with_context, unredacted_sensitive_keys_with_context).
MaskedIsClean ==
    part = "payloads" =>
        LET policy == from_cli(right.choice.name, right.choice.extra)
            stored == from_storage(policy.name, policy.extra)
            plain  == ToolList(left)
            masked == redact_with_context(plain, policy, right.context, FALSE)
            typed  == redact_with_context(plain, policy, right.context, TRUE)
        IN  policy # BadPolicy =>
                /\ stored = policy
                /\ unredacted_sensitive_keys_with_context(masked, stored, right.context) = {}
                /\ redact_with_context(masked, stored, right.context, FALSE) = masked
                /\ redact_with_context(typed, stored, right.context, TRUE) = typed
                /\ walk_lint(masked, <<>>) \subseteq walk_lint(plain, <<>>)

-----------------------------------------------------------------------------
(* Schema explanations. *)

\* Reference: JSON Schema's meaning of the keywords the analyzer knows.
HasType(v, t) == v.type = t \/ (t = "number" /\ v.type = "integer")

RECURSIVE Accepts(_, _)
Accepts(schema, v) ==
    LET types    == Get(schema, "type")
        enum     == Get(schema, "enum")
        required == Get(schema, "required")
        declared == Get(schema, "properties")
        extra    == Get(schema, "additionalProperties")
        own(k)   == IF Get(declared, k) # Absent THEN Accepts(Get(declared, k), v.kids[k])
                    ELSE CASE extra \in {Absent, Flag(TRUE)} -> TRUE
                           [] extra = Flag(FALSE)            -> FALSE
                           [] OTHER                          -> Accepts(extra, v.kids[k])
    IN  /\ types.type = "string" => HasType(v, types.text)
        /\ types.type = "array"  => \E t \in ToSet(types.items) : HasType(v, t.text)
        /\ enum # Absent         => v \in ToSet(enum.items)
        /\ v.type = "object"     => /\ required # Absent => \A k \in ToSet(required.items) : k.text \in DOMAIN v.kids
                                    /\ \A k \in DOMAIN v.kids : own(k)

Catalog(schema) == [tools    |-> "t" :> [f \in ToolFields |-> IF f = "inputSchema" THEN schema ELSE Absent],
                    complete |-> TRUE]

Explained == explain_tool_schema_changes(Catalog(left), Catalog(right))

\* The analyzer looks at a property by itself: it does not see that one which is
\* no longer declared now falls under additionalProperties.
Undeclared ==
    /\ PropertyNames(left) \ PropertyNames(right) # {}
    /\ parse_additional_properties(Get(right, "additionalProperties")) # "Allow"

SchemaValued ==
    /\ Get(left, "additionalProperties").type = "object"
    /\ Get(right, "additionalProperties").type = "object"
    /\ Get(left, "additionalProperties") # Get(right, "additionalProperties")

\* When every finding about an input schema is potentially non-breaking, the new
\* schema accepts all that the old one accepted; save for the two shapes the
\* analyzer does not relate (explain_tool_schema_changes, analyze_schema_node).
WideningClaimsAreSound ==
    (/\ part = "schemas" /\ Explained.status = "Complete" /\ ~Undeclared /\ ~SchemaValued
     /\ \A found \in Explained.findings : found.class = "PotentiallyNonBreaking")
    => \A v \in Instances : Accepts(left, v) => Accepts(right, v)

\* "schema-valued additionalProperties ... Emit unclassified with the pointer and
\* keyword names" (docs/spec/schema-change-explanations.md:80-84): such a change
\* never goes without a finding that says so.
SchemaValuedIsUnclassified ==
    part = "schemas" /\ SchemaValued /\ Explained.status = "Complete"
        => \E found \in Explained.findings : found.class = "Unclassified"

-----------------------------------------------------------------------------
(* Streams and the mock server. *)

\* The events of an SSE stream do not depend on how it is cut into chunks, none
\* holds more than a frame, and a stdio reader takes a prefix of the frames it
\* would take from the whole, all of them unless it gave up (SseDecoder,
\* parse_stdio_frame).
ChunkingIsInvisible ==
    part = "streams" =>
        LET whole == StdioFrames(<<left>>)
            cut   == StdioFrames(right)
        IN  /\ SseEvents(right) = SseEvents(<<left>>)
            /\ \A n \in DOMAIN SseEvents(right) : Len(SseEvents(right)[n].data) <= MaxFrameBytes
            /\ IsPrefix(cut.frames, whole.frames)
            /\ ~cut.failed => cut.frames = whole.frames

\* The live requests that repeat, in order, what the session can serve.
Repeats(requests, inventory) ==
    Len(requests) <= Len(inventory) /\ \A n \in DOMAIN requests :
        LET asked == At(left, inventory[n].req)
        IN  requests[n].id # NoId /\ requests[n].valid /\ requests[n].method = asked.method
                /\ requests[n].tool = asked.tool /\ Params(requests[n]) = Params(asked)

\* The mock server answers each request once with its own id, serves no recorded
\* response twice, under every strategy but two only responses to the same
\* method and tool, and gives a client that repeats the recorded requests the
\* recorded responses in order (MockSession::match_request, handle_request).
RepliesAreRecorded ==
    part = "mocks" => \A strategy \in Strategies, strict \in BOOLEAN :
        LET server  == Served(left, strategy, strict, right)
            hits    == SelectSeq(server.sent, LAMBDA reply : reply.of # 0)
            asks    == SelectSeq(right, LAMBDA m : m.valid /\ m.method # "none" /\ m.id # NoId)
            of(n)   == At(left, server.inventory[server.sent[n].of].req)
        IN  /\ \A m, n \in DOMAIN hits : hits[m].of = hits[n].of => m = n
            /\ IsPrefix([n \in DOMAIN server.sent |-> server.sent[n].id], [n \in DOMAIN asks |-> asks[n].id])
            /\ ~server.failed => Len(server.sent) = Len(asks)
            /\ strategy \notin {"Method", "Sequential"} => \A n \in DOMAIN server.sent :
                   server.sent[n].of # 0 => of(n).method = asks[n].method /\ of(n).tool = asks[n].tool
            /\ Repeats(right, server.inventory) /\ server.inventory # <<>> =>
                   server.sent = [n \in DOMAIN right |-> [id |-> right[n].id, of |-> n]]
=============================================================================
