------------------------------- MODULE ReplayHttp -------------------------------
(***************************************************************************)
(* mcptracer replay-http, crates/mcptracer-proxy/src/commands/             *)
(* replay_http.rs: the client's side of a healthy recorded session is      *)
(* POSTed to an HTTP target, one message after the other; each captured    *)
(* subscriptions/listen stream is followed by a task of its own meanwhile. *)
(*                                                                         *)
(* The target is external: it answers with any status, envelope and body,  *)
(* or not at all.  A frame is one SSE event or one JSON body; "bad" is not *)
(* JSON, "oversized" exceeds MAX_FRAME_BYTES, "incomplete" is what a       *)
(* stream that ends inside an event leaves.                                *)
(***************************************************************************)
EXTENDS HttpRequest

CONSTANTS
    Captures,        \* recorded sessions with a tool filter
    Replies,         \* frames the target may send in a response
    Events,          \* frames the target may send on a subscription stream
    MaxReceived      \* bound: frames of either kind

VARIABLES
    capture,         \* the source session
    stage,           \* where run and drive are
    index,           \* driven_index
    rounds,          \* MRTR rounds of the current message
    request,         \* replay_request
    required,        \* input_required of the response that is being read
    session,         \* established_session_id
    subs,            \* subscriptions
    record,          \* the target session
    dropped,         \* dropped_messages
    late,            \* frames offered to a writer that was already closed
    received,        \* frames the target has sent
    refused,         \* a message was rejected with a status that is not 2xx
    result           \* what drive returned

vars == <<capture, stage, index, rounds, request, required, session, subs, record,
          dropped, late, received, refused, result>>

NoRequest == "none"
NoInput == [state |-> NoState, keys |-> {}, asks |-> FALSE]

\* What run reads and selects before it opens the target.
Prepared(c) ==
    [messages |-> c.messages,
     healthy  |-> Healthy(c.summary, c.messages),
     driven   |-> AllowedMessages(c.messages, c.allow, c.deny)]

Driven == capture.driven

\* What the steps and the properties read of a message.
MessageFields == {"seq", "dir", "kind", "id", "method", "modern", "state", "asks", "sub", "topics", "topic", "form"}

\* A client's message asks for no input: input_required is a result.
ASSUME CaptureAssumption ==
    \A c \in Captures :
        LET driven == Prepared(c).driven
        IN  /\ driven \in Seq(Range(driven))
            /\ \A i \in DOMAIN driven :
                  MessageFields \subseteq DOMAIN driven[i] /\ driven[i].dir = "c2s" /\ driven[i].asks = FALSE

\* Only notifications of a stream are tagged with its subscription, and only the
\* body of a response asks for input.
ASSUME FrameAssumption ==
    /\ \A frame \in Replies \cup Events : MessageFields \subseteq DOMAIN frame /\ frame.dir = "s2c"
    /\ \A frame \in Replies : frame.sub = NoId /\ frame.asks \in BOOLEAN
    /\ \A frame \in Events : frame.asks = FALSE /\ (frame.kind # "notification" => frame.sub = NoId)

Init ==
    /\ capture \in {Prepared(c) : c \in Captures}
    /\ stage = "start" /\ index = 1 /\ rounds = 0 /\ request = NoRequest /\ required = NoInput
    /\ session = NoId /\ subs = <<>> /\ record = <<>> /\ dropped = 0 /\ late = 0 /\ received = 0
    /\ refused = FALSE /\ result = "none"

-----------------------------------------------------------------------------
\* record_bytes: a frame that does not parse is counted instead.
Store(to, m) == Append(to, [m EXCEPT !.seq = Len(to)])

\* The storage writer takes frames until finish_storage_writer.
Capture(frame) ==
    IF stage = "ended" THEN late' = late + 1 /\ UNCHANGED <<record, dropped>>
    ELSE IF frame.form = "json" THEN record' = Store(record, frame) /\ UNCHANGED <<dropped, late>>
    ELSE dropped' = dropped + 1 /\ UNCHANGED <<record, late>>

\* Dropping ActiveSubscription aborts its task without waiting for it.
Aborting(s) == [i \in DOMAIN s |-> IF s[i].task = "running" THEN [s[i] EXCEPT !.task = "aborting"] ELSE s[i]]

\* drive returns; run goes on to the termination request.
Return(value) == result' = value /\ stage' = IF session' = NoId THEN "finish" ELSE "deleting"

Fail == Return("error") /\ subs' = Aborting(subs)

\* require_healthy_session and the selection of the messages.
RefuseSource ==
    /\ stage = "start"
    /\ ~capture.healthy \/ Driven = <<>>
    /\ stage' = "ended" /\ result' = "error"
    /\ UNCHANGED <<capture, index, rounds, request, required, session, subs, record, dropped, late,
                   received, refused>>

OpenTarget ==
    /\ stage = "start" /\ capture.healthy /\ Driven # <<>>
    /\ stage' = "next"
    /\ UNCHANGED <<capture, index, rounds, request, required, session, subs, record, dropped, late,
                   received, refused, result>>

IsListen(m) == m.modern /\ m.method = "listen"

\* The next driven message, or the wait for the subscriptions at the end.
TakeMessage ==
    /\ stage = "next"
    /\ IF index > Len(Driven) THEN stage' = "settling" /\ UNCHANGED <<request, rounds>>
       ELSE /\ request' = Driven[index] /\ rounds' = 0
            /\ stage' = IF IsListen(Driven[index]) THEN "listen" ELSE "post"
    /\ UNCHANGED <<capture, index, required, session, subs, record, dropped, late, received, refused, result>>

\* The headers of the request as it stands, then the message is recorded.
Post ==
    /\ stage = "post"
    /\ LET headers == build_request_headers(capture.messages, Driven[index].seq, request, session)
       IN  IF headers.valid
           THEN /\ record' = Store(record, request)
                /\ stage' = "posting" /\ required' = NoInput
                /\ UNCHANGED <<subs, result, session>>
           ELSE UNCHANGED <<record, required, session>> /\ Fail
    /\ UNCHANGED <<capture, index, rounds, request, dropped, late, received, refused>>

\* handle_response up to the body: any of the responses may assign a session.
Respond ==
    /\ stage = "posting"
    /\ session' \in IF session = NoId THEN {NoId, "session"} ELSE {session}
    /\ \/ stage' \in {"json", "sse"} /\ UNCHANGED <<subs, result, refused>>
       \/ stage' = "rejecting" /\ refused' = TRUE /\ UNCHANGED <<subs, result>>
       \/ \* another envelope: fine for a notification or a 202
          stage' = "checking" /\ UNCHANGED <<subs, result, refused>>
       \/ request.kind = "request" /\ Fail /\ UNCHANGED refused
    /\ index' = IF stage' = "checking" THEN index + 1 ELSE index
    /\ UNCHANGED <<capture, rounds, request, required, record, dropped, late, received>>

ConnectionFails ==
    /\ stage \in {"posting", "json", "sse", "opening"} /\ UNCHANGED session /\ Fail
    /\ UNCHANGED <<capture, index, rounds, request, required, record, dropped, late, received, refused>>

\* request_timeout: the message counts as unanswered and the run goes on.
Expire ==
    /\ stage \in {"posting", "json", "sse", "rejecting"}
    /\ stage' = "checking" /\ index' = index + 1
    /\ UNCHANGED <<capture, rounds, request, required, session, subs, record, dropped, late, received,
                   refused, result>>

\* The body of a rejection was read, within the request's time.
Rejected ==
    /\ stage = "rejecting" /\ UNCHANGED session /\ Fail
    /\ UNCHANGED <<capture, index, rounds, request, required, record, dropped, late, received, refused>>

\* input_required_from_bytes, collect_input_required: at most one per response.
Asks(frame) == frame.form = "json" /\ frame.asks
Contradicts(frame) == frame.form = "json" /\ (frame.broken \/ (frame.asks /\ required.asks))

\* A JSON body, or the next event of an SSE body.
ReadBody ==
    /\ stage \in {"json", "sse"} /\ received < MaxReceived
    /\ \E frame \in Replies :
          LET arrived == [frame EXCEPT !.state = IF Asks(frame) /\ @ # NoState THEN received ELSE @,
                                       !.id = request.id]
          IN  /\ stage = "json" => frame.form # "incomplete"
              /\ Capture(arrived)
              /\ required' = IF Asks(frame) THEN [state |-> arrived.state, keys |-> frame.keys, asks |-> TRUE]
                             ELSE required
              /\ IF Contradicts(frame) THEN UNCHANGED session /\ Fail
                 ELSE /\ UNCHANGED <<session, subs, result>>
                      /\ stage' = IF stage = "json" \/ frame.form = "incomplete" THEN "answered" ELSE "sse"
    /\ received' = received + 1
    /\ UNCHANGED <<capture, index, rounds, request, refused>>

\* An empty JSON body, the end of an SSE stream.
EndBody ==
    /\ stage \in {"json", "sse"}
    /\ stage' = "answered"
    /\ UNCHANGED <<capture, index, rounds, request, required, session, subs, record, dropped, late,
                   received, refused, result>>

RetryId(n) == <<"retry", n>>

CanRetry ==
    /\ is_mrtr_capable_request(request) /\ rounds < MaxRounds /\ index < Len(Driven)
    /\ RetryFits(Driven[index], Driven[index + 1], required)

\* The recorded retry is sent in the place of the next driven message.
AfterRetry == index + 1

Answered ==
    /\ stage = "answered"
    /\ IF ~required.asks
       THEN stage' = "checking" /\ index' = index + 1 /\ UNCHANGED <<rounds, request, session, subs, result>>
       ELSE IF CanRetry
       THEN /\ request' = build_mrtr_retry_request(Driven[index + 1], required, RetryId(Len(record)))
            /\ index' = AfterRetry /\ rounds' = rounds + 1 /\ stage' = "post"
            /\ UNCHANGED <<session, subs, result>>
       ELSE UNCHANGED <<index, rounds, request, session>> /\ Fail
    /\ UNCHANGED <<capture, required, record, dropped, late, received, refused>>

-----------------------------------------------------------------------------
\* start_subscription_replay: the stream's request is recorded and sent.
Listen ==
    LET expectation == subscription_expectation(capture.messages, request)
        headers     == build_request_headers(capture.messages, request.seq, request, NoId)
    IN  /\ stage = "listen"
        /\ IF /\ expectation.valid /\ headers.valid
              /\ \A i \in DOMAIN subs : subs[i].id # request.id
           THEN record' = Store(record, request) /\ stage' = "opening" /\ UNCHANGED <<session, subs, result>>
           ELSE UNCHANGED <<record, session>> /\ Fail
        /\ UNCHANGED <<capture, index, rounds, request, required, dropped, late, received, refused>>

\* The response headers: an event stream, or a refusal whose body is read
\* without a time limit.
ListenAccepted ==
    /\ stage = "opening"
    /\ LET expectation == subscription_expectation(capture.messages, request)
       IN  subs' = Append(subs, [src |-> request.seq, id |-> request.id, requested |-> expectation.requested,
                                 accepted |-> expectation.accepted, expected |-> expectation.expected,
                                 got |-> 0, task |-> "running", ack |-> "none", closed |-> FALSE])
    /\ stage' = "acking"
    /\ UNCHANGED <<capture, index, rounds, request, required, session, record, dropped, late, received,
                   refused, result>>

ListenRefused ==
    /\ stage = "opening" /\ refused' = TRUE /\ stage' = "refusing"
    /\ UNCHANGED <<capture, index, rounds, request, required, session, subs, record, dropped, late,
                   received, result>>

ListenRefusalRead ==
    /\ stage = "refusing" /\ UNCHANGED session /\ Fail
    /\ UNCHANGED <<capture, index, rounds, request, required, record, dropped, late, received, refused>>

\* Another envelope, no headers in time, no acknowledgment in time.
ListenFails ==
    /\ stage \in {"opening", "acking"} /\ UNCHANGED session /\ Fail
    /\ UNCHANGED <<capture, index, rounds, request, required, record, dropped, late, received, refused>>

\* Fault: the listen request counts as acknowledged once its headers are there.
AckAssumed == TRUE

\* The next message waits for the acknowledgment of the stream.
AckArrived == Last(subs).ack = "ok"

Acknowledged ==
    /\ stage = "acking" /\ AckArrived
    /\ stage' = "checking" /\ index' = index + 1
    /\ UNCHANGED <<capture, rounds, request, required, session, subs, record, dropped, late, received,
                   refused, result>>

-----------------------------------------------------------------------------
\* capture_subscription_event: what a frame does to its subscription.
FrameFits(sub, frame) ==
    /\ frame.form = "json" /\ sub.got < sub.expected
    /\ IF sub.got = 0
       THEN IsAcknowledgment(frame, sub.id, sub.requested) /\ frame.topics = sub.accepted
       ELSE IsNotification(frame, sub.id, sub.accepted)

\* The task of a subscription takes a frame; once aborted it may still take
\* what it has already read.
SubscriptionFrame(i) ==
    /\ subs[i].task \in {"running", "aborting"} /\ received < MaxReceived
    /\ \E frame \in Events :
          LET arrived == [frame EXCEPT !.id = IF frame.kind = "response" THEN subs[i].id ELSE @,
                                       !.sub = IF frame.kind = "notification" THEN subs[i].id ELSE @]
          IN  \/ /\ arrived.form = "json" /\ IsTerminal(arrived, subs[i].id)
                 /\ Capture(arrived) /\ UNCHANGED subs
              \/ /\ ~IsTerminal(arrived, subs[i].id) /\ FrameFits(subs[i], arrived)
                 /\ Capture(arrived)
                 /\ subs' = [subs EXCEPT ![i].got = @ + 1, ![i].ack = "ok"]
              \/ /\ ~IsTerminal(arrived, subs[i].id) /\ ~FrameFits(subs[i], arrived)
                 /\ subs' = [subs EXCEPT ![i].task = "error"]
                 /\ UNCHANGED <<record, dropped, late>>
    /\ received' = received + 1
    /\ UNCHANGED <<capture, stage, index, rounds, request, required, session, refused, result>>

\* The stream ends.
SubscriptionEnds(i) ==
    /\ subs[i].task = "running"
    /\ subs' = [subs EXCEPT ![i].task = IF subs[i].got = subs[i].expected THEN "ok" ELSE "error"]
    /\ UNCHANGED <<capture, stage, index, rounds, request, required, session, record, dropped, late,
                   received, refused, result>>

AbortTakesEffect(i) ==
    /\ subs[i].task = "aborting"
    /\ subs' = [subs EXCEPT ![i].task = "aborted"]
    /\ UNCHANGED <<capture, stage, index, rounds, request, required, session, record, dropped, late,
                   received, refused, result>>

\* check_active_subscriptions
Ended(s) == {i \in DOMAIN s : ~s[i].closed /\ s[i].task \in {"ok", "error"}}
CheckFails == \E i \in Ended(subs) : subs[i].task = "error"
Closed(s) == [i \in DOMAIN s |-> [s[i] EXCEPT !.closed = @ \/ i \in Ended(s)]]

CheckSubscriptions ==
    /\ stage = "checking"
    /\ UNCHANGED session
    /\ IF CheckFails THEN Fail ELSE stage' = "next" /\ subs' = Closed(subs) /\ UNCHANGED result
    /\ UNCHANGED <<capture, index, rounds, request, required, record, dropped, late, received, refused>>

\* wait_for_subscriptions: all captured evidence must have come back; then
\* the tasks are aborted and awaited.
AllReceived == \A i \in DOMAIN subs : subs[i].got = subs[i].expected

SettleCheck ==
    /\ stage = "settling" /\ UNCHANGED session
    /\ IF CheckFails THEN Fail
       ELSE subs' = Closed(subs) /\ stage' = "evidence" /\ UNCHANGED result
    /\ UNCHANGED <<capture, index, rounds, request, required, record, dropped, late, received, refused>>

Settled ==
    /\ stage = "evidence" /\ AllReceived
    /\ subs' = Aborting(subs) /\ stage' = "joining"
    /\ UNCHANGED <<capture, index, rounds, request, required, session, record, dropped, late, received,
                   refused, result>>

\* Not yet: look again after a pause, or the deadline has passed.
KeepWaiting ==
    /\ stage = "evidence" /\ ~AllReceived
    /\ stage' = "settling"
    /\ UNCHANGED <<capture, index, rounds, request, required, session, subs, record, dropped, late,
                   received, refused, result>>

\* Fault: the wait for subscriptions has no deadline.
SettleNeverExpires == FALSE /\ UNCHANGED vars

SettleExpires ==
    /\ stage = "evidence" /\ ~AllReceived /\ UNCHANGED session /\ Fail
    /\ UNCHANGED <<capture, index, rounds, request, required, record, dropped, late, received, refused>>

\* Fault: the aborted tasks are not awaited.
TasksLeft == TRUE

\* The aborted tasks have ended.
TasksOver == \A i \in DOMAIN subs : subs[i].task \notin {"running", "aborting"}

Joined ==
    /\ stage = "joining" /\ TasksOver
    /\ UNCHANGED session /\ Return("ok")
    /\ UNCHANGED <<capture, index, rounds, request, required, subs, record, dropped, late, received, refused>>

-----------------------------------------------------------------------------
\* terminate_target_session: the DELETE has no time limit; how it ends is only logged.
Deleted ==
    /\ stage = "deleting" /\ stage' = "finish"
    /\ UNCHANGED <<capture, index, rounds, request, required, session, subs, record, dropped, late,
                   received, refused, result>>

\* finish_storage_writer: a replay that dropped anything fails.
Finish ==
    /\ stage = "finish" /\ stage' = "ended"
    /\ result' = IF dropped > 0 THEN "error" ELSE result
    /\ UNCHANGED <<capture, index, rounds, request, required, session, subs, record, dropped, late,
                   received, refused>>

DriveStep ==
    \/ RefuseSource \/ OpenTarget \/ TakeMessage \/ Post \/ Expire \/ Answered
    \/ Listen \/ ListenFails \/ Acknowledged \/ CheckSubscriptions
    \/ SettleCheck \/ Settled \/ KeepWaiting \/ Joined \/ Finish

TargetStep ==
    \/ Respond \/ ConnectionFails \/ Rejected \/ ReadBody \/ EndBody
    \/ ListenAccepted \/ ListenRefused \/ ListenRefusalRead \/ Deleted
    \/ \E i \in DOMAIN subs : SubscriptionFrame(i) \/ SubscriptionEnds(i)

Next ==
    \/ DriveStep \/ SettleExpires \/ TargetStep
    \/ \E i \in DOMAIN subs : AbortTakesEffect(i)

\* Timers fire and the runtime runs the tasks; the target owes nothing.
Fairness ==
    /\ WF_vars(DriveStep) /\ SF_vars(SettleExpires)
    /\ WF_vars(\E i \in DOMAIN subs : AbortTakesEffect(i))

Spec == Init /\ [][Next]_vars /\ Fairness

-----------------------------------------------------------------------------
\* A retry carries the state the target asked to see last, never a recorded
\* one, under an id no message of the session had before.
RetriesAreLive ==
    \A i \in DOMAIN record :
        record[i].dir = "c2s" /\ record[i].id \notin {Driven[j].id : j \in DOMAIN Driven} =>
            LET asked == {j \in 1 .. i - 1 : record[j].asks}
                last  == CHOOSE j \in asked : \A k \in asked : k <= j
            IN  /\ asked # {} /\ record[i].state = record[last].state
                /\ \A j \in 1 .. i - 1 : record[j].dir = "c2s" => record[j].id # record[i].id

\* The recorded frames of a subscription.
Stream(id) == {k \in DOMAIN record : record[k].dir = "s2c" /\ record[k].sub = id}

\* Nothing is sent after a listen request before its acknowledgment is
\* recorded; a run that ends well has recorded, for every listen request, as
\* many frames as the source, the acknowledgment first, all within the filter
\* the source was granted.
SubscriptionEvidence ==
    /\ \A i \in DOMAIN record : \A j \in (i + 1) .. Len(record) :
          record[i].dir = "c2s" /\ IsListen(record[i]) /\ record[j].dir = "c2s" =>
              \E k \in i .. j : record[k].method = "acknowledged" /\ record[k].sub = record[i].id
    /\ stage = "ended" /\ result = "ok" =>
          \A d \in DOMAIN Driven : IsListen(Driven[d]) =>
              LET source == subscription_expectation(capture.messages, Driven[d])
                  frames == Stream(Driven[d].id)
              IN  /\ Cardinality(frames) = source.expected
                  /\ \A k \in frames :
                        IF \E l \in frames : l < k THEN record[k].topic \in source.accepted
                        ELSE record[k].method = "acknowledged" /\ record[k].topics = source.accepted

\* A run that ends well offers no frame to the writer after the session was
\* closed and its count of dropped messages published.
NothingAfterClose == stage = "ended" /\ result = "ok" => late = 0

\* Whatever the target does, the run ends, unless it waits for the body of a
\* refused listen request or for the answer to its DELETE.
HttpReplayEnds == <>(stage \in {"ended", "refusing", "deleting"})

\* docs/spec/http-replay.md: a request the target rejected fails the run.
RejectionFails == stage = "ended" /\ result = "ok" => ~refused
=============================================================================
