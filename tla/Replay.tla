--------------------------------- MODULE Replay ---------------------------------
(***************************************************************************)
(* mcptracer replay, crates/mcptracer-proxy/src/commands/replay.rs: one    *)
(* process sends the client's side of a recorded session to a live server  *)
(* over stdio and records what is said as a new session.                   *)
(*                                                                         *)
(* The server is external: it reads its input, answers any request it has  *)
(* read whenever and as often as it likes, sends notifications, requests   *)
(* and lines that are not JSON, and may exit.  The storage pipeline behind *)
(* try_record is SessionWriter; here recording appends to log.             *)
(***************************************************************************)
EXTENDS ReplayPlan

CONSTANTS
    Sources,         \* recorded sessions
    Options,         \* command lines: plan, allow, deny, realtime, strict
    ServerIds,       \* ids the server uses for its own requests
    PipeCapacity,    \* frames the pipe to the server holds
    MaxFrames        \* bound: frames the server sends

VARIABLES
    source,          \* source_messages
    opts,            \* ReplayArgs
    pc,              \* where run and drive are
    plan,            \* what run computes from the source, Prepared
    at,              \* place in driven
    sentCancels,     \* sent_cancellations
    buf,             \* frames read from the server and not parsed
    log,             \* the target session
    unanswered,      \* requests given up, with the reason
    shown,           \* what --plan printed
    outcome,         \* what drive or the preparation returned
    stdin, stdout,   \* the two pipes
    alive,           \* the server process runs
    owed,            \* requests the server has read: id and source seq
    frames           \* frames the server has sent

client == <<source, opts, pc, plan, at, sentCancels, buf, log, unanswered, shown, outcome>>
server == <<stdin, stdout, alive, owed, frames>>
vars == <<client, server>>

NoReport == [allowed |-> -1]

\* What run computes from the source before it starts anything.
Prepared(messages, o) ==
    LET allowed == AllowedMessages(messages, o.allow, o.deny)
        cancels == ReplayedCancellations(messages, allowed)
    IN  [report        |-> build_plan(messages, o.allow, o.deny),
         driven        |-> ReplayedMessages(allowed, cancels),
         cancellations |-> cancels,
         adjacent      |-> CancellationsAdjacent(allowed, cancels),
         lookaside     |-> server_initiated_responses(messages)]

\* What the steps read of a frame.
FrameFields == {"seq", "src", "dir", "kind", "id", "method", "err"}
IsFrame(m) == FrameFields \subseteq DOMAIN m

\* What the planner returns: messages of the client whose sequence numbers
\* differ, each kept cancellation right after its request, recorded answers.
ASSUME PlanAssumption ==
    \A messages \in Sources, o \in Options :
        LET p == Prepared(messages, o)
        IN  /\ p.driven \in Seq(Range(p.driven))
            /\ \A i \in DOMAIN p.driven :
                  /\ IsFrame(p.driven[i]) /\ p.driven[i].dir = "c2s"
                  /\ p.driven[i].kind \in {"request", "notification"}
            /\ \A i, j \in DOMAIN p.driven : p.driven[i].seq = p.driven[j].seq => i = j
            /\ \A seq \in DOMAIN p.cancellations :
                  /\ IsFrame(p.cancellations[seq]) /\ p.cancellations[seq].dir = "c2s"
                  /\ p.cancellations[seq].kind = "notification"
            /\ p.adjacent => \A i \in DOMAIN p.driven :
                  p.driven[i].seq \in DOMAIN p.cancellations =>
                      i < Len(p.driven) /\ p.driven[i + 1].seq = p.cancellations[p.driven[i].seq].seq
            /\ \A id \in DOMAIN p.lookaside :
                  /\ IsFrame(p.lookaside[id]) /\ p.lookaside[id].dir = "c2s"
                  /\ p.lookaside[id].kind = "response"

Init ==
    /\ source \in Sources /\ opts \in Options /\ plan = Prepared(source, opts)
    /\ pc = "start" /\ at = 1 /\ sentCancels = {} /\ buf = <<>> /\ log = <<>>
    /\ unanswered = {} /\ shown = NoReport /\ outcome = "none"
    /\ stdin = <<>> /\ stdout = <<>> /\ alive = FALSE /\ owed = {} /\ frames = 0

\* What is recorded of a frame: the frame, and the source message it stems from.
Recorded(to, m, src) == Append(to, [m EXCEPT !.seq = Len(to), !.src = src])

Current == plan.driven[at]

-----------------------------------------------------------------------------
\* run up to the server's start: refusals, --plan, and what drive needs.
RefuseReplay ==
    /\ pc = "start"
    /\ source = <<>> \/ (~opts.plan /\ (~plan.adjacent \/ plan.driven = <<>>))
    /\ pc' = "ended" /\ outcome' = "error"
    /\ UNCHANGED <<source, opts, plan, at, sentCancels, buf, log, unanswered, shown, server>>

ShowPlan ==
    /\ pc = "start" /\ opts.plan /\ source # <<>>
    /\ shown' = plan.report
    /\ pc' = "ended" /\ outcome' = "ok"
    /\ UNCHANGED <<source, opts, plan, at, sentCancels, buf, log, unanswered, server>>

StartReplay ==
    /\ pc = "start" /\ ~opts.plan /\ source # <<>>
    /\ plan.adjacent /\ plan.driven # <<>>
    /\ pc' = "sending" /\ alive' = TRUE
    /\ UNCHANGED <<source, opts, plan, at, sentCancels, buf, log, unanswered, shown, outcome,
                   stdin, stdout, owed, frames>>

-----------------------------------------------------------------------------
\* drive returns an error.
Fail ==
    /\ pc' = "closing" /\ outcome' = "error"
    /\ UNCHANGED <<source, opts, plan, at, sentCancels, buf, unanswered, shown, server>>

\* send_frame blocks on a full pipe, without a time limit.
send_frame(m) == alive /\ Len(stdin) < PipeCapacity /\ stdin' = Append(stdin, m)

SkipSentCancellation ==
    /\ pc = "sending" /\ at <= Len(plan.driven) /\ Current.seq \in sentCancels
    /\ at' = at + 1
    /\ UNCHANGED <<source, opts, pc, plan, sentCancels, buf, log, unanswered, shown, outcome, server>>

Unsendable(m) == ~m.valid \/ ~alive

SendFails ==
    /\ pc = "sending" /\ at <= Len(plan.driven) /\ Current.seq \notin sentCancels
    /\ Unsendable(Current)
    /\ Fail /\ UNCHANGED log

\* What follows a message that was sent: its cancellation, at once or after
\* the recorded interval, the wait for its response, or the next message.
AfterSend(m) ==
    IF m.kind # "request" \/ m.id = NoId THEN "sending"
    ELSE IF m.seq \in DOMAIN plan.cancellations
    THEN IF opts.realtime /\ plan.cancellations[m.seq].ts > m.ts THEN "interval" ELSE "cancelling"
    ELSE "waiting"

Send ==
    /\ pc = "sending" /\ at <= Len(plan.driven) /\ Current.seq \notin sentCancels
    /\ Current.valid /\ send_frame(Current)
    /\ log' = Recorded(log, Current, Current.seq)
    /\ pc' = AfterSend(Current)
    /\ at' = IF pc' = "sending" THEN at + 1 ELSE at
    /\ UNCHANGED <<source, opts, plan, sentCancels, buf, unanswered, shown, outcome,
                   stdout, alive, owed, frames>>

\* Fault: the set of sent cancellations is never filled.
ForgetCancellation(cancel) == sentCancels

\* The seqs of cancellations drive must not send again.
SentWith(cancel) == sentCancels \cup {cancel.seq}

SendCancellation ==
    LET cancel == plan.cancellations[Current.seq]
    IN  /\ pc = "cancelling" /\ cancel.valid /\ send_frame(cancel)
        /\ log' = Recorded(log, cancel, cancel.seq)
        /\ sentCancels' = SentWith(cancel)
        /\ pc' = "sending" /\ at' = at + 1
        /\ UNCHANGED <<source, opts, plan, buf, unanswered, shown, outcome, stdout, alive, owed, frames>>

CancellationFails ==
    /\ pc = "cancelling" /\ Unsendable(plan.cancellations[Current.seq])
    /\ Fail /\ UNCHANGED log

-----------------------------------------------------------------------------
\* wait_for_response, for the answer or through the interval before a cancellation.
Waiting == pc \in {"waiting", "interval"}

ReadStdout ==
    /\ Waiting /\ buf = <<>> /\ stdout # <<>>
    /\ \E n \in 1 .. Len(stdout) :
          buf' = SubSeq(stdout, 1, n) /\ stdout' = SubSeq(stdout, n + 1, Len(stdout))
    /\ UNCHANGED <<source, opts, pc, plan, at, sentCancels, log, unanswered, shown, outcome,
                   stdin, alive, owed, frames>>

\* Fault: any response ends the wait.
MatchesAny(frame) == frame.kind = "response"

Matches(frame) == frame.kind = "response" /\ frame.id = Current.id

AfterWait == IF pc = "waiting" THEN "sending" ELSE "cancelling"
NextAfterWait == IF pc = "waiting" THEN at + 1 ELSE at

\* A frame that asks nothing.
TakeFrame ==
    LET frame == Head(buf)
    IN  /\ Waiting /\ buf # <<>> /\ frame.valid
        /\ frame.kind # "request" \/ frame.id = NoId
        /\ log' = Recorded(log, frame, frame.src) /\ buf' = Tail(buf)
        /\ pc' = IF Matches(frame) THEN AfterWait ELSE pc
        /\ at' = IF Matches(frame) THEN NextAfterWait ELSE at
        /\ UNCHANGED <<source, opts, plan, sentCancels, unanswered, shown, outcome, server>>

\* handle_server_request: the recorded client's answer, or that replay has none.
ReplyTo(frame) ==
    IF frame.id \in DOMAIN plan.lookaside THEN plan.lookaside[frame.id]
    ELSE [frame EXCEPT !.dir = "c2s", !.kind = "response", !.method = "none", !.err = TRUE]

Answerable(frame) == frame.id \in DOMAIN plan.lookaside \/ ~opts.strict

\* Fault: the reply is sent but not recorded.
LogRequestOnly(frame) == Recorded(log, frame, frame.src)

\* What is recorded of a server request that is answered.
LogReply(frame) == Recorded(Recorded(log, frame, frame.src), ReplyTo(frame), frame.src)

AnswerServer ==
    LET frame == Head(buf)
    IN  /\ Waiting /\ buf # <<>> /\ frame.valid /\ frame.kind = "request" /\ frame.id # NoId
        /\ Answerable(frame) /\ ReplyTo(frame).valid /\ send_frame(ReplyTo(frame))
        /\ log' = LogReply(frame) /\ buf' = Tail(buf)
        /\ UNCHANGED <<source, opts, pc, plan, at, sentCancels, unanswered, shown, outcome,
                       stdout, alive, owed, frames>>

\* A frame that is not JSON, a request --strict-server-requests refuses, or a
\* reply the server can no longer read.
FrameFails ==
    LET frame == Head(buf)
        asked == frame.valid /\ frame.kind = "request" /\ frame.id # NoId
    IN  /\ Waiting /\ buf # <<>>
        /\ ~frame.valid \/ (asked /\ (~Answerable(frame) \/ Unsendable(ReplyTo(frame))))
        /\ log' = IF frame.valid THEN Recorded(log, frame, frame.src) ELSE log
        /\ Fail

\* The wait ends without an answer: the deadline, or the server's exit.
GiveUp(why) ==
    /\ Waiting /\ buf = <<>>
    /\ pc' = AfterWait /\ at' = NextAfterWait
    /\ unanswered' = IF pc = "waiting" THEN unanswered \cup {[seq |-> Current.seq, why |-> why]}
                     ELSE unanswered
    /\ UNCHANGED <<source, opts, plan, sentCancels, buf, log, shown, outcome, server>>

\* Fault: the deadline is looked at only when the server has gone.
ExpireWhenGone == ~alive /\ GiveUp("timeout")

Expire == GiveUp("timeout")
EndOfOutput == ~alive /\ stdout = <<>> /\ GiveUp("exit")

-----------------------------------------------------------------------------
Drained ==
    /\ pc = "sending" /\ at > Len(plan.driven)
    /\ pc' = "closing" /\ outcome' = "ok"
    /\ UNCHANGED <<source, opts, plan, at, sentCancels, buf, log, unanswered, shown, server>>

\* Kill and reap the server, finish_storage_writer.
CloseReplay ==
    /\ pc = "closing"
    /\ pc' = "ended" /\ alive' = FALSE
    /\ UNCHANGED <<source, opts, plan, at, sentCancels, buf, log, unanswered, shown, outcome,
                   stdin, stdout, owed, frames>>

ClientStep ==
    \/ RefuseReplay \/ ShowPlan \/ StartReplay
    \/ SkipSentCancellation \/ SendFails \/ Send \/ SendCancellation \/ CancellationFails
    \/ ReadStdout \/ TakeFrame \/ AnswerServer \/ FrameFails \/ Expire \/ EndOfOutput
    \/ Drained \/ CloseReplay

-----------------------------------------------------------------------------
ServerReads ==
    /\ alive /\ stdin # <<>>
    /\ stdin' = Tail(stdin)
    /\ LET m == Head(stdin)
       IN  owed' = IF m.kind = "request" THEN owed \cup {[id |-> m.id, src |-> m.seq]} ELSE owed
    /\ UNCHANGED <<client, stdout, alive, frames>>

Frame(kind, id, src, valid) ==
    [seq |-> 0, src |-> src, dir |-> "s2c", kind |-> kind, id |-> id, ts |-> 0, valid |-> valid,
     method |-> IF kind = "response" THEN "none" ELSE "other", tool |-> NoTool, err |-> FALSE,
     toolErr |-> FALSE, target |-> NoId, shape |-> "unmatched", tools |-> <<>>, masked |-> FALSE]

Write(frame) ==
    /\ alive /\ frames < MaxFrames
    /\ stdout' = Append(stdout, frame) /\ frames' = frames + 1
    /\ UNCHANGED <<client, stdin, alive>>

\* An answer, after which the server may answer the same request again.
ServerAnswers ==
    \E r \in owed, again \in BOOLEAN :
        Write(Frame("response", r.id, r.src, TRUE)) /\ owed' = IF again THEN owed ELSE owed \ {r}

ServerSpeaks ==
    /\ \/ Write(Frame("notification", NoId, NoSeq, TRUE))
       \/ Write(Frame("notification", NoId, NoSeq, FALSE))
       \/ \E id \in ServerIds : Write(Frame("request", id, NoSeq, TRUE))
    /\ UNCHANGED owed

ServerExits ==
    /\ alive
    /\ alive' = FALSE
    /\ UNCHANGED <<client, stdin, stdout, owed, frames>>

ServerStep == ServerReads \/ ServerAnswers \/ ServerSpeaks \/ ServerExits

Next == ClientStep \/ ServerStep

\* The program takes its steps and its timers fire; the server owes nothing.
Fairness == WF_vars(ClientStep)

Spec == Init /\ [][Next]_vars /\ Fairness

-----------------------------------------------------------------------------
\* The places of the log where drive sent something.
Sends == {i \in DOMAIN log : log[i].dir = "c2s" /\ log[i].kind # "response"}

\* drive sends the planned messages in their order and none of them twice, a
\* cancellation that follows its request included; a replay that ends well has
\* sent them all.
SentOnceInOrder ==
    /\ \A i \in Sends :
          LET n == Cardinality({j \in Sends : j <= i})
          IN  n <= Len(plan.driven) /\ log[i].src = plan.driven[n].seq
    /\ outcome = "ok" /\ ~opts.plan => Cardinality(Sends) = Len(plan.driven)

\* A message is sent only after the request before it was answered by its own
\* response, given up or cancelled: late answers, repeated answers and server
\* requests with the same id do not end the wait.
PacedByAnswers ==
    \A i \in DOMAIN log :
        (/\ log[i].dir = "c2s" /\ log[i].kind = "request"
         /\ log[i].src \notin DOMAIN plan.cancellations
         /\ \A u \in unanswered : u.seq # log[i].src)
        => \A j \in (i + 1) .. Len(log) :
              log[j].dir = "c2s" /\ log[j].kind # "response"
                  => \E k \in i .. j : log[k].kind = "response" /\ log[k].src = log[i].src

\* A replay that ends well and gave up no request leaves a session without an
\* unanswered request, in either direction.
ReplayIsWhole ==
    outcome = "ok" /\ unanswered = {} =>
        LET exchanges == correlate(log).exchanges
        IN  \A i \in DOMAIN exchanges : exchanges[i].status # "Unanswered"

\* drive is in send_frame, and the pipe to a running server is full.
SendBlocked ==
    /\ alive /\ Len(stdin) = PipeCapacity
    /\ \/ pc = "sending" /\ at <= Len(plan.driven)
       \/ pc = "cancelling"
       \/ Waiting /\ buf # <<>> /\ Head(buf).kind = "request"

\* A replay ends, whatever the server answers, repeats, leaves out or asks and
\* whenever it exits; save that a server which lives on and never reads again
\* holds it for good in a write, the one wait of drive without a time limit.
ReplayEnds == <>(pc = "ended") \/ <>[]SendBlocked

\* docs/spec/replay.md: when the server exits early, replay exits non-zero.
EarlyExitFails == outcome = "ok" => \A u \in unanswered : u.why # "exit"
=============================================================================
