------------------------------ MODULE MCReplayHttp ------------------------------
(* Small HTTP replays for TLC. *)
EXTENDS ReplayHttp

Base == [seq |-> 0, src |-> 0, dir |-> "c2s", kind |-> "request", id |-> NoId, ts |-> 0, method |-> "other",
         tool |-> NoTool, err |-> FALSE, toolErr |-> FALSE, target |-> NoId, valid |-> TRUE, shape |-> "method",
         bare |-> {}, tools |-> <<>>, masked |-> FALSE, modern |-> TRUE, named |-> TRUE, args |-> <<>>,
         lists |-> <<>>, body |-> "b", keys |-> {}, state |-> NoState, sub |-> NoId, topics |-> {},
         topic |-> "none", form |-> "json", asks |-> FALSE, broken |-> FALSE]

Id(name) == <<name, 0>>
At(seq, m) == [m EXCEPT !.seq = seq, !.src = seq]
Ask(id, method) == [Base EXCEPT !.id = id, !.method = method]
Call(id, state) == [Ask(id, "call") EXCEPT !.tool = "tool", !.state = state, !.args = "path" :> "string"]
Answer(id) == [Base EXCEPT !.dir = "s2c", !.kind = "response", !.id = id, !.method = "none", !.shape = "result"]
Push(id, topic) == [Base EXCEPT !.dir = "s2c", !.kind = "notification", !.method = "other", !.sub = id, !.topic = topic]
Ack(id, topics) == [Push(id, "none") EXCEPT !.method = "acknowledged", !.topics = topics, !.target = id]
Header == [property |-> TRUE, token |-> TRUE, type |-> "string", header |-> "h", path |-> "path"]

Numbered(s) == [i \in DOMAIN s |-> At(i - 1, s[i])]
Session(s, deny) ==
    [messages |-> Numbered(s), summary |-> [ended |-> TRUE, dropped |-> 0, policy |-> "none"],
     allow |-> {}, deny |-> deny]
Listing == <<Ask(Id("l"), "list"), [Answer(Id("l")) EXCEPT !.lists = "tool" :> <<Header>>]>>

\* A call with its recorded retry; a subscription beside a request; two
\* subscriptions; a call whose tool is unknown; an unanswered request; nothing.
MCCaptures ==
    {Session(Listing \o <<Call(Id("a"), NoState), Answer(Id("a")), Call(Id("b"), 99), Answer(Id("b"))>>, {}),
     Session(<<[Ask(Id("s"), "listen") EXCEPT !.topics = {"t", "u"}], Ack(Id("s"), {"t"}), Push(Id("s"), "t"),
               [Ask(Id("a"), "other") EXCEPT !.modern = FALSE], Answer(Id("a"))>>, {}),
     Session(<<[Ask(Id("s"), "listen") EXCEPT !.topics = {"t"}], Ack(Id("s"), {"t"}),
               [Ask(Id("r"), "listen") EXCEPT !.topics = {"u"}], Ack(Id("r"), {"u"})>>, {}),
     Session(<<Call(Id("a"), NoState), Answer(Id("a")), [Ask(NoId, "other") EXCEPT !.kind = "notification"]>>, {}),
     Session(<<Call(Id("a"), NoState), Answer(Id("a"))>>, {"tool"}),
     Session(<<Ask(Id("a"), "other")>>, {})}

MCReplies ==
    {Answer(NoId), [Answer(NoId) EXCEPT !.asks = TRUE, !.state = 98], [Answer(NoId) EXCEPT !.asks = TRUE],
     [Answer(NoId) EXCEPT !.broken = TRUE]} \cup
    {[Answer(NoId) EXCEPT !.form = form] : form \in {"bad", "incomplete"}}

MCEvents == {Ack(NoId, {"t"}), Ack(NoId, {"u"}), Push(NoId, "t"), Push(NoId, "u"), Answer(NoId),
             [Answer(NoId) EXCEPT !.form = "oversized"]}
=============================================================================
