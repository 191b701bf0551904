------------------------------- MODULE MockServer -------------------------------
(***************************************************************************)
(* crates/mcptracer-model/src/serve.rs and commands/serve.rs: a recorded   *)
(* session answers a live client.  A live request is a message whose       *)
(* payload holds its params; id NoId makes it a notification and method    *)
(* "none" a frame that is no request at all.                               *)
(***************************************************************************)
EXTENDS Diff

Strategies == {"Exact", "Method", "MethodAndParams", "Subset", "Sequential"}

Params(m) == LET p == Get(m.payload, "params") IN IF p = Absent THEN Null ELSE p

At(messages, seq) == messages[CHOOSE i \in DOMAIN messages : messages[i].seq = seq]

\* Only what the client asked and the server answered with a result or an error;
\* a result that reports a tool failure is left out.
Servable(exchange) ==
    exchange.origin = "c2s" /\ exchange.status \in {"Ok", "Error"} /\ exchange.req # NoSeq /\ exchange.resp # NoSeq

\* MockSession::from_messages_with_strategy; fails when a payload of the inventory
\* does not parse or its request shows no method.
Inventory(messages) == SelectSeq(correlate(messages).exchanges, Servable)

InventoryReadable(messages) ==
    \A i \in DOMAIN Inventory(messages) :
        LET e == Inventory(messages)[i]
        IN  At(messages, e.req).valid /\ At(messages, e.resp).valid /\ e.method # "none"

params_subset(recorded, live) ==
    CASE recorded = Null           -> TRUE
      [] recorded.type = "object"  -> live.type = "object" /\ \A k \in DOMAIN recorded.kids :
                                          Get(live, k) = recorded.kids[k]
      [] OTHER                     -> recorded = live

\* match_request: whether one recorded request may answer a live one.
Fits(strategy, recorded, live) ==
    LET named == recorded.method = live.method /\ recorded.tool = live.tool
    IN  CASE strategy = "Sequential"      -> TRUE
          [] strategy = "Method"          -> recorded.method = live.method
          [] strategy = "Subset"          -> named /\ params_subset(Params(recorded), Params(live))
          [] strategy = "Named"           -> named
          [] OTHER                        -> named /\ Params(recorded) = Params(live)

\* The first unused exchange that fits, 0 when there is none.
FirstFit(server, strategy, live) ==
    LET fitting == {i \in DOMAIN server.inventory : i \notin server.used /\
                        Fits(strategy, At(server.recorded, server.inventory[i].req), live)}
    IN  IF fitting = {} THEN 0 ELSE CHOOSE i \in fitting : \A j \in fitting : i <= j

match_request(server, live) ==
    LET exact == FirstFit(server, server.strategy, live)
    IN  IF exact = 0 /\ server.strategy = "MethodAndParams" THEN FirstFit(server, "Named", live) ELSE exact

-----------------------------------------------------------------------------
\* run: refuses a session with nothing to serve.
StartServer(messages, strategy, strict) ==
    [recorded |-> messages, inventory |-> Inventory(messages), strategy |-> strategy, strict |-> strict,
     used |-> {}, sent |-> <<>>,
     failed |-> Inventory(messages) = <<>> \/ ~InventoryReadable(messages)]

\* A reply carries the live id: the stored response of exchange `of`, or the
\* method-not-found error when that is 0.
Reply(live, of) == [id |-> live.id, of |-> of]

\* Mutant: a recorded response is not used up.
ReuseResponse(server, live) ==
    LET chosen == match_request(server, live)
        answer == [server EXCEPT !.sent = Append(@, Reply(live, chosen))]
    IN  IF server.failed THEN server
        ELSE IF ~live.valid \/ live.method = "none" THEN [server EXCEPT !.failed = server.strict]
        ELSE IF live.id = NoId THEN server
        ELSE IF chosen # 0 THEN answer
        ELSE [answer EXCEPT !.failed = server.strict]

\* handle_request
handle_request(server, live) ==
    LET chosen == match_request(server, live)
        answer == [server EXCEPT !.sent = Append(@, Reply(live, chosen))]
    IN  IF server.failed THEN server
        ELSE IF ~live.valid \/ live.method = "none" THEN [server EXCEPT !.failed = server.strict]
        ELSE IF live.id = NoId THEN server
        ELSE IF chosen # 0 THEN [answer EXCEPT !.used = @ \cup {chosen}]
        ELSE [answer EXCEPT !.failed = server.strict]

Served(messages, strategy, strict, requests) ==
    FoldLeft(handle_request, StartServer(messages, strategy, strict), requests)
=============================================================================
