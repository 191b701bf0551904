------------------------------- MODULE MCAnalysis -------------------------------
(* Small inputs of the analyses for TLC. *)
EXTENDS Analysis

Obj1(k, v)       == Object(k :> v)
Obj2(k, v, l, w) == Object((k :> v) @@ (l :> w))
Num(text)        == Scalar("integer", text)

-----------------------------------------------------------------------------
M(seq, dir, kind, id, method, tool, target, payload) ==
    [seq |-> seq, ts |-> seq, dir |-> dir, kind |-> kind, id |-> id, method |-> method, tool |-> tool,
     target |-> target, err |-> Get(payload, "error") # Absent,
     toolErr |-> Get(Get(payload, "result"), "isError") = Flag(TRUE), valid |-> TRUE, bare |-> {},
     shape |-> CASE kind = "request" /\ method = "list"                       -> "list"
                 [] kind # "response"                                          -> "method"
                 [] kind = "response" /\ Get(payload, "result") # Absent       -> "result"
                 [] OTHER                                                      -> "unmatched",
     payload |-> payload]

Req(seq, id, method, tool, params) == M(seq, "c2s", "request", id, method, tool, NoId, Obj1("params", params))
Resp(seq, id, payload)             == M(seq, "s2c", "response", id, "none", NoTool, NoId, payload)
Note(seq, dir, method, target, body) == M(seq, dir, "notification", NoId, method, NoTool, target, Obj1("params", body))

Page(property, more) ==
    Obj1("result", Object(("tools" :> Array(<<Obj2("name", Text("t"), "inputSchema",
                               Obj1("properties", Obj1(property, Obj1("type", Text("string")))))>>))
                          @@ (IF more THEN "nextCursor" :> Text("p2") ELSE <<>>)))

Token(v) == Obj1("token", Text(v))

\* A tool with an example value, and one with an annotation of its own.
Examples ==
    Obj1("result", Obj1("tools", Array(<<
        Obj2("name", Text("t"), "inputSchema",
             Obj1("properties", Obj1("token", Obj2("type", Text("object"), "default", Token("s"))))),
        Obj2("name", Text("u"), "annotations", Token("s"))>>)))

Ok(v) == Obj1("result", Obj2("out", Text(v), "timestamp", Text(v)))

Failed == Obj1("result", Obj1("isError", Flag(TRUE)))
Denied == Obj1("error", Obj1("code", Num("1")))

\* A paged catalog before a call; a catalog that holds values; two calls of one tool answered out of order;
\* a cancelled call whose id is used again; a subscription; an interrupted call.
MCSessions ==
    {<<Req(0, "a", "list", NoTool, Object(<<>>)), Resp(1, "a", Page("token", TRUE)),
       Req(2, "b", "list", NoTool, Obj1("cursor", Text("p2"))), Resp(3, "b", Page("x", FALSE)),
       Req(4, "c", "call", "t", Token("s"))>>,
     <<Req(0, "a", "list", NoTool, Object(<<>>)), Resp(1, "a", Examples)>>,
     <<Req(0, "a", "list", NoTool, Object(<<>>)), Resp(1, "a", Page("token", FALSE)),
       Req(2, "a", "call", "t", Token("s")), Resp(3, "a", Obj1("result", Token("s")))>>,
     <<Req(0, "a", "call", "t", Token("s")), Req(1, "b", "call", "t", Token("r")),
       Resp(2, "b", Ok("q")), Resp(3, "a", Ok("p")), Note(4, "s2c", "other", NoId, Token("s"))>>,
     <<Req(0, "a", "call", "t", Token("s")), Note(1, "c2s", "cancelled", "a", Null),
       Req(2, "a", "call", "u", Token("s")), Resp(3, "a", Denied)>>,
     <<Req(0, "a", "listen", NoTool, Null), Note(1, "s2c", "acknowledged", "a", Null),
       Note(2, "s2c", "other", NoId, Token("s")), Resp(3, "a", Ok("p"))>>}

MCRequestBodies  == {Obj1("params", Token("r")), Object(<<>>),
                     Obj1("params", Obj2("token", Text("s"), "requestState", Text("2")))}
MCResponseBodies == {Ok("r"), Failed, Denied, Page("y", FALSE)}

-----------------------------------------------------------------------------
Types(s)   == Obj1("type", Text(s))
S1         == Text("1")
S2         == Text("2")
MCSchemas  ==
    {Object(<<>>), Types("number"), Obj2("type", Array(<<Text("string"), Text("integer")>>), "enum", Array(<<S1, Num("1")>>)),
     Object(("type" :> Text("object")) @@ ("properties" :> Obj1("x", Types("integer"))) @@ ("required" :> Array(<<Text("x")>>))),
     Obj2("properties", Obj1("x", Types("number")), "additionalProperties", Flag(FALSE)),
     Obj2("type", Text("object"), "additionalProperties", Types("integer"))}

MCKeywords ==
    ("type" :> {Absent, Text("string"), Text("integer"), Text("number"), Text("object"),
                Array(<<Text("string"), Text("integer")>>), Text("any")})
    @@ ("enum" :> {Absent, Array(<<S1>>), Array(<<S1, S2>>), Array(<<S1, S1>>)})
    @@ ("required" :> {Absent, Array(<<Text("x")>>), Array(<<Text("x"), Text("y")>>), Text("x")})
    @@ ("additionalProperties" :> {Absent, Flag(TRUE), Flag(FALSE), Types("string"), Text("no")})
    @@ ("pattern" :> {Text("p")})
    @@ ("properties" :> {Absent, Text("p")})

MCPropertySchemas ==
    {Absent, Object(<<>>), Types("integer"), Types("number"), Obj2("type", Text("string"), "enum", Array(<<S1>>)), Flag(TRUE),
     Obj1("properties", Obj1("x", Obj1("properties", Obj1("x", Types("string")))))}

Scalars     == {S1, S2, Num("1"), Scalar("number", "1.5"), Null}
MCInstances == Scalars \cup UNION {{Object(f) : f \in [keys -> Scalars]} : keys \in SUBSET {"x", "y"}}

-----------------------------------------------------------------------------
Seven == Num("7")
Half  == Scalar("number", "0.5")

MCHidden ==
    ("properties" :> {Obj1("token", Types("string")), Token("s"), Obj1("x", Obj1("default", Token("s"))), Array(<<Token("s")>>)})
    @@ ("default" :> {Token("s"), Text("bearer")})
    @@ ("allOf" :> {Array(<<Obj1("token", Null), Token("s"), Text("s"), Flag(TRUE)>>), Token("s")})
    @@ ("items" :> {Obj1("token", Seven), Array(<<Array(<<Token("s")>>)>>)})
    @@ ("dependencies" :> {Obj1("token", Array(<<Text("x")>>)), Obj1("token", Array(<<Half>>)), Obj1("token", Types("x"))})
    @@ ("dependentRequired" :> {Obj1("token", Array(<<Text("x")>>)), Obj1("token", Types("x"))})
    @@ ("token" :> {Seven, Flag(TRUE), Array(<<Text("s")>>), Types("x")})
    @@ ("extra" :> {Obj2("token", Text("s"), "-", Text("s"))})

Choice(name, extra) == [name |-> name, extra |-> extra]
MCPolicyChoices ==
    {Choice("none", {}), Choice("default", {}), Choice("default", {"extra", "-"}), Choice("default", {"properties"}),
     Choice("default", {"result"}), Choice("none", {"extra"}), Choice("default", {"-"}), Choice("strict", {})}

MCSuspicious == "bearer" :> {"BearerToken"}

-----------------------------------------------------------------------------
\* Data of one byte, of the limit and beyond it, a line beyond the limit, a
\* comment, blank lines, and a line without its end.
MCLines ==
    {<<"d", ":", Space, "x", Newline>>, <<"d", ":", "x", "x", "x", Return, Newline>>,
     <<"d", ":", "x", "x", "x", "x", Newline>>, <<"d", ":", "x", "x", "x", "x", "x", "x", "d", ":", "x", Newline>>,
     <<"x", Newline>>, <<Newline>>, <<Return, Newline>>, <<"d", ":", "x">>}

-----------------------------------------------------------------------------
MCMocked ==
    {<<Req(0, "a", "call", "t", Token("s")), Resp(1, "a", Ok("p")), Req(2, "b", "call", "t", Token("r")),
       Resp(3, "b", Denied), Req(4, "c", "call", "u", Token("s")), Resp(5, "c", Ok("q"))>>,
     <<Req(0, "a", "call", "t", Token("s")), Resp(1, "a", Failed), Req(2, "b", "call", "t", Null), Resp(3, "b", Ok("q")),
       Req(4, "c", "other", NoTool, Token("s")), M(5, "s2c", "request", "c", "other", NoTool, NoId, Object(<<>>))>>,
     <<Req(0, "a", "call", "t", Token("s"))>>}

Live(id, method, tool, params) == Req(0, id, method, tool, params)
MCAsked ==
    {Live("1", "call", "t", Token("s")), Live("2", "call", "t", Token("r")), Live("3", "call", "u", Token("s")),
     Live("4", "call", "t", Obj2("token", Text("s"), "more", S1)), Live("5", "other", NoTool, Token("s")),
     Live(NoId, "other", NoTool, Null), [Live("6", "none", NoTool, Null) EXCEPT !.valid = FALSE]}
=============================================================================
