------------------------------ MODULE SchemaChange ------------------------------
(***************************************************************************)
(* The advisory explanation of tool-schema changes, second half of         *)
(* crates/mcptracer-model/src/diff.rs: a bounded walk over two JSON        *)
(* schemas that classifies each changed keyword.                           *)
(***************************************************************************)
EXTENDS Diff

CONSTANTS
    MaxSchemaDepth,     \* MAX_SCHEMA_DEPTH
    MaxSchemaNodes,     \* MAX_SCHEMA_NODES
    MaxExplanations     \* MAX_SCHEMA_EXPLANATIONS

SchemaKinds     == <<"inputSchema", "outputSchema">>
Classifications == {"PotentiallyBreaking", "PotentiallyNonBreaking", "Ambiguous", "Unclassified"}

TypeNames == {"null", "boolean", "object", "array", "number", "integer", "string"}
Known     == {"type", "required", "properties", "additionalProperties", "enum"}

\* What a keyword restricts a value to: everything when it is absent.
Parsed(ok, any, of) == [ok |-> ok, any |-> any, of |-> of]
Unsupported         == Parsed(FALSE, FALSE, {})
Unrestricted        == Parsed(TRUE, TRUE, {})

\* An array without duplicates, whose items all pass.
UniqueItems(v, Passes(_)) ==
    /\ v.type = "array" /\ Cardinality(ToSet(v.items)) = Len(v.items)
    /\ \A item \in ToSet(v.items) : Passes(item)

IsText(v)     == v.type = "string"
IsTypeName(v) == IsText(v) /\ v.text \in TypeNames

parse_type_set(v) ==
    CASE v = Absent                                          -> Unrestricted
      [] IsTypeName(v)                                       -> Parsed(TRUE, FALSE, {v})
      [] UniqueItems(v, IsTypeName) /\ Len(v.items) > 0       -> Parsed(TRUE, FALSE, ToSet(v.items))
      [] OTHER                                               -> Unsupported

parse_required(v) ==
    CASE v = Absent                                             -> Parsed(TRUE, FALSE, {})
      [] UniqueItems(v, IsText) /\ Len(v.items) <= MaxSchemaNodes -> Parsed(TRUE, FALSE, ToSet(v.items))
      [] OTHER                                                  -> Unsupported

parse_enum(v) ==
    CASE v = Absent                                                         -> Unrestricted
      [] UniqueItems(v, LAMBDA x : TRUE) /\ Len(v.items) \in 1..MaxSchemaNodes -> Parsed(TRUE, FALSE, ToSet(v.items))
      [] OTHER                                                              -> Unsupported

parse_additional_properties(v) ==
    CASE v \in {Absent, Flag(TRUE)} -> "Allow"
      [] v = Flag(FALSE)            -> "Deny"
      [] v.type = "object"          -> "Constrained"
      [] OTHER                      -> "Invalid"

\* Mutant: the wrong one of integer and number is the wider.
NumberIsInteger(candidate, baseline) ==
    IF candidate.any THEN baseline.any
    ELSE baseline.any \/ \A t \in candidate.of :
             t \in baseline.of \/ (t = Text("number") /\ Text("integer") \in baseline.of)

\* Every integer is a number.
type_set_subset(candidate, baseline) ==
    IF candidate.any THEN baseline.any
    ELSE baseline.any \/ \A t \in candidate.of :
             t \in baseline.of \/ (t = Text("integer") /\ Text("number") \in baseline.of)

enum_subset(candidate, baseline) ==
    IF candidate.any THEN baseline.any ELSE baseline.any \/ candidate.of \subseteq baseline.of

-----------------------------------------------------------------------------
Finding(at, class) == [at |-> at, class |-> class]

Classify(narrowing, widening) ==
    CASE narrowing /\ ~widening -> "PotentiallyBreaking"
      [] ~narrowing /\ widening -> "PotentiallyNonBreaking"
      [] OTHER                  -> "Ambiguous"

\* type and enum are compared as sets of what they admit.
SetFindings(before, after, keyword, at, Parse(_), Subset(_, _)) ==
    LET b == Parse(Get(before, keyword))
        a == Parse(Get(after, keyword))
        here == Append(at, keyword)
    IN  IF Get(before, keyword) = Get(after, keyword) THEN <<>>
        ELSE IF ~b.ok \/ ~a.ok THEN <<Finding(here, "Unclassified")>>
        ELSE IF a = b THEN <<>> ELSE <<Finding(here, Classify(Subset(a, b), Subset(b, a)))>>

\* Reported at the property, additions before removals.
RequiredFindings(before, after, at) ==
    LET b == parse_required(Get(before, "required"))
        a == parse_required(Get(after, "required"))
        at_each(names, class) ==
            LET order == SetToSeq(names)
            IN  [i \in DOMAIN order |-> Finding(at \o <<"properties", order[i].text>>, class)]
    IN  IF Get(before, "required") = Get(after, "required") THEN <<>>
        ELSE IF ~b.ok \/ ~a.ok THEN <<Finding(Append(at, "required"), "Unclassified")>>
        ELSE at_each(a.of \ b.of, "PotentiallyBreaking") \o at_each(b.of \ a.of, "PotentiallyNonBreaking")

\* Equal states are dropped first, two schema-valued ones included.
AdditionalFindings(before, after, at) ==
    LET b == parse_additional_properties(Get(before, "additionalProperties"))
        a == parse_additional_properties(Get(after, "additionalProperties"))
        here(class) == <<Finding(Append(at, "additionalProperties"), class)>>
    IN  CASE Get(before, "additionalProperties") = Get(after, "additionalProperties") -> <<>>
          [] a = b /\ a # "Invalid"                     -> <<>>
          [] {a, b} \cap {"Constrained", "Invalid"} # {} -> here("Unclassified")
          [] a = "Deny"                                 -> here("PotentiallyBreaking")
          [] OTHER                                      -> here("PotentiallyNonBreaking")

KeywordFindings(before, after, at) ==
    SetFindings(before, after, "type", at, parse_type_set, type_set_subset)
        \o RequiredFindings(before, after, at)
        \o AdditionalFindings(before, after, at)
        \o SetFindings(before, after, "enum", at, parse_enum, enum_subset)

-----------------------------------------------------------------------------
\* What the walk carries along.
NoFindings == [out |-> <<>>, nodes |-> 0, truncated |-> FALSE]

push_explanation(walk, found) ==
    IF Len(walk.out) >= MaxExplanations THEN [walk EXCEPT !.truncated = TRUE]
    ELSE [walk EXCEPT !.out = Append(@, found)]

push_limit_explanation(walk, at) ==
    [push_explanation(walk, Finding(at, "Unclassified")) EXCEPT !.truncated = TRUE]

\* The rest of a list is left alone once the walk is cut short.
Onward(walk, list, Step(_, _)) ==
    FoldLeft(LAMBDA w, x : IF w.truncated THEN w ELSE Step(w, x), walk, list)

PropertySchema(schema, name) ==
    LET found == Get(Get(schema, "properties"), name) IN IF found = Absent THEN Object(<<>>) ELSE found

PropertyNames(schema) ==
    LET properties == Get(schema, "properties")
    IN  IF properties.type = "object" THEN DOMAIN properties.kids ELSE {}

BadProperties(schema) == Get(schema, "properties").type \notin {"absent", "object"}

UnknownChanged(before, after) ==
    {k \in (DOMAIN before.kids \cup DOMAIN after.kids) \ Known : Get(before, k) # Get(after, k)}

RECURSIVE analyze_schema_node(_, _, _, _, _)
analyze_schema_node(walk, before, after, at, depth) ==
    LET counted == [walk EXCEPT !.nodes = @ + 1]
        keywords == FoldLeft(push_explanation, counted, KeywordFindings(before, after, at))
        changed == {n \in PropertyNames(before) \cup PropertyNames(after) :
                        PropertySchema(before, n) # PropertySchema(after, n)}
        properties ==
            IF BadProperties(before) \/ BadProperties(after)
            THEN push_explanation(keywords, Finding(Append(at, "properties"), "Unclassified"))
            ELSE Onward(keywords, SetToSeq(changed),
                        LAMBDA w, n : analyze_schema_node(w, PropertySchema(before, n), PropertySchema(after, n),
                                                          at \o <<"properties", n>>, depth + 1))
    IN  IF Len(walk.out) >= MaxExplanations - 1 \/ depth > MaxSchemaDepth
        THEN push_limit_explanation(walk, at)
        ELSE IF counted.nodes > MaxSchemaNodes THEN push_limit_explanation(counted, at)
        ELSE IF before.type # "object" \/ after.type # "object"
        THEN push_explanation(counted, Finding(at, "Unclassified"))
        ELSE Onward(properties, SetToSeq(UnknownChanged(before, after)),
                    LAMBDA w, k : push_explanation(w, Finding(Append(at, k), "Unclassified")))

\* output_classification: only a consumer could tell what an output change breaks.
output_classification(kind, found) ==
    IF kind = "outputSchema" /\ found.class # "Unclassified" THEN [found EXCEPT !.class = "Ambiguous"] ELSE found

\* One schema of one tool; a schema that appears or disappears is not compared.
ExplainSchema(walk, before, after, kind) ==
    LET begun == [walk EXCEPT !.nodes = 0]
        after_walk == IF before = after THEN walk
                      ELSE IF Absent \in {before, after} THEN push_explanation(walk, Finding(<<>>, "Unclassified"))
                      ELSE analyze_schema_node(begun, before, after, <<>>, 0)
    IN  [after_walk EXCEPT !.out = [i \in DOMAIN @ |->
            IF i <= Len(walk.out) THEN @[i] ELSE output_classification(kind, @[i])]]

explain_tool_schema_changes(baseline, candidate) ==
    LET shared == SetToSeq(DOMAIN baseline.tools \cap DOMAIN candidate.tools)
        schema(catalog, tool, kind) == catalog.tools[tool][kind]
        explained == Onward(NoFindings, shared, LAMBDA walk, tool :
                         Onward(walk, SchemaKinds, LAMBDA w, kind :
                             ExplainSchema(w, schema(baseline, tool, kind), schema(candidate, tool, kind), kind)))
    IN  IF ~baseline.complete \/ ~candidate.complete
        THEN [status |-> "IncompleteCatalog", findings |-> {}]
        ELSE [status   |-> IF explained.truncated THEN "Truncated" ELSE "Complete",
              findings |-> ToSet(explained.out)]
=============================================================================
