-------------------------------- MODULE Redaction --------------------------------
(***************************************************************************)
(* crates/mcptracer-redact/src/lib.rs: masking the stored copy of a        *)
(* payload, checking that a stored payload is masked, and linting what key *)
(* names cannot catch.  Which key names are sensitive and which texts look *)
(* like credentials is given by the constants; the substring rules behind  *)
(* them are abstracted.                                                    *)
(***************************************************************************)
EXTENDS RedactionContext, Json

CONSTANTS
    SensitiveKeys,      \* the keys is_sensitive_key masks under every active policy
    Suspicious,         \* a function from texts to the SensitiveCategory values they show
    EmptyKey            \* a key without any letter or digit: never sensitive

\* RedactionPolicy with its normalized extra keys.
Policy(name, extra) == [name |-> name, extra |-> extra]
BadPolicy           == Policy("invalid", {})

from_name(name) == IF name \in {"none", "default"} THEN Policy(name, {}) ELSE BadPolicy

\* Extra keys extend the default policy and only that one.
from_cli(name, extra) ==
    LET keys == extra \ {EmptyKey}
    IN  IF extra = {} THEN from_name(name)
        ELSE IF name # "default" \/ keys = {} THEN BadPolicy ELSE Policy("custom", keys)

\* From the columns redaction_policy and redaction_keys of a session.
from_storage(name, extra) ==
    IF name = "custom" THEN IF extra = {} THEN BadPolicy ELSE from_cli("default", extra)
    ELSE IF extra # {} THEN BadPolicy ELSE from_name(name)

\* matches_policy_sensitive_key
Sensitive(key, policy) == key # EmptyKey /\ (key \in SensitiveKeys \/ key \in policy.extra)

\* A value of the same type that says nothing.
redact_value_typed(v) ==
    CASE v.type = "string"  -> Placeholder
      [] v.type \in {"number", "integer"} -> Scalar("integer", "0")
      [] v.type = "boolean" -> Flag(FALSE)
      [] v.type = "array"   -> Array(<<>>)
      [] v.type = "object"  -> Object(<<>>)
      [] OTHER              -> v

Masked(v, typed) == IF typed THEN redact_value_typed(v) ELSE Placeholder

\* walk and walk_typed: no exemptions.
RECURSIVE walk(_, _, _)
walk(v, policy, typed) ==
    CASE v.type = "object" ->
             Object([k \in DOMAIN v.kids |-> IF Sensitive(k, policy) THEN Masked(v.kids[k], typed)
                                             ELSE walk(v.kids[k], policy, typed)])
      [] v.type = "array" -> Array([i \in DOMAIN v.items |-> walk(v.items[i], policy, typed)])
      [] OTHER -> v

Visit(key, v, policy, typed) == IF Sensitive(key, policy) THEN Masked(v, typed) ELSE walk(v, policy, typed)

-----------------------------------------------------------------------------
MapKeywords    == {"properties", "patternProperties", "$defs", "definitions", "dependentSchemas"}
SchemaKeywords == {"items", "additionalItems", "additionalProperties", "unevaluatedProperties",
                   "unevaluatedItems", "propertyNames", "not", "if", "then", "else", "contains", "contentSchema"}
ListKeywords   == {"allOf", "anyOf", "oneOf", "prefixItems", "items"}

IsSchema(v) == v.type \in {"object", "boolean"}

NameList(v) == v.type = "array" /\ \A i \in DOMAIN v.items : v.items[i].type = "string"

\* How walk_schema goes on under a keyword: a map of named schemas, a schema, a
\* list of them, dependencies, or the ordinary rules.
Role(key, v, policy) ==
    CASE Sensitive(key, policy)                                            -> "visit"
      [] key \in MapKeywords /\ v.type = "object"                          -> "map"
      [] key \in SchemaKeywords /\ IsSchema(v)                             -> "schema"
      [] key \in ListKeywords /\ v.type = "array"                          -> "list"
      [] key \in {"dependencies", "dependentRequired"} /\ v.type = "object" -> key
      [] OTHER                                                             -> "visit"

\* What becomes of the entry `name` of a map, a list or the dependencies.
EntryRole(role, v) ==
    CASE role \in {"dependencies", "dependentRequired"} /\ NameList(v) -> "keep"
      [] role # "dependentRequired" /\ IsSchema(v)                     -> "schema"
      [] OTHER                                                         -> "visit"

\* Mutant: a schema is left alone altogether.
SkipSchema(v, policy, typed) == v

\* walk_schema: property names are contracts, everything else is masked as usual.
RECURSIVE walk_schema(_, _, _)
walk_schema(v, policy, typed) ==
    LET entry(role, name, e) ==
            CASE EntryRole(role, e) = "keep"   -> e
              [] EntryRole(role, e) = "schema" -> walk_schema(e, policy, typed)
              [] OTHER                         -> Visit(name, e, policy, typed)
        member(k, child) ==
            LET role == Role(k, child, policy)
            IN  CASE role = "visit"  -> Visit(k, child, policy, typed)
                  [] role = "schema" -> walk_schema(child, policy, typed)
                  [] role = "list"   -> Array([i \in DOMAIN child.items |-> entry(role, k, child.items[i])])
                  [] OTHER           -> Object([n \in DOMAIN child.kids |-> entry(role, n, child.kids[n])])
    IN  IF v.type = "object" THEN Object([k \in DOMAIN v.kids |-> member(k, v.kids[k])])
        ELSE IF v.type = "boolean" THEN v ELSE Visit(EmptyKey, v, policy, typed)

\* The members of an object, each by its own rule; anything else is walked.
Members(v, policy, typed, Rule(_, _)) ==
    IF v.type # "object" THEN walk(v, policy, typed)
    ELSE Object([k \in DOMAIN v.kids |-> IF Sensitive(k, policy) THEN Masked(v.kids[k], typed)
                                         ELSE Rule(k, v.kids[k])])

walk_tool_definition(tool, policy, typed) ==
    Members(tool, policy, typed, LAMBDA k, child :
        IF k \in {"inputSchema", "outputSchema"} THEN walk_schema(child, policy, typed) ELSE walk(child, policy, typed))

\* Mutant: tool definitions are masked like any other value.
MaskDefinitions(result, policy, typed) == walk(result, policy, typed)

walk_result(result, policy, typed) ==
    Members(result, policy, typed, LAMBDA k, child :
        IF k = "tools" /\ child.type = "array"
        THEN Array([i \in DOMAIN child.items |-> walk_tool_definition(child.items[i], policy, typed)])
        ELSE walk(child, policy, typed))

\* redact_with_context and redact_preserving_types_with_context
redact_with_context(v, policy, context, typed) ==
    IF policy.name = "none" THEN v
    ELSE Members(v, policy, typed, LAMBDA k, child :
             IF k = "result" /\ context = "ToolListResponse" THEN walk_result(child, policy, typed)
             ELSE walk(child, policy, typed))

-----------------------------------------------------------------------------
\* collect_unredacted_sensitive_keys and push_if_unredacted: the sensitive keys
\* that still show a value.
RECURSIVE Shown(_, _)
Shown(v, policy) ==
    LET under(k) == IF v.type = "object" /\ Sensitive(k, policy)
                    THEN IF v.kids[k] = Placeholder THEN {} ELSE {k}
                    ELSE Shown(Kids(v)[k], policy)
    IN  IF IsContainer(v) THEN UNION {under(k) : k \in DOMAIN Kids(v)} ELSE {}

ShownAt(key, v, policy) ==
    IF Sensitive(key, policy) THEN IF v = Placeholder THEN {} ELSE {key} ELSE Shown(v, policy)

\* The same traversal of a schema, collecting.
RECURSIVE ShownInSchema(_, _)
ShownInSchema(v, policy) ==
    LET entry(role, name, e) ==
            CASE EntryRole(role, e) = "keep"   -> {}
              [] EntryRole(role, e) = "schema" -> ShownInSchema(e, policy)
              [] OTHER                         -> ShownAt(name, e, policy)
        member(k, child) ==
            LET role == Role(k, child, policy)
            IN  CASE role = "visit"  -> ShownAt(k, child, policy)
                  [] role = "schema" -> ShownInSchema(child, policy)
                  [] role = "list"   -> UNION {entry(role, k, child.items[i]) : i \in DOMAIN child.items}
                  [] OTHER           -> UNION {entry(role, n, child.kids[n]) : n \in DOMAIN child.kids}
    IN  IF v.type = "object" THEN UNION {member(k, v.kids[k]) : k \in DOMAIN v.kids}
        ELSE IF v.type = "boolean" THEN {} ELSE Shown(v, policy)

collect_unredacted_tool_definition(tool, policy) ==
    IF tool.type # "object" THEN Shown(tool, policy)
    ELSE UNION {IF k \in {"inputSchema", "outputSchema"} /\ ~Sensitive(k, policy)
                THEN ShownInSchema(tool.kids[k], policy) ELSE ShownAt(k, tool.kids[k], policy) :
                k \in DOMAIN tool.kids}

collect_unredacted_result(result, policy) ==
    LET tools(v) == UNION {collect_unredacted_tool_definition(v.items[i], policy) : i \in DOMAIN v.items}
    IN  IF result.type # "object" THEN Shown(result, policy)
        ELSE UNION {IF k = "tools" /\ ~Sensitive(k, policy) /\ result.kids[k].type = "array"
                    THEN tools(result.kids[k]) ELSE ShownAt(k, result.kids[k], policy) :
                    k \in DOMAIN result.kids}

unredacted_sensitive_keys_with_context(v, policy, context) ==
    IF policy.name = "none" THEN {}
    ELSE IF v.type # "object" THEN Shown(v, policy)
    ELSE UNION {IF k = "result" /\ context = "ToolListResponse" /\ ~Sensitive(k, policy)
                THEN collect_unredacted_result(v.kids[k], policy) ELSE ShownAt(k, v.kids[k], policy) :
                k \in DOMAIN v.kids}

-----------------------------------------------------------------------------
\* sensitive_content_lint: where a text still looks like a credential.
RECURSIVE walk_lint(_, _)
walk_lint(v, pointer) ==
    IF IsContainer(v) THEN UNION {walk_lint(Kids(v)[k], ChildPointer(pointer, v, k)) : k \in DOMAIN Kids(v)}
    ELSE IF v.type # "string" \/ v = Placeholder \/ v.text \notin DOMAIN Suspicious THEN {}
    ELSE {<<pointer, category>> : category \in Suspicious[v.text]}
=============================================================================
