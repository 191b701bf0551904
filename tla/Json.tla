---------------------------------- MODULE Json ----------------------------------
(***************************************************************************)
(* JSON values as serde_json::Value tells them apart.  A scalar keeps its  *)
(* spelling, an object is a function from its keys and an array a sequence.*)
(* Key spellings (separators, letter case) are already normalized.         *)
(***************************************************************************)
EXTENDS Integers, SequencesExt

Scalar(type, text) == [type |-> type, text |-> text]
Null               == Scalar("null", "null")
Text(text)         == Scalar("string", text)
Flag(set)          == Scalar("boolean", IF set THEN "true" ELSE "false")
Object(members)    == [type |-> "object", kids |-> members]
Array(items)       == [type |-> "array", items |-> items]

\* Value::get and Value::pointer answer with an Option.
Absent == [type |-> "absent", text |-> "absent"]

Placeholder == Text("REDACTED")     \* REDACTED_PLACEHOLDER

Kids(v) == IF v.type = "array" THEN v.items ELSE v.kids

IsContainer(v) == v.type \in {"object", "array"}

Get(v, key) == IF v.type = "object" /\ key \in DOMAIN v.kids THEN v.kids[key] ELSE Absent

GetText(v, key) == LET child == Get(v, key) IN IF child.type = "string" THEN child ELSE Absent

\* One more token of a JSON pointer; array items are numbered from zero.
ChildPointer(pointer, v, k) == Append(pointer, IF v.type = "object" THEN k ELSE ToString(k - 1))
=============================================================================
