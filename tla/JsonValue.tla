----------------------------- MODULE JsonValue -----------------------------
(***************************************************************************)
(* The values of the JSON codec (the enum Json of service/src/json.rs),    *)
(* and what a fallible function returns.  A string value is a text, a      *)
(* sequence of symbols (JsonString).  A float counts in tenths; Inf is what  *)
(* the overflow of an exponent gives.                                      *)
(***************************************************************************)

Quote == "\""
Slash == "\\"
Newline == "\n"

Space == {" ", "\t", "\n", "\r"}

Null == [tag |-> "null"]
Bool(b) == [tag |-> "bool", is |-> b]
Integer(n) == [tag |-> "int", n |-> n]
Float(tenths) == [tag |-> "float", tenths |-> tenths]
Inf == [tag |-> "inf"]
Str(text) == [tag |-> "str", text |-> text]
Arr(items) == [tag |-> "arr", items |-> items]
Obj(map) == [tag |-> "obj", map |-> map]

\* Json::get: Null stands for an absent key, which no caller tells from a
\* value of the wrong type.
get(v, key) == IF v.tag = "obj" /\ key \in DOMAIN v.map THEN v.map[key] ELSE Null

\* as_f64 gives a number, finite or not.
IsNumber(v) == v.tag \in {"int", "float", "inf"}

\* A result: the value and, of a parser, the position after it.
Ok(v, next) == [ok |-> TRUE, value |-> v, next |-> next]
Err == [ok |-> FALSE]
=============================================================================
