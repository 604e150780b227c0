------------------------------ MODULE JsonValue ------------------------------
(***************************************************************************)
(* utils::json::Value (src/utils/MiniJson.cpp): what the pool's lines stand *)
(* for.  A string is a sequence of symbols.  A number is a double, by its  *)
(* decimals: what stod() makes of a text and what dump() prints of a       *)
(* double is in MiniJson.  "false" stands for "true" and "null", too.      *)
(***************************************************************************)
EXTENDS Integers, Sequences

Str(s)    == <<"string", s>>
Number(s) == <<"number", s>>
False     == <<"bool", FALSE>>
Array(vs) == <<"array", vs>>
Object(m) == <<"object", m>>     \* m: a sequence of keys with their values
Malformed == <<"malformed">>     \* std::nullopt

Type(v) == v[1]

-----------------------------------------------------------------------------
(* Objects.                                                                 *)

Has(v, k) == Type(v) = "object" /\ \E i \in DOMAIN v[2] : v[2][i][1] = k
Get(v, k) == LET i == CHOOSE i \in DOMAIN v[2] : v[2][i][1] = k IN v[2][i][2]

\* A key that is there already keeps its place and gets the new value.
Set(m, k, v) ==
    IF \E i \in DOMAIN m : m[i][1] = k
    THEN [i \in DOMAIN m |-> IF m[i][1] = k THEN <<k, v>> ELSE m[i]]
    ELSE Append(m, <<k, v>>)
=============================================================================
