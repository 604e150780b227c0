------------------------------ MODULE MiniJson ------------------------------
(***************************************************************************)
(* utils::json (src/utils/MiniJson.cpp): the parser that reads the pool's  *)
(* lines and the writer of the client's own.  Texts and strings are those  *)
(* of JsonString.  Fractions and exponents of numbers are left out: the    *)
(* client writes none but to its log.                                      *)
(*                                                                         *)
(* Both recursions go by depth of nesting: a level of the parser calls the *)
(* level below, and so does the writer.                                    *)
(***************************************************************************)
EXTENDS JsonString

CONSTANTS Words,   \* what else there is in texts than the symbols named below
          Depth,   \* bound: how deep the values are nested that are written
          Precision,  \* 15: digits that a double surely holds as they are
          LongLong,   \* 18: digits that surely fit into a long long
          MaxDigits,      \* 308: digits beyond which stod() throws
          Overflowed  \* what the build makes of a number too large for a long long

ASSUME DepthAssumption  == Depth \in Nat
ASSUME NumberAssumption == /\ Precision \in Nat /\ LongLong \in Nat /\ MaxDigits \in Nat
                           /\ Precision <= LongLong /\ LongLong <= MaxDigits

Alphabet == {"{", "}", "[", "]", ",", ":", "quote", "backslash", "n", "nl", "sp", "false",
             "-", "7", "8"} \cup Words

-----------------------------------------------------------------------------
(* Numbers.                                                                 *)

\* The text of a number: a sign or none, and digits.
Digit    == {"7", "8"}
Numerals == {x \in Seq({"-"} \cup Digit) : /\ x # <<>> /\ x[Len(x)] \in Digit
                                           /\ \A i \in 2 .. Len(x) : x[i] \in Digit}

Digits(x) == IF x[1] = "-" THEN Len(x) - 1 ELSE Len(x)

\* The double next to a numeral, in decimals: of one that is too long for it any
\* digit may change.
Stod(x) ==
    IF Digits(x) <= Precision THEN x
    ELSE [i \in DOMAIN x |-> IF x[i] \in Digit THEN "8" ELSE x[i]]

\* All digits and signs are taken, of which stod() reads a sign and the digits
\* after it, and it throws if there are none or too many.
ParseNumber(t, p) ==
    LET end    == After(t, p, {"-"} \cup Digit)
        digits == IF At(t, p) = "-" THEN p + 1 ELSE p
        last   == After(t, digits, Digit)
    IN IF last = digits \/ last - digits > MaxDigits THEN Fail
       ELSE [value |-> Number(Stod(SubSeq(t, p, last - 1))), at |-> end]

-----------------------------------------------------------------------------
(* Lists.                                                                   *)

Close(kind) == IF kind = "array" THEN "]" ELSE "}"

\* A member of an object, behind its key; parse is the level below.
Member(t, parse, key) ==
    LET colon == SkipWhitespace(t, key.at)
        val   == parse[colon + 1]
    IN IF key = Fail \/ At(t, colon) # ":" \/ val = Fail THEN Fail
       ELSE [value |-> <<key.value[2], val.value>>, at |-> val.at]

\* An item of an array or a member of an object.
Entry(t, kind, parse, p) ==
    IF kind = "array" THEN parse[p] ELSE Member(t, parse, ParseRawString(t, p))

Added(kind, out, x) ==
    IF kind = "array" THEN Append(out, x) ELSE Set(out, x[1], x[2])

\* The state of the loop of parseArray() and parseObject(): out is the array or
\* the object so far, more whether the loop goes on.
NoList == [at |-> 0, out |-> <<>>, more |-> FALSE]

\* A mutant of Taken: the end of the text closes the list.
TakenToEnd(t, kind, out, entry) ==
    LET s == SkipWhitespace(t, entry.at)
    IN IF entry = Fail \/ (At(t, s) \notin {",", Close(kind)} /\ s <= Len(t)) THEN NoList
       ELSE [at   |-> IF s > Len(t) THEN s ELSE s + 1, out |-> Added(kind, out, entry.value),
             more |-> At(t, s) = ","]

\* One more entry, and the comma or the closing bracket behind it.
Taken(t, kind, out, entry) ==
    LET s == SkipWhitespace(t, entry.at)
    IN IF entry = Fail \/ At(t, s) \notin {",", Close(kind)} THEN NoList
       ELSE [at |-> s + 1, out |-> Added(kind, out, entry.value), more |-> At(t, s) = ","]

\* One turn of the loop.
ListTurn(t, kind, parse, r) ==
    IF ~r.more THEN r ELSE Taken(t, kind, r.out, Entry(t, kind, parse, r.at))

ListTurns(t, kind, parse, p) ==
    LET turn[k \in 0 .. Len(t)] ==
          IF k = 0 THEN [at |-> p, out |-> <<>>, more |-> TRUE]
          ELSE ListTurn(t, kind, parse, turn[k - 1])
    IN turn

\* What the loop ends with.
Finished(turn, n) == turn[CHOOSE k \in 0 .. n : ~turn[k].more]

ListEnd(t, kind, parse, p) == Finished(ListTurns(t, kind, parse, p), Len(t))

ListOf(kind, end) ==
    IF end = NoList THEN Fail ELSE [value |-> <<kind, end.out>>, at |-> end.at]

\* After the opening bracket.
ParseList(t, kind, parse, p) ==
    LET s == SkipWhitespace(t, p)
    IN IF At(t, s) = Close(kind) THEN [value |-> <<kind, <<>>>>, at |-> s + 1]
       ELSE ListOf(kind, ListEnd(t, kind, parse, s))

-----------------------------------------------------------------------------
(* The descent.                                                             *)

\* The first symbol says what the value is.
ParseValue(t, parse, p) ==
    LET s == SkipWhitespace(t, p) IN
    CASE s > Len(t)          -> Fail
      [] At(t, s) = "{"      -> ParseList(t, "object", parse, s + 1)
      [] At(t, s) = "["      -> ParseList(t, "array", parse, s + 1)
      [] At(t, s) = "quote"  -> ParseRawString(t, s)
      [] At(t, s) = "false"  -> [value |-> False, at |-> s + 1]
      [] OTHER               -> ParseNumber(t, s)

\* By depth and place.  A text is not nested deeper than it is long.
Levels(t) ==
    LET parse[n \in 0 .. Len(t)] ==
          [p \in 1 .. Len(t) + 1 |-> IF n = 0 THEN Fail ELSE ParseValue(t, parse[n - 1], p)]
    IN parse

\* What follows the value is not looked at.
Parse(t) == Levels(t)[Len(t)][1].value

-----------------------------------------------------------------------------
(* dump().                                                                  *)

\* The numerals that dump() prints as they are: those of doubles, and not too
\* long for the cast to long long.
Exact == {x \in Numerals : Stod(x) = x /\ Digits(x) <= LongLong}

\* The cast of a longer one is undefined.
DumpNumber(x) == IF Digits(x) <= LongLong THEN x ELSE Overflowed

\* No key is twice in an object (Set).
Members(K, V) ==
    {m \in Seq(K \X V) : \A i, j \in DOMAIN m : m[i][1] = m[j][1] => i = j}

Leaves == {False} \cup ({"number"} \X Exact) \cup ({"string"} \X Seq(Alphabet))

\* The values that are nested no deeper than n.
Values[n \in 0 .. Depth] ==
    IF n = 0 THEN Leaves
    ELSE Leaves \cup ({"array"} \X Seq(Values[n - 1]))
                \cup ({"object"} \X Members(Seq(Alphabet), Values[n - 1]))

\* Texts with commas between them and the blanks b around them.
Listed(ts, b) ==
    LET out[i \in 0 .. Len(ts)] ==
          IF i = 0 THEN <<>>
          ELSE out[i - 1] \o (IF i = 1 THEN b ELSE b \o <<",">> \o b) \o ts[i]
    IN out

Bracketed(open, ts, b, close) == <<open>> \o Listed(ts, b)[Len(ts)] \o b \o <<close>>

\* The texts of the entries of v; text is the level below.
EntryTexts(v, text, b) ==
    IF Type(v) = "array" THEN [i \in DOMAIN v[2] |-> text[v[2][i]]]
    ELSE [i \in DOMAIN v[2] |->
            Quoted(v[2][i][1]) \o b \o <<":">> \o b \o text[v[2][i][2]]]

TextOf(v, text, b) ==
    CASE Type(v) = "bool"   -> <<"false">>
      [] Type(v) = "number" -> DumpNumber(v[2])
      [] Type(v) = "string" -> Quoted(v[2])
      [] Type(v) = "array"  -> Bracketed("[", EntryTexts(v, text, b), b, "]")
      [] Type(v) = "object" -> Bracketed("{", EntryTexts(v, text, b), b, "}")

\* JSON by depth and value, with the blanks b wherever there may be some.
Text(b) ==
    LET text[n \in 0 .. Depth] == [v \in Values[n] |-> TextOf(v, text[n - 1], b)]
    IN text

\* A mutant of Dump: each part on a line of its own.
DumpPretty(v) == Text(<<"nl">>)[Depth][v]

\* dump() writes none.
Dump(v) == Text(<<>>)[Depth][v]
=============================================================================
