----------------------------- MODULE JsonString -----------------------------
(***************************************************************************)
(* Strings in JSON (src/utils/MiniJson.cpp): parseRawString(), which takes *)
(* one from a text, and escape(), which makes one.  The two are inverse to *)
(* each other for every string: LineReaderProofs proves it.                *)
(*                                                                         *)
(* A text is a sequence of symbols: punctuation, a quote, a backslash, the *)
(* letter "n" (for "t" and "r", too), "nl" and "sp", a sign "-", a digit   *)
(* "7" and one of a number that a double holds, "8", the literal "false"   *)
(* (for "true" and "null", too) and words, which do not follow a           *)
(* backslash.  pos_ is a place in it, counted from one.                    *)
(***************************************************************************)
EXTENDS JsonValue

\* What a parsing function returns: a value and the place after it.
Fail == [value |-> Malformed, at |-> 0]

-----------------------------------------------------------------------------
(* Scanning.                                                                *)

At(t, p) == IF p <= Len(t) THEN t[p] ELSE "end"

\* The first place from p on with a symbol that is not in S.
After(t, p, S) ==
    CHOOSE q \in p .. Len(t) + 1 : At(t, q) \notin S /\ \A r \in p .. q - 1 : t[r] \in S

SkipWhitespace(t, p) == After(t, p, {"sp", "nl"})

-----------------------------------------------------------------------------
(* parseRawString().                                                        *)

Unescaped(c) == IF c = "n" THEN "nl" ELSE c

\* One turn of its loop: r.at is pos_, r.out is out.  The symbol after a
\* backslash is taken as it is, unless it is a letter that stands for a control
\* character.  At the end of the text and at a quote the loop ends.
Turn(t, r) ==
    CASE r.at > Len(t) \/ t[r.at] = "quote" -> r
      [] t[r.at] = "backslash" /\ r.at < Len(t) ->
            [at |-> r.at + 2, out |-> Append(r.out, Unescaped(t[r.at + 1]))]
      [] OTHER -> [at |-> r.at + 1, out |-> Append(r.out, t[r.at])]

\* The turns from the place p on, of which the text has no more than symbols.
Turns(t, p) ==
    LET turn[k \in 0 .. Len(t)] ==
          IF k = 0 THEN [at |-> p, out |-> <<>>] ELSE Turn(t, turn[k - 1])
    IN turn

\* A string up to its closing quote.
Characters(t, p) ==
    LET last == Turns(t, p)[Len(t)]
    IN IF last.at > Len(t) THEN Fail ELSE [value |-> Str(last.out), at |-> last.at + 1]

ParseRawString(t, p) ==
    LET s == SkipWhitespace(t, p)
    IN IF At(t, s) = "quote" THEN Characters(t, s + 1) ELSE Fail

-----------------------------------------------------------------------------
(* escape().                                                                *)

EscapeSymbol(c) ==
    CASE c \in {"quote", "backslash"} -> <<"backslash", c>>
      [] c = "nl"                     -> <<"backslash", "n">>
      [] OTHER                        -> <<c>>

\* out, after each symbol of s.
Escaped(s) ==
    LET out[i \in 0 .. Len(s)] == IF i = 0 THEN <<>> ELSE out[i - 1] \o EscapeSymbol(s[i])
    IN out

Quoted(s) == <<"quote">> \o Escaped(s)[Len(s)] \o <<"quote">>
=============================================================================
