---------------------------- MODULE MCLineReader ----------------------------
(* LineReader with messages of every type of value and depth.                *)
EXTENDS PoolLines

Message(method, params) ==
    Object(<< <<(<<"method">>), Str(<<method>>)>>, <<(<<"params">>), Array(params)>> >>)
Response(id, key, value) ==
    Object(<< <<(<<"id">>), Number(id)>>, <<(<<key>>), value>> >>)

Awkward == Str(<<"x", "nl", "quote", "backslash", "n">>)
Rest(n) == [i \in 1 .. n |-> False]

\* A job with a blob, and one without that has a number for its name.
MCMessages ==
    { Message("notify", <<Awkward, Str(<<"x">>)>> \o Rest(5)),
      Message("notify", <<Number(<<"7">>), Object(<<>>)>> \o Rest(5) \o <<Awkward, False>>),
      Message("set_difficulty", <<Number(<<"-", "7", "7">>)>>),
      Response(<<"8", "8", "8">>, "result", Array(<<Array(<<>>), Number(<<"-", "7">>)>>)) }

MCWords ==
    {"x", "method", "params", "id", "result", "notify", "set_difficulty", "submit"}

MCUser       == <<"x">>
MCHex        == <<"7">>
MCShareId    == <<"8", "8", "8">>
MCOverflowed == <<"-", "8", "8", "8">>

\* An empty line, a key without quotes, two values in a row, more digits than
\* stod() takes; and a number that is no double and would overflow when printed.
MCOthers ==
    {[text |-> t, value |-> Malformed] :
        t \in { <<>>, <<"{", "x", ":", "7", "}">>, <<"[", "7", "sp", "7", "]">>,
                <<"7", "7", "7", "7", "7">> }}
       \cup {[text |-> <<"-", "7", "7", "7", "7">>,
              value |-> Number(<<"-", "8", "8", "8", "8">>)]}
=============================================================================
