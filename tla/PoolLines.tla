------------------------------ MODULE PoolLines ------------------------------
(***************************************************************************)
(* LineReader with the parser of MiniJson and lines of JSON: what the pool *)
(* writes, with and without blanks, and what it might write otherwise: no  *)
(* JSON, or a number that no double holds.  Of the jobs in these lines the *)
(* shares are made that name them.                                         *)
(***************************************************************************)
EXTENDS LineReader, MiniJson

CONSTANTS Messages,  \* values the pool sends
          Others,    \* other lines of the pool, with what parse() makes of them
          User,      \* wallet and worker, which go out with each share
          Hex,       \* extranonce2, nonce, zeros or a blob, which the client writes
          ShareId    \* nextRequestId_, in decimals

\* A line, without its end, and the value it stands for.
MessageLines ==
    {[text |-> Text(b)[Depth][v], value |-> v] : v \in Messages, b \in {<<>>, <<"sp">>}}
JsonLines == MessageLines \cup Others

ASSUME MessagesAssumption == Messages \subseteq Values[Depth]
ASSUME OthersAssumption ==
    \A l \in Others : Type(l.value) \notin {"object", "array", "string"}
ASSUME LinesAssumption    == Lines = JsonLines
ASSUME ShareAssumption ==
    /\ Depth >= 2 /\ {"id", "method", "submit", "params"} \subseteq Words
    /\ User \in Seq(Alphabet) /\ Hex \in Seq(Alphabet) /\ ShareId \in Exact

-----------------------------------------------------------------------------
(* A share of a job.                                                        *)

\* asString(): what is no string has an empty one.
AsString(v) == IF Type(v) = "string" THEN v[2] ELSE <<>>

\* The arguments of mining.notify that make a job, with a blob or without.
IsJob(params) ==
    Type(params) = "array" /\ (Len(params[2]) = 7 \/ Len(params[2]) >= 9)

JobId(params) == AsString(params[2][1])

HasBlob(params) == Len(params[2]) = 7 /\ AsString(params[2][2]) # <<>>

\* The pool's time, or "00000000".
JobTime(params) == IF Len(params[2]) = 7 THEN Hex ELSE AsString(params[2][8])

ShareParams(params) ==
    IF HasBlob(params) THEN <<Str(User), Str(JobId(params)), Str(Hex)>>
    ELSE <<Str(User), Str(JobId(params)), Str(Hex), Str(JobTime(params)), Str(Hex)>>

\* mining.submit for a share of the job that these arguments made.
Submit(params) ==
    Object(<< <<(<<"id">>), Number(ShareId)>>,
              <<(<<"method">>), Str(<<"submit">>)>>,
              <<(<<"params">>), Array(ShareParams(params))>> >>)

-----------------------------------------------------------------------------
(* Properties.                                                              *)

\* A part of an object, an array or a string is no value: if a line were ended
\* or taken too early it would be ignored (MiniJson.cpp:95-159).
PartsAreMalformed ==
    \A k \in 1 .. Len(sent) :
       /\ k = Len(handled) + 1 /\ Len(lineBuffer) < Len(sent[k].text)
       /\ Type(sent[k].value) \in {"object", "array", "string"}
       => Parse(lineBuffer) = Malformed

\* A share of a job that the pool has announced goes out as one line, which
\* reads as the request it is and names the job by the string the pool gave:
\* newlines, quotes and backslashes in it, however it was written, end neither
\* the line nor the string (MiniJson.cpp:47-61, 197-230, StratumClient.cpp:
\* 230-279, 302-345).  A job that the pool named by anything else has the name
\* "" there.
SharesNameTheirJob ==
    \A k \in 1 .. Len(handled) :
       handled[k][1] = "handleNotify" /\ IsJob(handled[k][2]) =>
          LET job  == sent[k].value
              name == Get(job, <<"params">>)[2][1]
              line == Dump(Submit(handled[k][2]))
          IN /\ \A i \in DOMAIN line : line[i] # "nl"
             /\ Parse(line) = Submit(handled[k][2])
             /\ Get(Parse(line), <<"params">>)[2][2] =
                  IF Type(name) = "string" THEN name ELSE Str(<<>>)
=============================================================================
