----------------------------- MODULE LineReader -----------------------------
(***************************************************************************)
(* The reading half of network::StratumClient::runLoop() and handleLine()  *)
(* (src/network/StratumClient.cpp): the bytes of a connection arrive in    *)
(* pieces of any size, are put together in lineBuffer, cut into lines,     *)
(* parsed and handed to the handlers.  A connection may be lost anywhere,  *)
(* also in the middle of a line.  What the handlers do is the subject of   *)
(* StratumDialogue, when threads come and go that of StratumClient.        *)
(***************************************************************************)
EXTENDS JsonValue

CONSTANTS Lines,         \* what the pool writes: texts, and the values they stand for
          ParseLine(_),  \* utils::json::parse()
          RecvSize,      \* 4096: bytes taken by one recv()
          MaxLines,      \* bound: lines on a connection
          MaxConns       \* bound: connections

Symbols == UNION {{l.text[p] : p \in DOMAIN l.text} : l \in Lines}
Bytes   == Symbols \cup {"nl"}

\* No text of a line contains the end of a line, and the parser reads a text
\* as the pool means it.
ASSUME TextsAssumption  == \A l \in Lines : l.text \in Seq(Symbols \ {"nl"})
ASSUME ParserAssumption == \A l \in Lines : ParseLine(l.text) = l.value
ASSUME RecvAssumption   == RecvSize \in Nat \ {0}
ASSUME BoundsAssumption == MaxLines \in Nat /\ MaxConns \in Nat \ {0}

VARIABLES running,     \* running_
          conn,        \* the number of the connection
          sent,        \* sent: the lines the pool has written on it
          stream,      \* their symbols, with the ends of the lines
          ends,        \* where in the stream each line ends
          received,    \* how many symbols of it recv() has returned
          lineBuffer,  \* lineBuffer
          reader,      \* where the network thread is in runLoop()
          handled      \* what handleLine() has made of the lines

vars == <<running, conn, sent, stream, ends, received, lineBuffer, reader, handled>>
pool == <<sent, stream, ends>>

-----------------------------------------------------------------------------
(* handleLine().                                                            *)

\* Which handler a message goes to.  A method that is no string makes it a
\* response; so does being no object at all.
Handler(v) ==
    IF Has(v, <<"method">>) /\ Type(Get(v, <<"method">>)) = "string"
    THEN LET method == Get(v, <<"method">>)[2] IN
         CASE method = <<"notify">>         -> "handleNotify"
           [] method = <<"set_difficulty">> -> "handleSetDifficulty"
           [] OTHER                         -> "unhandled"
    ELSE "handleResponse"

\* An absent params is an empty array, other handlers get the whole message.
Argument(v) ==
    IF Handler(v) = "handleResponse" THEN v
    ELSE IF Has(v, <<"params">>) THEN Get(v, <<"params">>) ELSE Array(<<>>)

Handled(v) ==
    IF v = Malformed THEN <<"ignored">> ELSE <<Handler(v), Argument(v)>>

\* Where find() sees the end of a line.
FirstEnd(p) == lineBuffer[p] = "nl" /\ \A q \in 1 .. p - 1 : lineBuffer[q] # "nl"

Init == /\ running = TRUE
        /\ conn = 1
        /\ sent = <<>> /\ stream = <<>> /\ ends = <<>>
        /\ received = 0
        /\ lineBuffer = <<>>
        /\ reader = "poll"
        /\ handled = <<>>

-----------------------------------------------------------------------------
(* Mutants: ways the code could be wrong that the properties must notice.   *)

\* lineBuffer declared outside of the loop over connections.
ReconnectKeepsBuffer ==
    /\ reader = "lost"
    /\ running /\ conn < MaxConns
    /\ conn' = conn + 1
    /\ sent' = <<>> /\ stream' = <<>> /\ ends' = <<>>
    /\ received' = 0 /\ handled' = <<>>
    /\ reader' = "poll"
    /\ UNCHANGED <<running, lineBuffer>>

\* One line for each recv().
NextLineOnce ==
    /\ reader = "lines"
    /\ \E p \in DOMAIN lineBuffer :
       /\ FirstEnd(p)
       /\ handled' = Append(handled, Handled(ParseLine(SubSeq(lineBuffer, 1, p - 1))))
       /\ lineBuffer' = SubSeq(lineBuffer, p + 1, Len(lineBuffer))
    /\ reader' = "poll"
    /\ UNCHANGED <<running, conn, pool, received>>

\* recv() into lineBuffer from its beginning.
RecvOverwrites ==
    /\ reader = "poll"
    /\ \E n \in 1 .. RecvSize :
       /\ received + n <= Len(stream)
       /\ received' = received + n
       /\ lineBuffer' = SubSeq(stream, received + 1, received + n)
    /\ reader' = "lines"
    /\ UNCHANGED <<running, conn, pool, handled>>

-----------------------------------------------------------------------------
(* runLoop().                                                               *)

Write(line) ==
    /\ Len(sent) < MaxLines
    /\ reader # "off"
    /\ sent' = Append(sent, line)
    /\ stream' = Append(stream \o line.text, "nl")
    /\ ends' = Append(ends, Len(stream) + Len(line.text) + 1)
    /\ UNCHANGED <<running, conn, received, lineBuffer, reader, handled>>

\* One recv(), whatever it returns of what has been sent.
Recv ==
    /\ reader = "poll"
    /\ \E n \in 1 .. RecvSize :
       /\ received + n <= Len(stream)
       /\ received' = received + n
       /\ lineBuffer' = lineBuffer \o SubSeq(stream, received + 1, received + n)
    /\ reader' = "lines"
    /\ UNCHANGED <<running, conn, pool, handled>>

\* The loop over the lines in the buffer.  It does not look at running_.
NextLine ==
    /\ reader = "lines"
    /\ \E p \in DOMAIN lineBuffer :
       /\ FirstEnd(p)
       /\ handled' = Append(handled, Handled(ParseLine(SubSeq(lineBuffer, 1, p - 1))))
       /\ lineBuffer' = SubSeq(lineBuffer, p + 1, Len(lineBuffer))
    /\ UNCHANGED <<running, conn, pool, received, reader>>

NoMoreLines ==
    /\ reader = "lines"
    /\ \A p \in DOMAIN lineBuffer : lineBuffer[p] # "nl"
    /\ reader' = "poll"
    /\ UNCHANGED <<running, conn, pool, received, lineBuffer, handled>>

\* poll() or recv() reports the end of the connection: what has been sent and
\* not received is lost.
Lost ==
    /\ reader = "poll"
    /\ reader' = "lost"
    /\ UNCHANGED <<running, conn, pool, received, lineBuffer, handled>>

\* The next connection has a lineBuffer of its own.
Reconnect ==
    /\ reader = "lost"
    /\ running /\ conn < MaxConns
    /\ conn' = conn + 1
    /\ sent' = <<>> /\ stream' = <<>> /\ ends' = <<>>
    /\ received' = 0 /\ handled' = <<>>
    /\ lineBuffer' = <<>>
    /\ reader' = "poll"
    /\ UNCHANGED running

\* stop(), which the loop over poll() sees.
Stop ==
    /\ running
    /\ running' = FALSE
    /\ UNCHANGED <<conn, pool, received, lineBuffer, reader, handled>>

Leave ==
    /\ reader \in {"poll", "lost"}
    /\ ~running
    /\ reader' = "off"
    /\ UNCHANGED <<running, conn, pool, received, lineBuffer, handled>>

Next ==
    \/ \E line \in Lines : Write(line)
    \/ Recv \/ NextLine \/ NoMoreLines
    \/ Lost \/ Reconnect \/ Stop \/ Leave

Spec == Init /\ [][Next]_vars

-----------------------------------------------------------------------------
(* Properties.                                                              *)

\* Every variable has its type, and lineBuffer holds what was received last.
TypeOK ==
    /\ running \in BOOLEAN
    /\ conn \in 1 .. MaxConns
    /\ sent \in Seq(Lines) /\ Len(sent) <= MaxLines
    /\ stream \in Seq(Bytes) /\ lineBuffer \in Seq(Bytes)
    /\ ends \in Seq(Nat) /\ Len(ends) = Len(sent)
    /\ received \in 0 .. Len(stream)
    /\ Len(lineBuffer) <= received
    /\ lineBuffer = SubSeq(stream, received - Len(lineBuffer) + 1, received)
    /\ reader \in {"poll", "lines", "lost", "off"}
    /\ handled \in Seq({Handled(l.value) : l \in Lines}) /\ Len(handled) <= Len(sent)

\* However the bytes are cut into pieces, each handler gets the values of the
\* lines of the present connection, as the pool meant them, in their order and
\* not one twice; what is not JSON goes to nobody (StratumClient.cpp:416-443,
\* 505-511).
LinesAsSent ==
    /\ Len(handled) <= Len(sent)
    /\ \A k \in 1 .. Len(handled) : handled[k] = Handled(sent[k].value)

\* When the thread waits for more, and when it has lost the connection, it has
\* handled every line that has arrived: none waits for the pool's next word
\* (StratumClient.cpp:507-511).
NoLineWaits ==
    reader # "lines" => \A k \in 1 .. Len(sent) : k <= Len(handled) <=> ends[k] <= received

-----------------------------------------------------------------------------
(* The inductive invariant behind them.                                     *)

\* Where line k begins, and where the text that is in lineBuffer does.
Start(k) == IF k = 1 THEN 0 ELSE ends[k - 1]

\* The stream is the lines, one after the other.
StreamIsLines ==
    /\ Len(stream) = Start(Len(sent) + 1)
    /\ \A k \in 1 .. Len(sent) :
          /\ ends[k] = Start(k) + Len(sent[k].text) + 1
          /\ ends[k] <= Len(stream)
          /\ stream[ends[k]] = "nl"
          /\ \A p \in 1 .. Len(sent[k].text) : stream[Start(k) + p] = sent[k].text[p]
    /\ \A j, k \in 1 .. Len(sent) : j < k => ends[j] < ends[k]

\* What has been handled is what is no longer in the buffer.
BufferIsRest == received - Len(lineBuffer) = Start(Len(handled) + 1)

\* The thread goes back to recv() when the buffer holds no end of a line.
OnlyPartsStay ==
    reader # "lines" => \A p \in DOMAIN lineBuffer : lineBuffer[p] # "nl"

IInv == TypeOK /\ LinesAsSent /\ StreamIsLines /\ BufferIsRest /\ OnlyPartsStay
=============================================================================
