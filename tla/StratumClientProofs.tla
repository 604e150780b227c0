------------------------- MODULE StratumClientProofs -------------------------
(***************************************************************************)
(* Safety of StratumClient for every number of workers, connections,       *)
(* shares and restarts.                                                    *)
(***************************************************************************)
EXTENDS StratumClient, TLAPS

USE ThreadsAssumption, BoundsAssumption DEF Conns, NoConn, Senders

\* A new client is in the invariant.
LEMMA InitIInv == Init => IInv
<1> SUFFICES ASSUME Init PROVE IInv
  OBVIOUS
<1>1. TypeOK
  <2>1. <<>> \in Seq(Pieces)
    OBVIOUS
  <2>2. wire \in [Conns -> Seq(Pieces)]
    BY <2>1 DEF Init
  <2>3. {running, pipe, byte, authorized} \subseteq BOOLEAN
    BY DEF Init
  <2>4. /\ fd \in Conns \cup {NoConn} /\ made \in 0 .. MaxConns
        /\ submits \in 0 .. MaxSubmits /\ starts \in 0 .. MaxStarts
    BY DEF Init
  <2>5. QED BY <2>2, <2>3, <2>4 DEF Init, TypeOK
<1>2. StopInv /\ MutexInv /\ NewConnInv
  BY DEF Init, StopInv, InterruptOnlyOnStop, MutexInv, NewConnInv
<1>3. \A c \in Conns : wire[c] = <<>> /\ Len(wire[c]) = 0
  BY DEF Init
<1>4. CutLineInv /\ LinesDoNotInterleave
  BY <1>3 DEF CutLineInv, LinesDoNotInterleave
<1>5. QED BY <1>1, <1>2, <1>4 DEF IInv

-----------------------------------------------------------------------------
(* Steps that send nothing.                                                 *)

\* A step that leaves the wires, the senders and the handshake alone, and may
\* only make connections unusable or take one away from socketFd_, keeps the
\* lines whole as they are.
LEMMA QuietLines ==
    ASSUME IInv, UNCHANGED <<wire, send>>,
           fd' = fd \/ fd' = NoConn,
           \A c \in Conns : Usable(c)' => Usable(c) \/ wire[c] = <<>>,
           send[Net] # "out" => net' = net
    PROVE  CutLineInv' /\ LinesDoNotInterleave'
<1>1. LinesDoNotInterleave'
  BY DEF IInv, LinesDoNotInterleave
<1>2. ASSUME NEW t \in Senders, send[t] = "rest"
      PROVE  Piece(t, "head")' = Piece(t, "head")
  BY <1>2 DEF Piece, Line
<1>3. CutLineInv'
  <2> SUFFICES ASSUME NEW c \in Conns, wire[c] # <<>>,
                      wire[c][Len(wire[c])].part = "head",
                      Usable(c)', c = fd'
               PROVE  \E t \in Senders :
                         /\ send[t] = "rest"
                         /\ wire[c][Len(wire[c])] = Piece(t, "head")'
    BY DEF CutLineInv
  <2>1. Usable(c) /\ c = fd
    OBVIOUS
  <2>2. PICK t \in Senders : /\ send[t] = "rest"
                             /\ wire[c][Len(wire[c])] = Piece(t, "head")
    BY <2>1 DEF IInv, CutLineInv
  <2>3. QED BY <2>2, <1>2
<1>4. QED BY <1>1, <1>3

\* The controlling thread: start(), and stop() around its disconnect().
LEMMA MainIInv ==
    ASSUME IInv, Start \/ StopRequest \/ StopInterrupt \/ StopJoin
    PROVE  IInv'
<1> USE DEF IInv, TypeOK, StopInv, InterruptOnlyOnStop, MutexInv, NewConnInv, pipeVars, countVars
<1>1. /\ UNCHANGED <<wire, send, fd, sock>>
      /\ send[Net] # "out" => net' = net
  BY DEF Start, StopRequest, StopInterrupt, StopJoin
<1>2. CutLineInv' /\ LinesDoNotInterleave'
  <2>1. \A c \in Conns : Usable(c)' => Usable(c)
    BY <1>1 DEF Usable
  <2>2. QED BY <1>1, <2>1, QuietLines
<1>3. CASE Start
  <2>1. TypeOK'
    <3>1. {running', pipe', byte', authorized'} \subseteq BOOLEAN
      BY <1>3 DEF Start
    <3>2. starts' \in 0 .. MaxStarts
      BY <1>3 DEF Start
    <3>3. QED BY <1>3, <3>1, <3>2 DEF Start
  <2>2. StopInv' /\ MutexInv' /\ NewConnInv'
    BY <1>3 DEF Start
  <2>3. QED BY <1>2, <2>1, <2>2
<1>4. CASE StopRequest \/ StopInterrupt \/ StopJoin
  <2>1. TypeOK'
    BY <1>4 DEF StopRequest, StopInterrupt, StopJoin
  <2>2. StopInv' /\ MutexInv' /\ NewConnInv'
    BY <1>4 DEF StopRequest, StopInterrupt, StopJoin
  <2>3. QED BY <1>2, <2>1, <2>2
<1>5. QED BY <1>3, <1>4

\* disconnect(), by either thread.
LEMMA DisconnectIInv ==
    ASSUME IInv,
           \/ NetShutDown \/ NetClose \/ NetClear \/ NetDeny
           \/ MainShutDown \/ MainClose \/ MainClear \/ MainDeny
    PROVE  IInv'
<1> USE DEF IInv, pipeVars, countVars
<1>1. /\ UNCHANGED <<wire, send, made, running, byte, pipe, submits, starts>>
      /\ fd' = fd \/ fd' = NoConn
      /\ sock' \in [Conns -> {"none", "up", "stalled", "dead", "closed"}]
      /\ \A c \in Conns : sock'[c] = sock[c] \/ sock'[c] \in {"dead", "closed"}
      /\ authorized' \in BOOLEAN
  BY DEF TypeOK, NetShutDown, NetClose, NetClear, NetDeny,
         MainShutDown, MainClose, MainClear, MainDeny, ShutDown, Close
<1>2. \/ UNCHANGED main /\ net \in {"shut", "close", "clear", "deny"}
                        /\ net' \in {"close", "clear", "deny", "wait"}
      \/ UNCHANGED net /\ main \in {"shut", "close", "clear", "deny"}
                       /\ main' \in {"close", "clear", "deny", "join"}
  BY DEF NetShutDown, NetClose, NetClear, NetDeny,
         MainShutDown, MainClose, MainClear, MainDeny, ShutDown, Close
<1>3. TypeOK'
  BY <1>1, <1>2 DEF TypeOK
<1>4. StopInv' /\ MutexInv' /\ NewConnInv'
  <2>1. StopInv' /\ MutexInv'
    BY <1>1, <1>2 DEF StopInv, InterruptOnlyOnStop, MutexInv
  <2>2. NewConnInv'
    BY <1>1, <1>2 DEF TypeOK, NewConnInv
  <2>3. QED BY <2>1, <2>2
<1>5. CutLineInv' /\ LinesDoNotInterleave'
  <2>1. \A c \in Conns : Usable(c)' => Usable(c)
    BY <1>1 DEF Usable
  <2>2. send[Net] # "out" => net' = net
    BY <1>2 DEF MutexInv
  <2>3. QED BY <1>1, <2>1, <2>2, QuietLines
<1>6. QED BY <1>3, <1>4, <1>5

\* The steps of runLoop() and connectOnce() that leave socketFd_ alone.
LEMMA LoopIInv ==
    ASSUME IInv,
           \/ Loop \/ ConnectFails \/ WaitEnds \/ Lost \/ EnterClosed
           \/ PollStopped \/ PollInterrupted \/ PollLost \/ PollError
           \/ Receive \/ Handle
           \/ \E c \in Conns : PeerCloses(c) \/ PeerStalls(c)
    PROVE  IInv'
<1> USE DEF IInv, pipeVars, countVars
<1>1. /\ UNCHANGED <<wire, send, fd, made, running, pipe, submits, starts, main>>
      /\ sock' \in [Conns -> {"none", "up", "stalled", "dead", "closed"}]
      /\ \A c \in Conns : \/ sock'[c] = sock[c] \/ sock'[c] = "dead"
                          \/ sock[c] = "up"
      /\ authorized' \in BOOLEAN
      /\ byte' = byte \/ byte' = FALSE
  BY DEF TypeOK, Loop, ConnectFails, WaitEnds, Lost, EnterClosed, PollStopped,
         PollInterrupted, PollLost, PollError, Receive, Handle, PeerCloses, PeerStalls
<1>2. \/ UNCHANGED net
      \/ /\ net # "off" /\ send[Net] = "out"
         /\ net' \in {"off", "connect", "shut", "lost", "loop", "poll", "handle"}
  BY DEF TypeOK, MutexInv, MutexFree, Loop, ConnectFails, WaitEnds, Lost,
         EnterClosed, PollStopped, PollInterrupted, PollLost, PollError, Receive, Handle,
         PeerCloses, PeerStalls
<1>3. TypeOK'
  <2>1. {running', pipe', byte', authorized'} \subseteq BOOLEAN
    BY <1>1 DEF TypeOK
  <2>2. QED BY <1>1, <1>2, <2>1 DEF TypeOK
<1>4. StopInv' /\ MutexInv' /\ NewConnInv'
  BY <1>1, <1>2 DEF TypeOK, StopInv, InterruptOnlyOnStop, MutexInv, NewConnInv
<1>5. CutLineInv' /\ LinesDoNotInterleave'
  <2>1. \A c \in Conns : Usable(c)' => Usable(c)
    BY <1>1 DEF Usable
  <2>2. QED BY <1>1, <1>2, <2>1, QuietLines
<1>6. QED BY <1>3, <1>4, <1>5

\* A new connection carries nothing until it is the current one.
LEMMA ConnectIInv ==
    ASSUME IInv, Connect \/ Assign
    PROVE  IInv'
<1> USE DEF IInv, pipeVars, countVars
<1>1. CASE Connect
  <2>1. TypeOK' /\ StopInv' /\ MutexInv' /\ NewConnInv'
    BY <1>1 DEF Connect, TypeOK, StopInv, InterruptOnlyOnStop, MutexInv, NewConnInv
  <2>2. \A c \in Conns : Usable(c)' => Usable(c) \/ wire[c] = <<>>
    BY <1>1 DEF Connect, Usable, TypeOK, NewConnInv
  <2>3. CutLineInv' /\ LinesDoNotInterleave'
    BY <1>1, <2>2, QuietLines DEF Connect, MutexInv
  <2>4. QED BY <2>1, <2>3
<1>2. CASE Assign
  <2>1. TypeOK' /\ StopInv' /\ MutexInv' /\ NewConnInv'
    BY <1>2 DEF Assign, TypeOK, StopInv, InterruptOnlyOnStop, MutexInv, NewConnInv
  <2>2. LinesDoNotInterleave'
    BY <1>2 DEF Assign, LinesDoNotInterleave
  <2>3. CutLineInv'
    BY <1>2 DEF Assign, CutLineInv, NewConnInv
  <2>4. QED BY <2>1, <2>2, <2>3
<1>3. QED BY <1>1, <1>2

-----------------------------------------------------------------------------
(* The steps of sendLine().                                                 *)

LEMMA EnterIInv ==
    ASSUME IInv, NEW t \in Senders, Enter(t)
    PROVE  IInv'
<1> USE DEF IInv, pipeVars, countVars
<1>1. TypeOK' /\ StopInv' /\ MutexInv' /\ NewConnInv'
  BY DEF Enter, MutexFree, TypeOK, StopInv, InterruptOnlyOnStop, MutexInv, NewConnInv
<1>2. LinesDoNotInterleave'
  BY DEF Enter, LinesDoNotInterleave
<1>3. CutLineInv'
  BY DEF Enter, MutexFree, CutLineInv, Usable
<1>4. QED BY <1>1, <1>2, <1>3

LEMMA WriteFailsIInv ==
    ASSUME IInv, NEW t \in Senders, WriteFails(t)
    PROVE  IInv'
<1> USE DEF IInv, pipeVars, countVars
<1>1. TypeOK' /\ StopInv' /\ MutexInv' /\ NewConnInv'
  BY DEF WriteFails, TypeOK, StopInv, InterruptOnlyOnStop, MutexInv, NewConnInv
<1>2. LinesDoNotInterleave'
  BY DEF WriteFails, LinesDoNotInterleave
<1>3. CutLineInv'
  BY DEF WriteFails, CutLineInv, Usable
<1>4. QED BY <1>1, <1>2, <1>3

\* Appending p to a wire w on which no line is cut, or whose cut line p
\* continues, leaves the lines of w in order.
LEMMA AppendLine ==
    ASSUME NEW w \in Seq(Pieces), NEW p \in Pieces,
           \A i \in 1 .. Len(w) - 1 :
              w[i].part = "head" => w[i + 1] = [w[i] EXCEPT !.part = "tail"],
           w # <<>> /\ w[Len(w)].part = "head" =>
              p = [w[Len(w)] EXCEPT !.part = "tail"]
    PROVE  /\ Append(w, p) \in Seq(Pieces)
           /\ Append(w, p) # <<>>
           /\ Append(w, p)[Len(Append(w, p))] = p
           /\ \A i \in 1 .. Len(Append(w, p)) - 1 :
                 Append(w, p)[i].part = "head" =>
                    Append(w, p)[i + 1] = [Append(w, p)[i] EXCEPT !.part = "tail"]
<1>1. /\ Len(w) \in Nat
      /\ Append(w, p) \in Seq(Pieces)
      /\ Append(w, p) # <<>>
      /\ Len(Append(w, p)) = Len(w) + 1
      /\ \A i \in 1 .. Len(w) : Append(w, p)[i] = w[i]
      /\ Append(w, p)[Len(w) + 1] = p
  OBVIOUS
<1>2. Len(w) # 0 => w # <<>>
  OBVIOUS
<1>3. QED BY <1>1, <1>2

\* A send() continues the line its thread began, or begins one on a wire
\* without a cut line.
LEMMA WriteIInv ==
    ASSUME IInv, NEW t \in Senders, WriteRest(t) \/ WriteSome(t)
    PROVE  IInv'
<1> USE DEF IInv, pipeVars, countVars
<1> DEFINE part == IF WriteSome(t) THEN "head"
                   ELSE IF send[t] = "start" THEN "all" ELSE "tail"
           p == Piece(t, part)
<1>1. /\ fd \in Conns /\ sock[fd] = "up" /\ send[t] # "out"
      /\ \/ /\ send[t] = "start" /\ part = "head"
            /\ send' = [send EXCEPT ![t] = "rest"] /\ net' = net
            /\ wire' = [wire EXCEPT ![fd] = Append(@, Piece(t, "head"))]
         \/ /\ part = IF send[t] = "start" THEN "all" ELSE "tail"
            /\ send' = [send EXCEPT ![t] = "out"]
            /\ net' = IF t # Net THEN net
                      ELSE IF net = "subscribe" THEN "authorize" ELSE "poll"
            /\ wire' = [wire EXCEPT ![fd] =
                  Append(@, Piece(t, IF send[t] = "start" THEN "all" ELSE "tail"))]
      /\ UNCHANGED <<running, pipe, byte, fd, authorized, sock, main, made, submits, starts>>
  BY DEF WriteRest, WriteSome, TypeOK
<1>2. wire' = [wire EXCEPT ![fd] = Append(@, p)]
  BY <1>1
<1>3. p \in Pieces /\ p.part = part /\ p.from = t /\ p.line = Line(t)
  BY <1>1 DEF Piece, Line, Pieces, MutexInv, TypeOK
<1>4. wire \in [Conns -> Seq(Pieces)]
  BY DEF TypeOK
<1>5. wire[fd] # <<>> /\ wire[fd][Len(wire[fd])].part = "head" =>
         p = [wire[fd][Len(wire[fd])] EXCEPT !.part = "tail"]
  <2> SUFFICES ASSUME wire[fd] # <<>>, wire[fd][Len(wire[fd])].part = "head"
               PROVE  p = [wire[fd][Len(wire[fd])] EXCEPT !.part = "tail"]
    OBVIOUS
  <2>1. Usable(fd)
    BY <1>1 DEF Usable
  <2>2. PICK u \in Senders : /\ send[u] = "rest"
                             /\ wire[fd][Len(wire[fd])] = Piece(u, "head")
    BY <1>1, <2>1 DEF CutLineInv
  <2>3. u = t
    BY <1>1, <2>2 DEF MutexInv
  <2>4. part = "tail"
    BY <1>1, <2>2, <2>3
  <2>5. QED BY <2>2, <2>3, <2>4 DEF Piece
<1> HIDE DEF p, part
<1>6. wire[fd] \in Seq(Pieces) /\ wire'[fd] = Append(wire[fd], p)
  BY <1>1, <1>2, <1>4
<1>7. /\ wire'[fd] \in Seq(Pieces)
      /\ wire'[fd] # <<>>
      /\ wire'[fd][Len(wire'[fd])] = p
      /\ \A i \in 1 .. Len(wire'[fd]) - 1 :
            wire'[fd][i].part = "head" =>
               wire'[fd][i + 1] = [wire'[fd][i] EXCEPT !.part = "tail"]
      /\ \A c \in Conns : c # fd => wire'[c] = wire[c]
  <2>1. \A i \in 1 .. Len(wire[fd]) - 1 :
           wire[fd][i].part = "head" =>
              wire[fd][i + 1] = [wire[fd][i] EXCEPT !.part = "tail"]
    BY <1>1 DEF LinesDoNotInterleave
  <2>2. \A c \in Conns : c # fd => wire'[c] = wire[c]
    BY <1>1, <1>2, <1>4
  <2>3. /\ Append(wire[fd], p) \in Seq(Pieces)
        /\ Append(wire[fd], p) # <<>>
        /\ Append(wire[fd], p)[Len(Append(wire[fd], p))] = p
        /\ \A i \in 1 .. Len(Append(wire[fd], p)) - 1 :
              Append(wire[fd], p)[i].part = "head" =>
                 Append(wire[fd], p)[i + 1] =
                    [Append(wire[fd], p)[i] EXCEPT !.part = "tail"]
    <3> DEFINE w == wire[fd]
    <3>1. w \in Seq(Pieces) /\ p \in Pieces
      BY <1>3, <1>6
    <3>2. \A i \in 1 .. Len(w) - 1 :
             w[i].part = "head" => w[i + 1] = [w[i] EXCEPT !.part = "tail"]
      BY <2>1
    <3>3. w # <<>> /\ w[Len(w)].part = "head" => p = [w[Len(w)] EXCEPT !.part = "tail"]
      BY <1>5
    <3> HIDE DEF w
    <3>4. QED BY <3>1, <3>2, <3>3, AppendLine DEF w
  <2>4. QED BY <1>6, <2>2, <2>3
<1>8. wire' \in [Conns -> Seq(Pieces)]
  BY <1>1, <1>2, <1>4, <1>7
<1>9. net' = net \/ (send[Net] # "out" /\ net' \in {"authorize", "poll"})
  BY <1>1
<1>10. TypeOK'
  <2>1. {running', pipe', byte', authorized'} \subseteq BOOLEAN
    BY <1>1 DEF TypeOK
  <2>2. send' \in [Senders -> {"out", "start", "rest"}]
    BY <1>1 DEF TypeOK
  <2>3. QED BY <1>1, <1>8, <1>9, <2>1, <2>2 DEF TypeOK
<1>11. StopInv' /\ MutexInv'
  BY <1>1 DEF TypeOK, StopInv, InterruptOnlyOnStop, MutexInv
<1>12. NewConnInv'
  <2>1. made' = made /\ fd' = fd /\ fd <= made /\ fd \in Nat /\ made \in Nat
    BY <1>1 DEF TypeOK, NewConnInv
  <2>2. \A c \in Conns : c > made => wire'[c] = <<>>
    BY <1>7, <2>1 DEF NewConnInv
  <2>3. net' = "assign" => fd # made /\ made \in Conns /\ wire'[made] = <<>>
    BY <1>7, <1>9 DEF NewConnInv
  <2>4. QED BY <2>1, <2>2, <2>3 DEF NewConnInv
<1>13. LinesDoNotInterleave'
  <2> SUFFICES ASSUME NEW c \in Conns, NEW i \in 1 .. Len(wire'[c]) - 1,
                      wire'[c][i].part = "head"
               PROVE  wire'[c][i + 1] = [wire'[c][i] EXCEPT !.part = "tail"]
    BY DEF LinesDoNotInterleave
  <2>1. CASE c = fd
    BY <1>7, <2>1
  <2>2. CASE c # fd
    <3>1. wire'[c] = wire[c]
      BY <1>7, <2>2
    <3>2. QED BY <3>1 DEF LinesDoNotInterleave
  <2>3. QED BY <2>1, <2>2
<1>14. CutLineInv'
  <2> SUFFICES ASSUME NEW c \in Conns, c = fd,
                      wire'[c] # <<>>, wire'[c][Len(wire'[c])].part = "head"
               PROVE  \E u \in Senders :
                         /\ send'[u] = "rest"
                         /\ wire'[c][Len(wire'[c])] = Piece(u, "head")'
    BY <1>1 DEF CutLineInv
  <2>1. part = "head"
    BY <1>3, <1>7
  <2>2. send'[t] = "rest" /\ net' = net
    BY <1>1, <2>1 DEF TypeOK
  <2>3. p = Piece(t, "head")'
    BY <2>1, <2>2 DEF p, Piece, Line
  <2>4. QED BY <1>7, <2>2, <2>3
<1>15. QED BY <1>10, <1>11, <1>12, <1>13, <1>14

-----------------------------------------------------------------------------
LEMMA NextIInv == IInv /\ [Next]_vars => IInv'
<1> SUFFICES ASSUME IInv, [Next]_vars PROVE IInv'
  OBVIOUS
<1>1. ASSUME NEW t \in Senders,
             Enter(t) \/ WriteRest(t) \/ WriteSome(t) \/ WriteFails(t)
      PROVE  IInv'
  BY <1>1, EnterIInv, WriteIInv, WriteFailsIInv
<1>2. ASSUME NEW c \in Conns, PeerCloses(c) \/ PeerStalls(c) PROVE IInv'
  BY <1>2, LoopIInv
<1>3. CASE UNCHANGED vars
  <2>1. /\ UNCHANGED <<running, pipe, byte, fd, authorized, sock, wire, send>>
        /\ UNCHANGED <<net, main, made, submits, starts>>
    BY <1>3 DEF vars
  <2>2. TypeOK'
    BY <2>1 DEF IInv, TypeOK
  <2>3. StopInv' /\ MutexInv' /\ NewConnInv'
    BY <2>1 DEF IInv, StopInv, InterruptOnlyOnStop, MutexInv, NewConnInv
  <2>4. CutLineInv' /\ LinesDoNotInterleave'
    BY <2>1, QuietLines DEF Usable
  <2>5. QED BY <2>2, <2>3, <2>4 DEF IInv
<1>4. CASE Next
  BY <1>1, <1>2, <1>4, MainIInv, DisconnectIInv, LoopIInv, ConnectIInv
     DEF Next, NetSteps, StopSteps, SendSteps
<1>5. QED BY <1>3, <1>4

LEMMA Invariance == Spec => []IInv
BY InitIInv, NextIInv, PTL DEF Spec

\* Every behaviour is well typed: no socket is used that does not exist.
THEOREM TypeCorrect == Spec => []TypeOK
<1>1. IInv => TypeOK  BY DEF IInv
<1>2. QED BY <1>1, Invariance, PTL

\* The network thread is interrupted only by a stop() of its own run, however
\* often the client is stopped and started again.
THEOREM InterruptedOnlyByStop == Spec => []InterruptOnlyOnStop
<1>1. IInv => InterruptOnlyOnStop  BY DEF IInv, StopInv
<1>2. QED BY <1>1, Invariance, PTL

\* Lines of different threads never mix on a connection, for any number of
\* workers and reconnects.
THEOREM LinesStayInOrder == Spec => []LinesDoNotInterleave
<1>1. IInv => LinesDoNotInterleave  BY DEF IInv
<1>2. QED BY <1>1, Invariance, PTL

-----------------------------------------------------------------------------
(* The order of the handshake.                                              *)

\* A step that sends nothing and changes nothing of the connection being made,
\* unless it gives the handshake up.
LEMMA QuietHandshake ==
    ASSUME HandshakeInOrder, HandshakeInv, UNCHANGED wire,
           net' \in {"subscribe", "authorize"} =>
              /\ UNCHANGED <<net, made>>
              /\ fd' \in {fd, NoConn}
              /\ send[Net] = "rest" => send'[Net] = "rest"
    PROVE  HandshakeInOrder' /\ HandshakeInv'
<1>1. HandshakeInOrder'
  BY DEF HandshakeInOrder, Before, Completes
<1>2. HandshakeInv'
  <2> SUFFICES ASSUME net' \in {"subscribe", "authorize"}
               PROVE  HandshakeInv'
    BY DEF HandshakeInv
  <2>1. Piece(Net, "head")' = Piece(Net, "head")
    BY DEF Piece, Line
  <2>2. QED BY <2>1 DEF HandshakeInv, Completes
<1>3. QED BY <1>1, <1>2

\* The handshake of a new connection begins with an empty wire.
LEMMA AssignHandshake ==
    ASSUME IInv, HandshakeInOrder, HandshakeInv, Assign
    PROVE  HandshakeInOrder' /\ HandshakeInv'
<1>1. /\ UNCHANGED <<wire, made, send>> /\ fd' = made /\ net' = "subscribe"
      /\ made \in Conns /\ wire[made] = <<>>
  BY DEF Assign, IInv, NewConnInv
<1>2. Len(wire'[made]) = 0
  BY <1>1
<1>3. HandshakeInOrder'
  BY <1>1 DEF HandshakeInOrder, Before, Completes
<1>4. HandshakeInv'
  BY <1>1, <1>2 DEF HandshakeInv
<1>5. QED BY <1>3, <1>4

\* Appending to a wire leaves what is on it where it is.
LEMMA AppendPiece ==
    ASSUME NEW w \in Seq(Pieces), NEW p \in Pieces
    PROVE  /\ Len(w) \in Nat
           /\ Len(Append(w, p)) = Len(w) + 1
           /\ \A i \in 1 .. Len(w) : Append(w, p)[i] = w[i]
           /\ Append(w, p)[Len(w) + 1] = p
OBVIOUS

\* What a send() does, whoever calls it.
LEMMA WriteFacts ==
    ASSUME IInv, NEW t \in Senders, WriteRest(t) \/ WriteSome(t)
    PROVE  /\ fd \in Conns /\ send[t] # "out"
           /\ UNCHANGED <<fd, made>>
           /\ \E part \in {"all", "head", "tail"} :
                 /\ part = "head" <=> WriteSome(t)
                 /\ part = "tail" <=> send[t] = "rest"
                 /\ Piece(t, part) \in Pieces
                 /\ wire' = [wire EXCEPT ![fd] = Append(@, Piece(t, part))]
                 /\ Len(wire[fd]) \in Nat
                 /\ Len(wire'[fd]) = Len(wire[fd]) + 1
                 /\ \A i \in 1 .. Len(wire[fd]) : wire'[fd][i] = wire[fd][i]
                 /\ wire'[fd][Len(wire[fd]) + 1] = Piece(t, part)
                 /\ \A c \in Conns : c # fd => wire'[c] = wire[c]
                 /\ send' = [send EXCEPT ![t] = IF part = "head" THEN "rest" ELSE "out"]
                 /\ net' = IF t # Net \/ part = "head" THEN net
                           ELSE IF net = "subscribe" THEN "authorize" ELSE "poll"
<1>1. /\ fd \in Conns /\ send[t] # "out" /\ UNCHANGED <<fd, made>>
      /\ send[t] \in {"start", "rest"}
  BY DEF WriteRest, WriteSome, IInv, TypeOK
<1>2. PICK part \in {"all", "head", "tail"} :
         /\ part = "head" <=> WriteSome(t)
         /\ part = "tail" <=> send[t] = "rest"
         /\ wire' = [wire EXCEPT ![fd] = Append(@, Piece(t, part))]
         /\ send' = [send EXCEPT ![t] = IF part = "head" THEN "rest" ELSE "out"]
         /\ net' = IF t # Net \/ part = "head" THEN net
                   ELSE IF net = "subscribe" THEN "authorize" ELSE "poll"
  <2>1. CASE WriteSome(t)
    BY <2>1 DEF WriteSome
  <2>2. CASE ~WriteSome(t)
    BY <1>1, <2>2 DEF WriteRest, WriteSome, IInv, TypeOK
  <2>3. QED BY <2>1, <2>2
<1>3. Piece(t, part) \in Pieces
  BY <1>1 DEF Piece, Line, Pieces, IInv, MutexInv, TypeOK
<1>4. wire[fd] \in Seq(Pieces) /\ wire'[fd] = Append(wire[fd], Piece(t, part))
  BY <1>1, <1>2 DEF IInv, TypeOK
<1>5. \A c \in Conns : c # fd => wire'[c] = wire[c]
  BY <1>2 DEF IInv, TypeOK
<1>6. /\ Len(wire[fd]) \in Nat
      /\ Len(wire'[fd]) = Len(wire[fd]) + 1
      /\ \A i \in 1 .. Len(wire[fd]) : wire'[fd][i] = wire[fd][i]
      /\ wire'[fd][Len(wire[fd]) + 1] = Piece(t, part)
  BY <1>3, <1>4, AppendPiece
<1>7. QED BY <1>1, <1>2, <1>3, <1>5, <1>6

\* A share among the lines of the handshake does not disturb them.
LEMMA ShareHandshake ==
    ASSUME IInv, HandshakeInOrder, HandshakeInv,
           NEW w \in Workers, WriteRest(w) \/ WriteSome(w)
    PROVE  HandshakeInOrder' /\ HandshakeInv'
<1>1. PICK p \in Pieces :
         /\ fd \in Conns /\ UNCHANGED <<fd, made, net>> /\ p.from = w
         /\ Len(wire[fd]) \in Nat
         /\ Len(wire'[fd]) = Len(wire[fd]) + 1
         /\ \A i \in 1 .. Len(wire[fd]) : wire'[fd][i] = wire[fd][i]
         /\ wire'[fd][Len(wire[fd]) + 1] = p
         /\ \A c \in Conns : c # fd => wire'[c] = wire[c]
         /\ send'[Net] = send[Net]
  <2>1. w \in Senders /\ w # Net
    OBVIOUS
  <2>2. PICK part \in {"all", "head", "tail"} :
           /\ Piece(w, part) \in Pieces
           /\ Len(wire[fd]) \in Nat
           /\ Len(wire'[fd]) = Len(wire[fd]) + 1
           /\ \A i \in 1 .. Len(wire[fd]) : wire'[fd][i] = wire[fd][i]
           /\ wire'[fd][Len(wire[fd]) + 1] = Piece(w, part)
           /\ \A c \in Conns : c # fd => wire'[c] = wire[c]
           /\ send' = [send EXCEPT ![w] = IF part = "head" THEN "rest" ELSE "out"]
           /\ net' = net
    BY <2>1, WriteFacts
  <2>3. fd \in Conns /\ UNCHANGED <<fd, made>>
    BY <2>1, WriteFacts
  <2>4. send'[Net] = send[Net]
    BY <2>1, <2>2 DEF IInv, TypeOK
  <2>5. Piece(w, part).from = w
    BY DEF Piece
  <2>6. QED BY <2>2, <2>3, <2>4, <2>5
<1> \A c \in Conns : Len(wire[c]) \in Nat
  BY DEF IInv, TypeOK
<1>2. HandshakeInOrder'
  <2> SUFFICES ASSUME NEW c \in Conns, NEW j \in 1 .. Len(wire'[c]),
                      wire'[c][j].from = Net
               PROVE  /\ \A i \in 1 .. j - 1 : wire'[c][i].from = Net => Before(wire'[c][i], wire'[c][j])
                      /\ wire'[c][j].line = "authorize" =>
                           \E i \in 1 .. j - 1 : Completes(wire'[c][i], "subscribe")
    BY DEF HandshakeInOrder, Before, Completes
  <2>1. /\ j \in 1 .. Len(wire[c])
        /\ \A i \in 1 .. j : wire'[c][i] = wire[c][i]
    <3>1. CASE c = fd
      <4>1. j # Len(wire[c]) + 1
        BY <1>1, <3>1
      <4>2. j \in 1 .. Len(wire[fd]) + 1
        BY <1>1, <3>1
      <4>3. /\ j \in 1 .. Len(wire[fd])
            /\ \A i \in 1 .. j : i \in 1 .. Len(wire[fd])
        BY <1>1, <3>1, <4>1, <4>2
      <4>4. QED BY <1>1, <3>1, <4>3
    <3>2. CASE c # fd
      BY <1>1, <3>2
    <3>3. QED BY <3>1, <3>2
  <2>2. wire'[c][j] = wire[c][j] /\ \A i \in 1 .. j - 1 : wire'[c][i] = wire[c][i]
    BY <2>1
  <2>3. /\ \A i \in 1 .. j - 1 : wire[c][i].from = Net => Before(wire[c][i], wire[c][j])
        /\ wire[c][j].line = "authorize" =>
              \E i \in 1 .. j - 1 : Completes(wire[c][i], "subscribe")
    BY <2>1, <2>2 DEF HandshakeInOrder
  <2>4. QED BY <2>2, <2>3
<1>3. HandshakeInv'
  <2> SUFFICES ASSUME net \in {"subscribe", "authorize"}
               PROVE  HandshakeInv'
    BY <1>1 DEF HandshakeInv
  <2>1. made \in Conns
    BY DEF HandshakeInv
  <2>2. /\ \A i \in 1 .. Len(wire'[made]) :
              wire'[made][i].from = Net =>
                 i \in 1 .. Len(wire[made]) /\ wire'[made][i] = wire[made][i]
        /\ \A i \in 1 .. Len(wire[made]) :
              i \in 1 .. Len(wire'[made]) /\ wire'[made][i] = wire[made][i]
    <3>1. CASE made = fd
      <4>1. \A i \in 1 .. Len(wire'[made]) :
               wire'[made][i].from = Net => i # Len(wire[made]) + 1
        BY <1>1, <3>1
      <4>2. QED BY <1>1, <3>1, <4>1
    <3>2. CASE made # fd
      BY <1>1, <2>1, <3>2
    <3>3. QED BY <3>1, <3>2
  <2>3. Piece(Net, "head")' = Piece(Net, "head")
    BY <1>1 DEF Piece, Line
  <2>4. QED BY <1>1, <2>1, <2>2, <2>3 DEF HandshakeInv, Completes
<1>4. QED BY <1>2, <1>3

\* The network thread sends the next piece of its handshake, on the connection
\* just made.
LEMMA NetHandshake ==
    ASSUME IInv, HandshakeInOrder, HandshakeInv, WriteRest(Net) \/ WriteSome(Net)
    PROVE  HandshakeInOrder' /\ HandshakeInv'
<1>1. /\ net \in {"subscribe", "authorize"} /\ send[Net] # "out"
      /\ fd \in Conns /\ fd = made
  BY WriteFacts DEF IInv, MutexInv, HandshakeInv
<1>2. PICK part \in {"all", "head", "tail"} :
         /\ part = "tail" <=> send[Net] = "rest"
         /\ Len(wire[made]) \in Nat
         /\ Len(wire'[made]) = Len(wire[made]) + 1
         /\ \A i \in 1 .. Len(wire[made]) : wire'[made][i] = wire[made][i]
         /\ wire'[made][Len(wire[made]) + 1] = [from |-> Net, line |-> net, part |-> part]
         /\ \A c \in Conns : c # made => wire'[c] = wire[c]
         /\ part = "head" => send'[Net] = "rest"
         /\ net' = IF part = "head" THEN net
                   ELSE IF net = "subscribe" THEN "authorize" ELSE "poll"
         /\ UNCHANGED <<fd, made>>
  BY <1>1, WriteFacts DEF Piece, Line, IInv, TypeOK
<1> DEFINE n == Len(wire[made]) + 1
           p == [from |-> Net, line |-> net, part |-> part]
<1>3. n \in Nat /\ n \in 1 .. Len(wire'[made]) /\ wire'[made][n] = p
  BY <1>2
<1>4. \A i \in 1 .. n - 1 : wire'[made][i] = wire[made][i]
  BY <1>2
<1>5. ASSUME NEW i \in 1 .. n - 1, wire[made][i].from = Net
      PROVE  Before(wire[made][i], p)
  <2>1. i \in 1 .. Len(wire[made]) /\ wire[made][i] \in Pieces
    BY <1>1, <1>2 DEF IInv, TypeOK
  <2>2. wire[made][i].line \in {"subscribe", "authorize"}
    <3>1. CASE net = "subscribe"
      BY <1>1, <1>5, <2>1, <3>1 DEF HandshakeInv, Piece, Line
    <3>2. CASE net = "authorize"
      <4>1. PICK k \in 1 .. Len(wire[made]) : Completes(wire[made][k], "subscribe")
        BY <3>2 DEF HandshakeInv
      <4>2. CASE k = i
        BY <4>1, <4>2 DEF Completes
      <4>3. CASE k < i
        BY <1>1, <1>5, <2>1, <4>1, <4>3 DEF HandshakeInOrder, Before, Completes
      <4>4. CASE i < k
        BY <1>1, <1>5, <2>1, <4>1, <4>4 DEF HandshakeInOrder, Before, Completes
      <4>5. QED BY <4>2, <4>3, <4>4, <2>1
    <3>3. QED BY <1>1, <3>1, <3>2
  <2>3. CASE net = "authorize" /\ wire[made][i].line = "subscribe"
    BY <2>3 DEF Before
  <2>4. CASE net = "subscribe" \/ wire[made][i].line = net
    <3>1. /\ wire[made][i] = [from |-> Net, line |-> net, part |-> "head"]
          /\ send[Net] = "rest"
      BY <1>1, <1>5, <2>1, <2>4 DEF HandshakeInv, Piece, Line
    <3>2. QED BY <1>2, <3>1 DEF Before
  <2>5. QED BY <1>1, <2>2, <2>3, <2>4
<1>6. net = "authorize" =>
         \E i \in 1 .. n - 1 : Completes(wire'[made][i], "subscribe")
  BY <1>2 DEF HandshakeInv, Completes
<1> HIDE DEF n, p
<1>7. HandshakeInOrder'
  <2> SUFFICES ASSUME NEW c \in Conns, NEW j \in 1 .. Len(wire'[c]),
                      wire'[c][j].from = Net
               PROVE  /\ \A i \in 1 .. j - 1 : wire'[c][i].from = Net => Before(wire'[c][i], wire'[c][j])
                      /\ wire'[c][j].line = "authorize" =>
                           \E i \in 1 .. j - 1 : Completes(wire'[c][i], "subscribe")
    BY DEF HandshakeInOrder, Before, Completes
  <2>1. CASE c = made /\ j = n
    <3>1. wire'[c][j] = p /\ p.line = net
      BY <1>3, <2>1 DEF p
    <3>2. QED BY <1>4, <1>5, <1>6, <2>1, <3>1
  <2>2. CASE c # made \/ j # n
    <3>1. /\ j \in 1 .. Len(wire[c])
          /\ \A i \in 1 .. j : wire'[c][i] = wire[c][i]
      BY <1>2, <2>2 DEF n
    <3>2. wire'[c][j] = wire[c][j] /\ \A i \in 1 .. j - 1 : wire'[c][i] = wire[c][i]
      BY <3>1
    <3>3. /\ \A i \in 1 .. j - 1 : wire[c][i].from = Net => Before(wire[c][i], wire[c][j])
          /\ wire[c][j].line = "authorize" =>
                \E i \in 1 .. j - 1 : Completes(wire[c][i], "subscribe")
      BY <3>1, <3>2 DEF HandshakeInOrder
    <3>4. QED BY <3>2, <3>3
  <2>3. QED BY <2>1, <2>2
<1>8. HandshakeInv'
  <2> SUFFICES ASSUME net' \in {"subscribe", "authorize"}
               PROVE  HandshakeInv'
    BY DEF HandshakeInv
  <2>1. made' \in Conns /\ fd' \in {made', NoConn}
    BY <1>1, <1>2
  <2>2. CASE part = "head"
    <3>1. net' = net /\ send'[Net] = "rest" /\ p = Piece(Net, "head")'
      BY <1>2, <2>2 DEF p, Piece, Line
    <3>2. ASSUME NEW i \in 1 .. Len(wire'[made]), wire'[made][i].from = Net,
                 net = "subscribe" \/ wire'[made][i].line = net
          PROVE  wire'[made][i] = p
      <4>1. CASE i = n
        BY <1>3, <4>1
      <4>2. CASE i # n
        <5>1. i \in 1 .. Len(wire[made]) /\ wire'[made][i] = wire[made][i]
          BY <1>2, <4>2 DEF n
        <5>2. send[Net] = "rest"
          BY <3>2, <5>1, <1>1 DEF HandshakeInv
        <5>3. QED BY <5>2, <1>2, <2>2
      <4>3. QED BY <4>1, <4>2
    <3>3. net = "authorize" =>
             \E i \in 1 .. Len(wire'[made]) : Completes(wire'[made][i], "subscribe")
      BY <1>6, <1>2 DEF n
    <3>4. QED BY <1>2, <2>1, <3>1, <3>2, <3>3 DEF HandshakeInv, Completes
  <2>3. CASE part # "head"
    <3>1. net = "subscribe" /\ net' = "authorize"
      BY <1>1, <1>2, <2>3
    <3>2. Completes(wire'[made][n], "subscribe")
      BY <1>3, <2>3, <3>1 DEF Completes, p
    <3>3. ASSUME NEW i \in 1 .. Len(wire'[made]), wire'[made][i].from = Net
          PROVE  wire'[made][i].line # "authorize"
      <4>1. CASE i = n
        BY <1>3, <3>1, <4>1 DEF p
      <4>2. CASE i # n
        <5>1. i \in 1 .. Len(wire[made]) /\ wire'[made][i] = wire[made][i]
          BY <1>2, <4>2 DEF n
        <5>2. QED BY <1>1, <3>1, <3>3, <5>1 DEF HandshakeInv, Piece, Line
      <4>3. QED BY <4>1, <4>2
    <3>4. QED BY <1>2, <1>3, <2>1, <3>1, <3>2, <3>3 DEF HandshakeInv, Completes
  <2>4. QED BY <2>2, <2>3
<1>9. QED BY <1>7, <1>8

LEMMA InitHandshake == Init => HandshakeInOrder /\ HandshakeInv
<1> SUFFICES ASSUME Init PROVE HandshakeInOrder /\ HandshakeInv
  OBVIOUS
<1>1. \A c \in Conns : Len(wire[c]) = 0
  BY DEF Init
<1>2. QED BY <1>1 DEF Init, HandshakeInOrder, HandshakeInv

LEMMA NextHandshake ==
    IInv /\ HandshakeInOrder /\ HandshakeInv /\ [Next]_vars
       => HandshakeInOrder' /\ HandshakeInv'
<1> SUFFICES ASSUME IInv, HandshakeInOrder, HandshakeInv, [Next]_vars
             PROVE  HandshakeInOrder' /\ HandshakeInv'
  OBVIOUS
<1>1. CASE Start \/ StopRequest \/ StopSteps
  <2>1. UNCHANGED <<wire, send, made>> /\ fd' \in {fd, NoConn}
    BY <1>1 DEF Start, StopRequest, StopSteps, StopInterrupt, StopJoin,
                MainShutDown, MainClose, MainClear, MainDeny, pipeVars, countVars
  <2>2. net' = net \/ net' = "loop"
    BY <1>1 DEF Start, StopRequest, StopSteps, StopInterrupt, StopJoin,
                MainShutDown, MainClose, MainClear, MainDeny
  <2>3. QED BY <2>1, <2>2, QuietHandshake
<1>2. CASE \/ Loop \/ ConnectFails \/ Connect \/ EnterClosed
           \/ PollStopped \/ PollInterrupted \/ PollLost \/ PollError
           \/ Receive \/ Handle \/ Lost \/ WaitEnds
           \/ NetShutDown \/ NetClose \/ NetClear \/ NetDeny
  <2>1. UNCHANGED wire /\ net' \notin {"subscribe", "authorize"}
    BY <1>2 DEF Loop, ConnectFails, Connect, EnterClosed, PollStopped,
                PollInterrupted, PollLost, PollError, Receive, Handle, Lost, WaitEnds,
                NetShutDown, NetClose,
                NetClear, NetDeny, ShutDown, Close
  <2>2. QED BY <2>1, QuietHandshake
<1>3. CASE \E c \in Conns : PeerCloses(c) \/ PeerStalls(c)
  <2>1. UNCHANGED <<wire, send, made, fd, net>>
    BY <1>3 DEF PeerCloses, PeerStalls
  <2>2. QED BY <2>1, QuietHandshake
<1>4. ASSUME NEW t \in Senders, Enter(t) \/ WriteFails(t)
      PROVE  HandshakeInOrder' /\ HandshakeInv'
  <2>1. /\ UNCHANGED <<wire, made, fd>>
        /\ net' = net \/ net' = "shut"
        /\ send' \in {[send EXCEPT ![t] = "start"], [send EXCEPT ![t] = "out"]}
    BY <1>4 DEF Enter, WriteFails
  <2>2. /\ Enter(t) => send[Net] = "out"
        /\ WriteFails(t) /\ t # Net => send'[Net] = send[Net]
        /\ WriteFails(t) /\ t = Net => net' = "shut"
    BY DEF Enter, MutexFree, WriteFails, IInv, TypeOK
  <2>3. QED BY <1>4, <2>1, <2>2, QuietHandshake
<1>5. ASSUME NEW t \in Senders, WriteRest(t) \/ WriteSome(t)
      PROVE  HandshakeInOrder' /\ HandshakeInv'
  BY <1>5, ShareHandshake, NetHandshake
<1>6. CASE Assign
  BY <1>6, AssignHandshake
<1>7. CASE UNCHANGED vars
  <2>1. UNCHANGED <<wire, send, made, fd, net>>
    BY <1>7 DEF vars
  <2>2. QED BY <2>1, QuietHandshake
<1>8. QED
  BY <1>1, <1>2, <1>3, <1>4, <1>5, <1>6, <1>7 DEF Next, NetSteps, SendSteps

\* On every connection mining.subscribe goes out whole before mining.authorize,
\* each once, whatever workers send among them and however often the client
\* reconnects or is restarted.
THEOREM HandshakeOrdered == Spec => []HandshakeInOrder
BY InitHandshake, NextHandshake, Invariance, PTL DEF Spec

-----------------------------------------------------------------------------
(* The first run of the client: descriptors and authorized_.                *)

LEMMA InitFirstRun == Init => FirstRunInv
BY DEF Init, FirstRunInv, NoneOpen, Open

\* Closing sockets and writing lines disturbs nothing that FirstRunInv says of
\* the sockets and the wires.
LEMMA QuietSockets ==
    ASSUME IInv, FirstRunInv, UNCHANGED made,
           \A c \in Conns : sock'[c] = sock[c] \/ sock'[c] \in {"dead", "closed"} \/ sock[c] = "up",
           \A c \in Conns : Open(c)' => Open(c),
           \A c \in Conns : sock'[c] = "none" => sock[c] = "none"
    PROVE  /\ \A c \in 1 .. made : sock'[c] # "none"
           /\ NoneOpen => NoneOpen'
           /\ starts = 1 => \A c \in Conns : Open(c)' => c = made
BY DEF IInv, TypeOK, FirstRunInv, NoneOpen

LEMMA MainFirstRun ==
    ASSUME IInv, FirstRunInv, Start \/ StopRequest \/ StopInterrupt \/ StopJoin
    PROVE  FirstRunInv'
<1>1. UNCHANGED <<fd, authorized, sock, wire, made>>
  BY DEF Start, StopRequest, StopInterrupt, StopJoin
<1>2. CASE Start
  <2>1. starts' = starts + 1 /\ running' /\ net' = "loop" /\ main' = main /\ starts \in Nat
    BY <1>2 DEF Start, IInv, TypeOK
  <2>2. starts' = 1 => starts = 0
    BY <2>1
  <2>3. QED
    BY <1>1, <2>1, <2>2 DEF FirstRunInv, FirstRun, NoneOpen, Open
<1>3. CASE StopRequest \/ StopInterrupt \/ StopJoin
  <2>1. UNCHANGED <<starts, net>> /\ ~running'
    BY <1>3 DEF StopRequest, StopInterrupt, StopJoin, IInv, StopInv, countVars
  <2>2. starts # 0
    BY <1>3 DEF StopRequest, StopInterrupt, StopJoin, FirstRunInv
  <2>3. QED
    BY <1>1, <2>1, <2>2 DEF FirstRunInv, NoneOpen, Open
<1>4. QED BY <1>2, <1>3

\* stop() has cleared running_, so its disconnect() can only close.
LEMMA StopFirstRun ==
    ASSUME IInv, FirstRunInv,
           MainShutDown \/ MainClose \/ MainClear \/ MainDeny
    PROVE  FirstRunInv'
<1>1. /\ ~running /\ UNCHANGED <<running, made, net, starts, wire>> /\ starts # 0
  BY DEF MainShutDown, MainClose, MainClear, MainDeny, IInv, StopInv, FirstRunInv, countVars
<1>2. fd \in Nat /\ made \in 0 .. MaxConns /\ fd <= made
  BY DEF IInv, TypeOK, NewConnInv
<1>3. fd # NoConn => fd \in 1 .. made /\ sock[fd] # "none"
  BY <1>2 DEF FirstRunInv
<1>4. \A c \in Conns : \/ sock'[c] = sock[c]
                       \/ c = fd /\ sock'[c] \in {"dead", "closed"}
  BY DEF MainShutDown, MainClose, MainClear, MainDeny, ShutDown, Close, IInv, TypeOK
<1>5. \A c \in Conns : Open(c)' => Open(c)
  BY <1>3 DEF Open, MainShutDown, MainClose, MainClear, MainDeny, ShutDown, Close, IInv, TypeOK
<1>6. \A c \in Conns : sock'[c] = "none" => sock[c] = "none"
  BY <1>4
<1>7. QED BY <1>1, <1>4, <1>5, <1>6, QuietSockets DEF FirstRunInv

LEMMA NetDisconnectFirstRun ==
    ASSUME IInv, FirstRunInv,
           NetShutDown \/ NetClose \/ NetClear \/ NetDeny
    PROVE  FirstRunInv'
<1>1. UNCHANGED <<running, main, made, starts, wire>>
  BY DEF NetShutDown, NetClose, NetClear, NetDeny, countVars
<1>2. fd \in Nat /\ made \in 0 .. MaxConns /\ fd <= made
  BY DEF IInv, TypeOK, NewConnInv
<1>3. fd # NoConn => fd \in 1 .. made /\ sock[fd] # "none"
  BY <1>2 DEF FirstRunInv
<1>4. \A c \in Conns : \/ sock'[c] = sock[c]
                       \/ c = fd /\ sock'[c] \in {"dead", "closed"}
  BY DEF NetShutDown, NetClose, NetClear, NetDeny, ShutDown, Close, IInv, TypeOK
<1>5. \A c \in Conns : Open(c)' => Open(c)
  BY <1>3 DEF Open, NetShutDown, NetClose, NetClear, NetDeny, ShutDown, Close, IInv, TypeOK
<1>6. /\ \A c \in 1 .. made : sock'[c] # "none"
      /\ NoneOpen => NoneOpen'
      /\ starts = 1 => \A c \in Conns : Open(c)' => c = made
  <2>1. \A c \in Conns : sock'[c] = "none" => sock[c] = "none"
    BY <1>4
  <2>2. QED BY <1>1, <1>4, <1>5, <2>1, QuietSockets
<1>7. starts # 0 /\ net' # "connect"
  BY DEF NetShutDown, NetClose, NetClear, NetDeny, ShutDown, Close,
         IInv, StopInv, FirstRunInv
<1>8. ASSUME starts = 1, running PROVE FirstRun'
  <2>1. FirstRun
    BY <1>8 DEF FirstRunInv
  <2>2. Authorizes(made)' = Authorizes(made)
    BY <1>1 DEF Authorizes
  <2>3. CASE NetShutDown
    <3>1. authorized' = authorized /\ fd' = fd /\ (fd = made \/ (fd = NoConn /\ NoneOpen))
      BY <2>1, <2>3 DEF NetShutDown, FirstRun
    <3>2. CASE fd = NoConn
      <4>1. NoneOpen'
        BY <1>6, <1>8, <3>1, <3>2 DEF NoneOpen
      <4>2. net' = "deny"
        BY <2>3, <3>2 DEF NetShutDown, ShutDown
      <4>3. QED BY <2>1, <2>2, <2>3, <3>1, <3>2, <4>1, <4>2 DEF NetShutDown, FirstRun
    <3>3. CASE fd # NoConn
      <4>1. net' = "close" /\ net = "shut"
        BY <2>3, <3>3 DEF NetShutDown, ShutDown
      <4>2. QED BY <1>1, <2>1, <2>2, <3>1, <3>3, <4>1 DEF FirstRun
    <3>4. QED BY <3>2, <3>3
  <2>4. CASE NetClose
    <3>1. NoneOpen'
      <4>1. fd = made \/ NoneOpen
        BY <2>1, <2>4 DEF NetClose, FirstRun
      <4>2. CASE fd = made /\ fd # NoConn
        <5>1. ~Open(made)'
          BY <1>2, <2>4, <4>2 DEF NetClose, Close, Open, IInv, TypeOK
        <5>2. QED BY <1>6, <1>8, <5>1, <1>1 DEF NoneOpen
      <4>3. CASE fd = made /\ fd = NoConn
        BY <1>6, <1>8, <4>3 DEF NoneOpen
      <4>4. QED BY <1>6, <4>1, <4>2, <4>3
    <3>2. QED BY <2>1, <2>2, <2>4, <3>1 DEF NetClose, Close, FirstRun
  <2>5. CASE NetClear
    BY <1>6, <2>1, <2>2, <2>5 DEF NetClear, FirstRun
  <2>6. CASE NetDeny
    BY <1>6, <2>1, <2>2, <2>6 DEF NetDeny, FirstRun
  <2>7. QED BY <2>3, <2>4, <2>5, <2>6
<1>9. QED BY <1>1, <1>6, <1>7, <1>8 DEF FirstRunInv

LEMMA LoopFirstRun ==
    ASSUME IInv, FirstRunInv,
           \/ Loop \/ ConnectFails \/ WaitEnds \/ Lost \/ EnterClosed
           \/ PollStopped \/ PollInterrupted \/ PollLost \/ PollError
           \/ Receive \/ Handle
           \/ \E c \in Conns : PeerCloses(c) \/ PeerStalls(c)
    PROVE  FirstRunInv'
<1>1. /\ UNCHANGED <<wire, send, fd, made, running, starts, main>>
      /\ \A c \in Conns : sock'[c] = sock[c] \/ (Open(c) /\ sock'[c] \in {"dead", "stalled"})
  BY DEF Loop, ConnectFails, WaitEnds, Lost, EnterClosed, PollStopped, Open,
         PollInterrupted, PollLost, PollError, Receive, Handle, PeerCloses, PeerStalls, IInv, TypeOK, countVars
<1>2. /\ \A c \in 1 .. made : sock'[c] # "none"
      /\ NoneOpen => NoneOpen'
      /\ starts = 1 => \A c \in Conns : Open(c)' => c = made
  <2>1. \A c \in Conns : Open(c)' => Open(c)
    BY <1>1 DEF Open
  <2>2. \A c \in 1 .. made : c \in Conns
    BY DEF IInv, TypeOK
  <2>3. QED BY <1>1, <2>1, <2>2 DEF FirstRunInv, NoneOpen
<1>3. starts = 0 => authorized' = authorized
  BY DEF Loop, ConnectFails, WaitEnds, Lost, EnterClosed, PollStopped,
         PollInterrupted, PollLost, PollError, Receive, Handle, PeerCloses, PeerStalls, FirstRunInv, IInv, StopInv
<1>4. starts = 1 /\ net' = "connect" => NoneOpen
  BY DEF Loop, ConnectFails, WaitEnds, Lost, EnterClosed, PollStopped, FirstRun,
         PollInterrupted, PollLost, PollError, Receive, Handle, PeerCloses, PeerStalls, FirstRunInv
<1>5. ASSUME starts = 1, running PROVE FirstRun'
  <2>1. FirstRun
    BY <1>5 DEF FirstRunInv
  <2>2. Authorizes(made)' = Authorizes(made)
    BY <1>1 DEF Authorizes
  <2>3. \/ UNCHANGED <<net, authorized>>
        \/ UNCHANGED authorized /\ net \in {"loop", "wait"} /\ net' \in {"connect", "loop"}
        \/ UNCHANGED authorized /\ net = "connect" /\ net' = "shut"
        \/ UNCHANGED authorized /\ net \in {"poll", "lost"} /\ net' \in {"handle", "lost", "shut"}
        \/ net = "handle" /\ net' = "poll"
        \/ /\ UNCHANGED authorized /\ net \in {"subscribe", "authorize"}
           /\ net' = "shut"
    BY <1>5 DEF Loop, ConnectFails, WaitEnds, Lost, EnterClosed, PollStopped,
         PollInterrupted, PollLost, PollError, Receive, Handle, PeerCloses, PeerStalls
  <2>4. QED BY <1>1, <1>2, <2>1, <2>2, <2>3 DEF FirstRun
<1>6. QED BY <1>1, <1>2, <1>3, <1>4, <1>5 DEF FirstRunInv

\* In its first run the client connects only when no socket is open.
LEMMA ConnectFirstRun ==
    ASSUME IInv, FirstRunInv, Connect \/ Assign
    PROVE  FirstRunInv'
<1>1. /\ UNCHANGED <<wire, running, starts, main, authorized>> /\ starts # 0
      /\ net' \in {"assign", "subscribe"}
  BY DEF Connect, Assign, FirstRunInv, IInv, StopInv, countVars
<1>2. CASE Connect
  <2>1. /\ made' = made + 1 /\ made' \in Conns /\ net = "connect" /\ net' = "assign"
        /\ sock' = [sock EXCEPT ![made'] = "up"]
    BY <1>2 DEF Connect, IInv, TypeOK
  <2>2. \A c \in 1 .. made' : sock'[c] # "none"
    BY <2>1 DEF IInv, TypeOK, FirstRunInv
  <2>3. starts = 1 => \A c \in Conns : Open(c)' => c = made'
    BY <2>1 DEF FirstRunInv, NoneOpen, Open, IInv, TypeOK
  <2>4. starts = 1 /\ running => ~authorized
    BY <2>1 DEF FirstRunInv, FirstRun
  <2>5. QED BY <1>1, <2>1, <2>2, <2>3, <2>4 DEF FirstRunInv, FirstRun
<1>3. CASE Assign
  <2>1. UNCHANGED <<sock, made>> /\ net' = "subscribe" /\ fd' = made
    BY <1>3 DEF Assign
  <2>2. starts = 1 /\ running => ~authorized
    BY <1>3 DEF Assign, FirstRunInv, FirstRun
  <2>3. QED BY <1>1, <2>1, <2>2 DEF FirstRunInv, FirstRun, Open
<1>4. QED BY <1>2, <1>3

\* sendLine(): the line of mining.authorize is out before the first poll().
LEMMA SendFirstRun ==
    ASSUME IInv, FirstRunInv, NEW t \in Senders,
           Enter(t) \/ WriteFails(t) \/ WriteRest(t) \/ WriteSome(t)
    PROVE  FirstRunInv'
<1>1. UNCHANGED <<running, starts, main, authorized, made, sock, fd>>
  BY DEF Enter, WriteFails, WriteRest, WriteSome, pipeVars, countVars
<1>2. /\ \/ UNCHANGED net
         \/ net \in {"subscribe", "authorize"} /\ net' \in {"shut", "authorize", "poll"}
  BY DEF Enter, WriteFails, WriteRest, WriteSome, IInv, MutexInv
<1>3. \A c \in Conns :
         /\ wire'[c] \in Seq(Pieces)
         /\ Len(wire'[c]) >= Len(wire[c])
         /\ \A i \in 1 .. Len(wire[c]) : wire'[c][i] = wire[c][i]
  <2>1. wire \in [Conns -> Seq(Pieces)]
    BY DEF IInv, TypeOK
  <2>2. ASSUME NEW w \in Seq(Pieces), NEW p \in Pieces
        PROVE  /\ Append(w, p) \in Seq(Pieces)
               /\ Len(Append(w, p)) >= Len(w)
               /\ \A i \in 1 .. Len(w) : Append(w, p)[i] = w[i]
    OBVIOUS
  <2>3. \/ wire' = wire
        \/ \E p \in Pieces : fd \in Conns /\ wire' = [wire EXCEPT ![fd] = Append(@, p)]
    BY DEF Enter, WriteFails, WriteRest, WriteSome, Piece, Line, Pieces,
           IInv, TypeOK, MutexInv
  <2>4. CASE wire' = wire
    BY <2>1, <2>4
  <2>5. CASE \E p \in Pieces : fd \in Conns /\ wire' = [wire EXCEPT ![fd] = Append(@, p)]
    <3>1. PICK p \in Pieces : fd \in Conns /\ wire' = [wire EXCEPT ![fd] = Append(@, p)]
      BY <2>5
    <3>2. \A c \in Conns : wire'[c] = IF c = fd THEN Append(wire[c], p) ELSE wire[c]
      BY <2>1, <3>1
    <3> SUFFICES ASSUME NEW c \in Conns
                 PROVE  /\ wire'[c] \in Seq(Pieces)
                        /\ Len(wire'[c]) >= Len(wire[c])
                        /\ \A i \in 1 .. Len(wire[c]) : wire'[c][i] = wire[c][i]
      OBVIOUS
    <3>3. wire[c] \in Seq(Pieces) /\ Len(wire[c]) >= Len(wire[c])
      BY <2>1
    <3>4. QED BY <2>2, <3>2, <3>3
  <2>6. QED BY <2>3, <2>4, <2>5
<1>4. Authorizes(made) => Authorizes(made)'
  <2> SUFFICES ASSUME Authorizes(made) PROVE Authorizes(made)'
    OBVIOUS
  <2>1. PICK i \in 1 .. Len(wire[made]) :
           wire[made][i].line = "authorize" /\ wire[made][i].part # "head"
    BY DEF Authorizes
  <2>2. made \in Conns /\ i \in 1 .. Len(wire'[made]) /\ wire'[made][i] = wire[made][i]
    <3>1. made \in Conns /\ wire[made] \in Seq(Pieces)
      BY DEF Authorizes, IInv, TypeOK
    <3>2. QED BY <1>3, <3>1
  <2>3. QED BY <1>1, <2>1, <2>2 DEF Authorizes
<1>5. ASSUME net # "poll", net' = "poll", fd = made PROVE Authorizes(made)'
  <2>1. /\ WriteRest(Net) /\ t = Net /\ net = "authorize" /\ fd \in Conns
        /\ send[Net] \in {"start", "rest"}
    BY <1>5 DEF Enter, WriteFails, WriteRest, WriteSome, IInv, TypeOK, MutexInv
  <2>2. PICK p \in Pieces : /\ p.line = "authorize" /\ p.part # "head"
                            /\ wire' = [wire EXCEPT ![fd] = Append(@, p)]
    <3>1. Piece(Net, "all") \in Pieces /\ Piece(Net, "tail") \in Pieces
      BY <2>1 DEF Piece, Line, Pieces
    <3>2. \/ wire' = [wire EXCEPT ![fd] = Append(@, Piece(Net, "all"))]
          \/ wire' = [wire EXCEPT ![fd] = Append(@, Piece(Net, "tail"))]
      BY <2>1 DEF WriteRest
    <3>3. \A part \in {"all", "tail"} :
             Piece(Net, part).line = "authorize" /\ Piece(Net, part).part = part
      BY <2>1 DEF Piece, Line
    <3>4. QED BY <3>1, <3>2, <3>3
  <2>3. wire[fd] \in Seq(Pieces) /\ wire'[fd] = Append(wire[fd], p)
    BY <2>1, <2>2 DEF IInv, TypeOK
  <2>4. /\ Len(wire[fd]) + 1 \in 1 .. Len(wire'[fd])
        /\ wire'[fd][Len(wire[fd]) + 1] = p
    BY <2>3
  <2>5. QED BY <1>1, <1>5, <2>1, <2>2, <2>4 DEF Authorizes
<1>6. ASSUME starts = 1, running PROVE FirstRun'
  <2>1. FirstRun
    BY <1>6 DEF FirstRunInv
  <2>2. NoneOpen' = NoneOpen
    BY <1>1 DEF NoneOpen, Open
  <2>3. CASE UNCHANGED net
    BY <1>1, <1>4, <2>1, <2>2, <2>3 DEF FirstRun
  <2>4. CASE net \in {"subscribe", "authorize"} /\ net' \in {"shut", "authorize", "poll"}
    BY <1>1, <1>5, <2>1, <2>2, <2>4 DEF FirstRun
  <2>5. QED BY <1>2, <2>3, <2>4
<1>7. QED BY <1>1, <1>2, <1>6 DEF FirstRunInv, NoneOpen, Open

LEMMA NextFirstRun == IInv /\ FirstRunInv /\ [Next]_vars => FirstRunInv'
<1> SUFFICES ASSUME IInv, FirstRunInv, [Next]_vars PROVE FirstRunInv'
  OBVIOUS
<1>1. ASSUME NEW t \in Senders,
             Enter(t) \/ WriteRest(t) \/ WriteSome(t) \/ WriteFails(t)
      PROVE  FirstRunInv'
  BY <1>1, SendFirstRun
<1>2. ASSUME NEW c \in Conns, PeerCloses(c) \/ PeerStalls(c) PROVE FirstRunInv'
  BY <1>2, LoopFirstRun
<1>3. CASE UNCHANGED vars
  <2>1. UNCHANGED <<running, fd, authorized, sock, wire, net, main, made, starts>>
    BY <1>3 DEF vars
  <2>2. FirstRunInv = FirstRunInv'
    BY <2>1 DEF FirstRunInv, FirstRun, NoneOpen, Open, Authorizes
  <2>3. QED BY <2>2
<1>4. CASE Next
  BY <1>1, <1>2, <1>4, MainFirstRun, StopFirstRun, NetDisconnectFirstRun,
     LoopFirstRun, ConnectFirstRun
     DEF Next, NetSteps, StopSteps, SendSteps
<1>5. QED BY <1>3, <1>4

LEMMA FirstRunInvariance == Spec => []FirstRunInv
BY InitFirstRun, NextFirstRun, Invariance, PTL DEF Spec

\* While the client runs for the first time there is never more than one open
\* socket, however often it reconnects.
THEOREM OneSocket == Spec => []OneConnection
<1>1. FirstRunInv => OneConnection
  BY DEF FirstRunInv, OneConnection, Open
<1>2. QED BY <1>1, FirstRunInvariance, PTL

\* While the client runs for the first time authorized_ is about the connection
\* it has now, on which mining.authorize has been sent.
THEOREM AuthorizedNow == Spec => []AuthorizedIsCurrent
<1>1. FirstRunInv => AuthorizedIsCurrent
  BY DEF FirstRunInv, FirstRun, Authorizes, AuthorizedIsCurrent
<1>2. QED BY <1>1, FirstRunInvariance, PTL
=============================================================================
