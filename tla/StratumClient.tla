---------------------------- MODULE StratumClient ----------------------------
(***************************************************************************)
(* network::StratumClient as a manager of connections                      *)
(* (src/network/StratumClient.cpp): the network thread in runLoop(), the   *)
(* thread that calls start() and stop(), the workers in submitShare() and  *)
(* submitBlobShare(), and the pool at the other end.  What the lines say   *)
(* is the subject of StratumDialogue.                                      *)
(*                                                                         *)
(* socketFd_ is a plain int that all of these threads read and that two of *)
(* them write without a lock.  It is loaded anew after every system call,  *)
(* so each of its uses is a step here.  Descriptors are numbered in the    *)
(* order of the connections and not reused.  A line is one send() or, when *)
(* the kernel takes only part of it, two.  A send() that fails leaves a    *)
(* connection on which no later one succeeds.                              *)
(***************************************************************************)
EXTENDS Naturals, Sequences

CONSTANTS Workers,      \* mining threads, which submit shares
          Net,          \* the thread of runLoop()
          MaxConns,     \* bound: connections established
          MaxSubmits,   \* bound: shares submitted
          MaxStarts     \* bound: calls of start()

ASSUME ThreadsAssumption == Net \notin Workers
ASSUME BoundsAssumption  == MaxConns \in Nat /\ MaxSubmits \in Nat /\ MaxStarts \in Nat

Conns   == 1 .. MaxConns
NoConn  == 0                  \* socketFd_ = -1
Senders == Workers \cup {Net}

VARIABLES running,     \* running_
          pipe,        \* interruptFds_ are open (pipe() can fail)
          byte,        \* the interrupt pipe holds stop()'s byte
          fd,          \* socketFd_
          authorized,  \* authorized_
          sock,        \* sock[c]: the socket of connection c, see TypeOK
          wire,        \* wire[c]: what was sent on connection c, in order
          send,        \* send[t]: where t is inside sendLine()
          net,         \* where the network thread is in runLoop()
          main,        \* where the controlling thread is in start() or stop()
          made, submits, starts    \* counters for the bounds

vars == <<running, pipe, byte, fd, authorized, sock, wire, send, net, main,
          made, submits, starts>>
pipeVars  == <<pipe, byte>>
countVars == <<submits, starts>>

Init == /\ running = FALSE
        /\ pipe = FALSE /\ byte = FALSE
        /\ fd = NoConn
        /\ authorized = FALSE
        /\ sock = [c \in Conns |-> "none"]
        /\ wire = [c \in Conns |-> <<>>]
        /\ send = [t \in Senders |-> "out"]
        /\ net = "off" /\ main = "idle"
        /\ made = 0 /\ submits = 0 /\ starts = 0

\* writeMutex_ is held from the entry of sendLine() to its return.
MutexFree == \A t \in Senders : send[t] = "out"

\* Connection c takes bytes: neither end has shut it down.
Usable(c) == c # NoConn /\ sock[c] \in {"up", "stalled"}

\* What goes over a wire in one send(): a line or a part of one.
Pieces == [from : Senders,
           line : {"subscribe", "authorize", "submit"},
           part : {"all", "head", "tail"}]

\* What t is sending: a worker its share, the network thread its handshake.
Line(t) == IF t = Net THEN net ELSE "submit"

Piece(t, part) == [from |-> t, line |-> Line(t), part |-> part]

-----------------------------------------------------------------------------
(* Mutants: ways the code could be wrong that the properties must notice.   *)

\* start() that keeps the pipe of the previous run.
StartKeepsPipe ==
    /\ main = "idle" /\ ~running
    /\ starts < MaxStarts
    /\ starts' = starts + 1
    /\ running' = TRUE
    /\ pipe' = TRUE
    /\ net' = "loop"
    /\ UNCHANGED <<byte, fd, authorized, sock, wire, send, main, made, submits>>

\* sendLine() without its lock_guard.
EnterUnlocked(t) ==
    /\ send[t] = "out"
    /\ \/ t = Net /\ net \in {"subscribe", "authorize"} /\ UNCHANGED submits
       \/ t \in Workers /\ submits < MaxSubmits /\ submits' = submits + 1
    /\ fd # NoConn
    /\ send' = [send EXCEPT ![t] = "start"]
    /\ UNCHANGED <<running, pipeVars, fd, authorized, sock, wire, net, main, made, starts>>

\* The network thread goes back to connecting without disconnect().
LostWithoutDisconnect ==
    /\ net = "lost"
    /\ net' = IF running THEN "wait" ELSE "off"
    /\ UNCHANGED <<running, pipeVars, fd, authorized, sock, wire, send, main, made, countVars>>

\* disconnect() that forgets authorized_.
DenyNothing ==
    /\ net = "deny"
    /\ net' = "wait"
    /\ UNCHANGED <<running, pipeVars, fd, authorized, sock, wire, send, main, made, countVars>>

\* The network thread that never looks at running_ between two poll()s.
PollIgnoresStop ==
    /\ net = "poll"
    /\ byte
    /\ net' = "off"
    /\ UNCHANGED <<running, pipeVars, fd, authorized, sock, wire, send, main, made, countVars>>

\* A lost connection ends runLoop().
LostForGood ==
    /\ net = "lost"
    /\ net' = "off"
    /\ UNCHANGED <<running, pipeVars, fd, authorized, sock, wire, send, main, made, countVars>>

\* connectOnce() that subscribes once only, as if the subscription outlived its
\* connection.
AssignSubscribed ==
    /\ net = "assign"
    /\ fd' = made
    /\ net' = IF made = 1 THEN "subscribe" ELSE "authorize"
    /\ UNCHANGED <<running, pipeVars, authorized, sock, wire, send, main, made, countVars>>

-----------------------------------------------------------------------------
(* start() and stop(), called by one thread.                                *)

\* The interrupt pipe is closed and made anew; the result of making it is
\* ignored.  Nothing else runs in the client, so start() is one step.
Start ==
    /\ main = "idle" /\ ~running
    /\ starts < MaxStarts
    /\ starts' = starts + 1
    /\ running' = TRUE
    /\ pipe' \in BOOLEAN
    /\ byte' = FALSE
    /\ net' = "loop"
    /\ UNCHANGED <<fd, authorized, sock, wire, send, main, made, submits>>

StopRequest ==
    /\ main = "idle" /\ running
    /\ running' = FALSE
    /\ main' = "interrupt"
    /\ UNCHANGED <<pipeVars, fd, authorized, sock, wire, send, net, made, countVars>>

StopInterrupt ==
    /\ main = "interrupt"
    /\ byte' = pipe
    /\ main' = "shut"
    /\ UNCHANGED <<running, pipe, fd, authorized, sock, wire, send, net, made, countVars>>

StopJoin ==
    /\ main = "join"
    /\ net = "off"
    /\ main' = "idle"
    /\ UNCHANGED <<running, pipeVars, fd, authorized, sock, wire, send, net, made, countVars>>

-----------------------------------------------------------------------------
(* disconnect(), by the network thread or, concurrently, by stop().         *)

\* socketFd_ < 0 skips to the store of authorized_.
ShutDown(pc) ==
    IF fd = NoConn
    THEN pc' = "deny" /\ UNCHANGED sock
    ELSE /\ pc' = "close"
         /\ sock' = [sock EXCEPT ![fd] = IF @ = "closed" THEN @ ELSE "dead"]

\* The descriptor is read again: the other thread may have cleared it.
Close(pc) ==
    /\ pc' = "clear"
    /\ sock' = IF fd = NoConn THEN sock ELSE [sock EXCEPT ![fd] = "closed"]

NetShutDown ==
    /\ net = "shut" /\ ShutDown(net)
    /\ UNCHANGED <<running, pipeVars, fd, authorized, wire, send, main, made, countVars>>

NetClose ==
    /\ net = "close" /\ Close(net)
    /\ UNCHANGED <<running, pipeVars, fd, authorized, wire, send, main, made, countVars>>

NetClear ==
    /\ net = "clear" /\ net' = "deny"
    /\ fd' = NoConn
    /\ UNCHANGED <<running, pipeVars, authorized, sock, wire, send, main, made, countVars>>

NetDeny ==
    /\ net = "deny" /\ net' = "wait"
    /\ authorized' = FALSE
    /\ UNCHANGED <<running, pipeVars, fd, sock, wire, send, main, made, countVars>>

MainShutDown ==
    /\ main = "shut" /\ ShutDown(main)
    /\ UNCHANGED <<running, pipeVars, fd, authorized, wire, send, net, made, countVars>>

MainClose ==
    /\ main = "close" /\ Close(main)
    /\ UNCHANGED <<running, pipeVars, fd, authorized, wire, send, net, made, countVars>>

MainClear ==
    /\ main = "clear" /\ main' = "deny"
    /\ fd' = NoConn
    /\ UNCHANGED <<running, pipeVars, authorized, sock, wire, send, net, made, countVars>>

MainDeny ==
    /\ main = "deny" /\ main' = "join"
    /\ authorized' = FALSE
    /\ UNCHANGED <<running, pipeVars, fd, sock, wire, send, net, made, countVars>>

-----------------------------------------------------------------------------
(* sendLine(): all of a line under writeMutex_, on whatever socketFd_ is at *)
(* each send().                                                             *)

\* A closed client is noticed under the mutex.  A worker's refused share
\* changes nothing; a refused handshake fails connectOnce().
Enter(t) ==
    /\ MutexFree
    /\ \/ t = Net /\ net \in {"subscribe", "authorize"} /\ UNCHANGED submits
       \/ t \in Workers /\ submits < MaxSubmits /\ submits' = submits + 1
    /\ fd # NoConn
    /\ send' = [send EXCEPT ![t] = "start"]
    /\ UNCHANGED <<running, pipeVars, fd, authorized, sock, wire, net, main, made, starts>>

EnterClosed ==
    /\ net \in {"subscribe", "authorize"}
    /\ MutexFree
    /\ fd = NoConn
    /\ net' = "shut"
    /\ UNCHANGED <<running, pipeVars, fd, authorized, sock, wire, send, main, made, countVars>>

\* The kernel takes all that is left of the line and sendLine() returns true.
WriteRest(t) ==
    /\ send[t] # "out"
    /\ fd # NoConn /\ sock[fd] = "up"
    /\ wire' = [wire EXCEPT ![fd] =
                  Append(@, Piece(t, IF send[t] = "start" THEN "all" ELSE "tail"))]
    /\ send' = [send EXCEPT ![t] = "out"]
    /\ net' = IF t # Net THEN net
              ELSE IF net = "subscribe" THEN "authorize" ELSE "poll"
    /\ UNCHANGED <<running, pipeVars, fd, authorized, sock, main, made, countVars>>

WriteSome(t) ==
    /\ send[t] = "start"
    /\ fd # NoConn /\ sock[fd] = "up"
    /\ wire' = [wire EXCEPT ![fd] = Append(@, Piece(t, "head"))]
    /\ send' = [send EXCEPT ![t] = "rest"]
    /\ UNCHANGED <<running, pipeVars, fd, authorized, sock, net, main, made, countVars>>

\* send() returns an error: sendLine() returns false.
WriteFails(t) ==
    /\ send[t] # "out"
    /\ ~Usable(fd)
    /\ send' = [send EXCEPT ![t] = "out"]
    /\ net' = IF t = Net THEN "shut" ELSE net
    /\ UNCHANGED <<running, pipeVars, fd, authorized, sock, wire, main, made, countVars>>

-----------------------------------------------------------------------------
(* runLoop() and connectOnce().                                             *)

Loop ==
    /\ net = "loop"
    /\ net' = IF running THEN "connect" ELSE "off"
    /\ UNCHANGED <<running, pipeVars, fd, authorized, sock, wire, send, main, made, countVars>>

\* No address answers, the name does not resolve, or stop() interrupts.
ConnectFails ==
    /\ net = "connect"
    /\ net' = "shut"
    /\ UNCHANGED <<running, pipeVars, fd, authorized, sock, wire, send, main, made, countVars>>

Connect ==
    /\ net = "connect"
    /\ made < MaxConns
    /\ made' = made + 1
    /\ sock' = [sock EXCEPT ![made + 1] = "up"]
    /\ net' = "assign"
    /\ UNCHANGED <<running, pipeVars, fd, authorized, wire, send, main, countVars>>

Assign ==
    /\ net = "assign"
    /\ fd' = made
    /\ net' = "subscribe"
    /\ UNCHANGED <<running, pipeVars, authorized, sock, wire, send, main, made, countVars>>

\* The loop condition, tested at least once a second.
PollStopped ==
    /\ net = "poll"
    /\ ~running
    /\ net' = "off"
    /\ UNCHANGED <<running, pipeVars, fd, authorized, sock, wire, send, main, made, countVars>>

\* poll() reports the byte of stop(), which is drained.
PollInterrupted ==
    /\ net = "poll"
    /\ byte
    /\ byte' = FALSE
    /\ net' = "lost"
    /\ UNCHANGED <<running, pipe, fd, authorized, sock, wire, send, main, made, countVars>>

\* poll() or recv() reports the end of the connection.
PollLost ==
    /\ net = "poll"
    /\ ~Usable(fd)
    /\ ~byte
    /\ net' = "lost"
    /\ UNCHANGED <<running, pipeVars, fd, authorized, sock, wire, send, main, made, countVars>>

\* poll() fails, on a connection that is usable, too: a signal interrupts it.
PollError ==
    /\ net = "poll"
    /\ net' = "lost"
    /\ UNCHANGED <<running, pipeVars, fd, authorized, sock, wire, send, main, made, countVars>>

\* recv() has lines of the pool, ...
Receive ==
    /\ net = "poll"
    /\ ~byte
    /\ Usable(fd)
    /\ net' = "handle"
    /\ UNCHANGED <<running, pipeVars, fd, authorized, sock, wire, send, main, made, countVars>>

\* ... which are handled whatever has become of the connection.  One of them may be the
\* answer to mining.authorize.  Then comes the loop condition.
Handle ==
    /\ net = "handle"
    /\ authorized' \in BOOLEAN
    /\ net' = IF running THEN "poll" ELSE "off"
    /\ UNCHANGED <<running, pipeVars, fd, sock, wire, send, main, made, countVars>>

Lost ==
    /\ net = "lost"
    /\ net' = IF running THEN "shut" ELSE "off"
    /\ UNCHANGED <<running, pipeVars, fd, authorized, sock, wire, send, main, made, countVars>>

\* The reconnect delay passes, or is cut short by stop().
WaitEnds ==
    /\ net = "wait"
    /\ net' = "loop"
    /\ UNCHANGED <<running, pipeVars, fd, authorized, sock, wire, send, main, made, countVars>>

-----------------------------------------------------------------------------
(* The pool and the network between.                                        *)

PeerCloses(c) ==
    /\ sock[c] \in {"up", "stalled"}
    /\ sock' = [sock EXCEPT ![c] = "dead"]
    /\ UNCHANGED <<running, pipeVars, fd, authorized, wire, send, net, main, made, countVars>>

\* The pool stops reading and the send buffer is full: send() blocks.  The
\* few bytes of the handshake always fit in the buffer of a new connection.
PeerStalls(c) ==
    /\ sock[c] = "up"
    /\ net \in {"poll", "handle"} /\ fd = c
    /\ sock' = [sock EXCEPT ![c] = "stalled"]
    /\ UNCHANGED <<running, pipeVars, fd, authorized, wire, send, net, main, made, countVars>>

-----------------------------------------------------------------------------
NetSteps ==
    \/ Loop \/ ConnectFails \/ Connect \/ Assign
    \/ Enter(Net) \/ EnterClosed
    \/ WriteRest(Net) \/ WriteSome(Net) \/ WriteFails(Net)
    \/ PollStopped \/ PollInterrupted \/ PollLost \/ Handle \/ Lost
    \/ NetShutDown \/ NetClose \/ NetClear \/ NetDeny
    \/ WaitEnds

StopSteps ==
    \/ StopInterrupt
    \/ MainShutDown \/ MainClose \/ MainClear \/ MainDeny
    \/ StopJoin

SendSteps(w) == WriteRest(w) \/ WriteSome(w) \/ WriteFails(w)

Next ==
    \/ Start \/ StopRequest \/ StopSteps
    \/ NetSteps \/ Receive \/ PollError
    \/ \E w \in Workers : Enter(w) \/ SendSteps(w)
    \/ \E c \in Conns : PeerCloses(c) \/ PeerStalls(c)

Spec == Init /\ [][Next]_vars

\* Threads run, and the network thread gets a mutex that is released again
\* and again.  Nobody need call start() or stop() or submit a share, and the
\* pool need not answer, close or read.
Fairness ==
    /\ WF_vars(NetSteps) /\ SF_vars(Enter(Net) \/ EnterClosed)
    /\ WF_vars(StopSteps)
    /\ \A w \in Workers : WF_vars(SendSteps(w))

FairSpec == Spec /\ Fairness

-----------------------------------------------------------------------------
(* Properties.                                                              *)

\* Piece p is the end of the network thread's line, or all of it.
Completes(p, line) == p.from = Net /\ p.line = line /\ p.part # "head"

\* Piece p of a handshake may come before piece q.
Before(p, q) ==
    \/ p.line = "subscribe" /\ q.line = "authorize"
    \/ p.line = q.line /\ p.part = "head" /\ q.part = "tail"

\* Every variable has its type.  A socket is "up", "stalled" when its peer
\* does not read, "dead" when either end has shut it down, then "closed".
TypeOK ==
    /\ running \in BOOLEAN /\ pipe \in BOOLEAN /\ byte \in BOOLEAN
    /\ fd \in Conns \cup {NoConn}
    /\ authorized \in BOOLEAN
    /\ sock \in [Conns -> {"none", "up", "stalled", "dead", "closed"}]
    /\ wire \in [Conns -> Seq(Pieces)]
    /\ send \in [Senders -> {"out", "start", "rest"}]
    /\ net \in {"off", "loop", "connect", "assign", "subscribe", "authorize",
                "poll", "handle", "lost", "shut", "close", "clear", "deny", "wait"}
    /\ main \in {"idle", "interrupt", "shut", "close", "clear", "deny", "join"}
    /\ made \in 0 .. MaxConns
    /\ submits \in 0 .. MaxSubmits
    /\ starts \in 0 .. MaxStarts

\* The interrupt pipe wakes the network thread only when stop() was called,
\* so no connection is ever dropped for a byte left over from an earlier run
\* (StratumClient.cpp:73-80, 481-487).
InterruptOnlyOnStop == byte => ~running

\* On one connection the lines of different threads never mix: what follows
\* the beginning of a line is the rest of that line (StratumClient.cpp:210).
LinesDoNotInterleave ==
    \A c \in Conns : \A i \in 1 .. Len(wire[c]) - 1 :
       wire[c][i].part = "head" =>
          wire[c][i + 1] = [wire[c][i] EXCEPT !.part = "tail"]

\* The handshake keeps its order on each connection it is made on: whatever the
\* workers send on a socket they see before it, mining.authorize goes out after
\* the whole of mining.subscribe, and neither goes out twice
\* (StratumClient.cpp:180-206).
HandshakeInOrder ==
    \A c \in Conns : \A j \in 1 .. Len(wire[c]) : wire[c][j].from = Net =>
       /\ \A i \in 1 .. j - 1 :
             wire[c][i].from = Net => Before(wire[c][i], wire[c][j])
       /\ wire[c][j].line = "authorize" =>
             \E i \in 1 .. j - 1 : Completes(wire[c][i], "subscribe")

\* In one run of the client, as main() makes it, there is no more than one
\* socket at a time (StratumClient.hpp:45, "Manages one connection to a Stratum
\* pool, including reconnection").  A stop() between the connection and its
\* assignment leaves a socket open, which a second run would add to.
OneConnection ==
    starts = 1 => \A c, d \in Conns :
       sock[c] \in {"up", "stalled", "dead"} /\ sock[d] \in {"up", "stalled", "dead"}
       => c = d

\* A client that says it is authorized has sent mining.authorize on the
\* connection it has now: in one run of the client the flag does not outlive its
\* connection (StratumClient.cpp:97-104).
AuthorizedIsCurrent ==
    starts = 1 /\ running /\ authorized =>
       \E c \in Conns : /\ c = made
                        /\ \E i \in 1 .. Len(wire[c]) :
                              wire[c][i].line = "authorize" /\ wire[c][i].part # "head"

\* stop() returns, whatever the network thread and the workers are doing and
\* whatever the pool does, even if the interrupt pipe could not be made.
StopReturns == (main = "interrupt") ~> (main = "idle")

\* A lost connection is followed by another attempt to connect, or stop().
Reconnects == (net = "lost") ~> (net = "connect" \/ ~running)

\* A pool hears whole lines: the rest of a line comes on the connection its
\* beginning went out on (StratumClient.hpp:90, "Thread-safe socket write").
WholeLines ==
    \A c \in Conns : \A i \in 1 .. Len(wire[c]) :
       wire[c][i].part = "tail" =>
          /\ i > 1
          /\ wire[c][i - 1] = [wire[c][i] EXCEPT !.part = "head"]

-----------------------------------------------------------------------------
(* The inductive invariants behind the first six properties.               *)

\* Once stop() is under way running_ is false, and after it the network
\* thread is gone; byte is written by stop() only.
StopInv ==
    /\ main # "idle" => ~running
    /\ main = "idle" /\ ~running => net = "off"
    /\ InterruptOnlyOnStop

\* One thread at a time is inside sendLine(), the network thread only with a
\* line of its handshake.
MutexInv ==
    /\ \A t, u \in Senders : send[t] # "out" /\ send[u] # "out" => t = u
    /\ send[Net] # "out" => net \in {"subscribe", "authorize"}

\* A connection that is not the current one yet has carried nothing.
NewConnInv ==
    /\ fd <= made
    /\ \A c \in Conns : c > made => wire[c] = <<>>
    /\ net = "assign" => fd # made /\ made \in Conns /\ wire[made] = <<>>

\* A line that is cut in the middle is being sent by its thread, or will never
\* be continued on that connection.
CutLineInv ==
    \A c \in Conns :
       LET last == wire[c][Len(wire[c])] IN
          wire[c] # <<>> /\ last.part = "head" =>
             \/ ~Usable(c)
             \/ c # fd
             \/ \E t \in Senders : send[t] = "rest" /\ last = Piece(t, "head")

\* What the descriptors, the handshake and authorized_ say of each other while
\* the client runs for the first time.
Open(c) == sock[c] \in {"up", "stalled", "dead"}

NoneOpen == \A c \in Conns : ~Open(c)

Authorizes(c) ==
    c \in Conns /\ \E i \in 1 .. Len(wire[c]) :
                      wire[c][i].line = "authorize" /\ wire[c][i].part # "head"

FirstRun ==
    /\ net \in {"loop", "connect", "wait", "deny"} => fd = NoConn /\ NoneOpen
    /\ net = "clear" => NoneOpen
    /\ net \in {"subscribe", "authorize"} => fd = made
    /\ net \in {"poll", "handle", "lost", "shut", "close"} => fd = made \/ (fd = NoConn /\ NoneOpen)
    /\ net \in {"poll", "handle", "lost"} => Authorizes(made)
    /\ authorized => /\ net \in {"poll", "handle", "lost", "shut", "close", "clear", "deny"}
                     /\ Authorizes(made)

FirstRunInv ==
    /\ \A c \in 1 .. made : sock[c] # "none"
    /\ starts = 0 => fd = NoConn /\ ~authorized /\ NoneOpen /\ ~running /\ main = "idle"
    /\ starts = 1 => \A c \in Conns : Open(c) => c = made
    /\ starts = 1 /\ net = "connect" => NoneOpen
    /\ starts = 1 /\ running => FirstRun

\* How far the handshake is on the connection just made: the network thread has
\* sent nothing of the line it is to send, or the head it is to continue.
HandshakeInv ==
    net \in {"subscribe", "authorize"} =>
       /\ made \in Conns /\ fd \in {made, NoConn}
       /\ \A i \in 1 .. Len(wire[made]) :
             wire[made][i].from = Net /\ (net = "subscribe" \/ wire[made][i].line = net) =>
                wire[made][i] = Piece(Net, "head") /\ send[Net] = "rest"
       /\ net = "authorize" =>
             \E i \in 1 .. Len(wire[made]) : Completes(wire[made][i], "subscribe")

IInv == /\ TypeOK /\ StopInv /\ MutexInv /\ NewConnInv /\ CutLineInv
        /\ LinesDoNotInterleave
=============================================================================
