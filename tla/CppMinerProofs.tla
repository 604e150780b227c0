--------------------------- MODULE CppMinerProofs ---------------------------
(***************************************************************************)
(* The program as a whole, for every number of workers: its client is the  *)
(* one of StratumClient, so that what is proved there holds of it, and it  *)
(* is left by every thread before it is destroyed.                         *)
(***************************************************************************)
EXTENDS CppMiner, StratumClientProofs

USE ThreadsAssumption, BoundsAssumption DEF Conns, NoConn, Senders

\* The program uses the client as StratumClient says it may be used.
LEMMA SystemNextIsNext == [SystemNext]_allVars => [Next]_vars
<1> SUFFICES ASSUME [SystemNext]_allVars PROVE [Next]_vars
  OBVIOUS
<1>1. CASE MainSteps
  BY <1>1 DEF MainSteps, StartClient, StartEngine, StopEngine, JoinWorkers, StopClient,
              Exit, Next
<1>2. CASE Signal
  BY <1>2 DEF Signal
<1>3. CASE ClientSteps
  BY <1>3 DEF ClientSteps, Next
<1>4. ASSUME NEW w \in Workers, CheckRunning(w) \/ FindShare(w) \/ EndBatch(w)
      PROVE  UNCHANGED vars
  BY <1>4 DEF CheckRunning, FindShare, EndBatch
<1>5. ASSUME NEW w \in Workers, SubmitShare(w)
      PROVE  [Next]_vars
  BY <1>5 DEF SubmitShare, Next
<1>6. CASE UNCHANGED allVars
  BY <1>6 DEF allVars
<1>7. QED BY <1>1, <1>2, <1>3, <1>4, <1>5, <1>6 DEF SystemNext

\* The program runs a client of StratumClient: every safety property of that
\* module is one of the program.
THEOREM SystemImplementsClient == SystemSpec => Spec
<1>1. SystemInit => Init
  BY DEF SystemInit
<1>2. QED BY <1>1, SystemNextIsNext, PTL DEF SystemSpec, Spec

-----------------------------------------------------------------------------
\* The steps of main() and of the signal handler.
LEMMA MainKeepsInv ==
    ASSUME SystemIInv, MainSteps \/ Signal
    PROVE  /\ WorkerInv'
           /\ signalled' \in BOOLEAN /\ engine' \in BOOLEAN
           /\ worker' \in [Workers -> {"none", "loop", "batch", "share", "done"}]
           /\ program' \in {"boot", "startEngine", "mine", "join", "stopClient",
                            "stopping", "exited"}
<1> USE DEF SystemIInv, SystemTypeOK, WorkerInv
<1>1. CASE StartClient
  BY <1>1 DEF StartClient, Start
<1>2. CASE StartEngine
  <2>1. \A w \in Workers : send[w] = "out"
    BY <1>2 DEF StartEngine
  <2>2. QED BY <1>2, <2>1 DEF StartEngine, vars
<1>3. CASE StopEngine
  BY <1>3 DEF StopEngine, vars
<1>4. CASE JoinWorkers
  BY <1>4 DEF JoinWorkers, vars
<1>5. CASE StopClient
  BY <1>5 DEF StopClient, StopRequest
<1>6. CASE Exit
  BY <1>6 DEF Exit, vars
<1>7. CASE Signal
  BY <1>7 DEF Signal, vars
<1>8. QED BY <1>1, <1>2, <1>3, <1>4, <1>5, <1>6, <1>7 DEF MainSteps

\* The steps of the client, the network and the pool.
LEMMA ClientKeepsInv ==
    ASSUME SystemIInv, ClientSteps
    PROVE  WorkerInv'
<1> USE DEF SystemIInv, SystemTypeOK, WorkerInv, IInv, TypeOK
<1>1. UNCHANGED <<worker, program>>
  BY DEF ClientSteps, engineVars
<1>2. \A w \in Workers : send'[w] # "out" => send[w] # "out"
  <2>1. CASE NetSteps
    <3>1. \A w \in Workers : w # Net
      OBVIOUS
    <3>2. CASE Enter(Net) \/ WriteRest(Net) \/ WriteSome(Net) \/ WriteFails(Net)
      BY <3>1, <3>2 DEF Enter, WriteRest, WriteSome, WriteFails
    <3>3. CASE ~(Enter(Net) \/ WriteRest(Net) \/ WriteSome(Net) \/ WriteFails(Net))
      <4>1. UNCHANGED send
        BY <2>1, <3>3 DEF NetSteps, Loop, ConnectFails, Connect, Assign, EnterClosed,
           PollStopped, PollInterrupted, PollLost, Handle, Lost, NetShutDown, NetClose,
           NetClear, NetDeny, WaitEnds
      <4>2. QED BY <4>1
    <3>4. QED BY <3>2, <3>3
  <2>2. CASE StopSteps \/ Receive \/ PollError
    BY <2>2 DEF StopSteps, Receive, PollError, StopInterrupt, MainShutDown, MainClose, MainClear,
                MainDeny, StopJoin
  <2>3. ASSUME NEW v \in Workers, SendSteps(v)
        PROVE  \A w \in Workers : send'[w] # "out" => send[w] # "out"
    BY <2>3 DEF SendSteps, WriteRest, WriteSome, WriteFails
  <2>4. CASE \E c \in Conns : PeerCloses(c) \/ PeerStalls(c)
    BY <2>4 DEF PeerCloses, PeerStalls
  <2>5. QED BY <2>1, <2>2, <2>3, <2>4 DEF ClientSteps
<1>3. ~running => ~running'
  BY DEF ClientSteps, NetSteps, StopSteps, SendSteps, Receive, PollError, Loop, ConnectFails, Connect,
         Assign, Enter, EnterClosed, WriteRest, WriteSome, WriteFails, PollStopped,
         PollInterrupted, PollLost, Handle, Lost, NetShutDown, NetClose, NetClear, NetDeny,
         WaitEnds, StopInterrupt, MainShutDown, MainClose, MainClear, MainDeny, StopJoin,
         PeerCloses, PeerStalls
<1>4. main = "idle" => main' = "idle"
  BY DEF ClientSteps, NetSteps, StopSteps, SendSteps, Receive, PollError, Loop, ConnectFails, Connect,
         Assign, Enter, EnterClosed, WriteRest, WriteSome, WriteFails, PollStopped,
         PollInterrupted, PollLost, Handle, Lost, NetShutDown, NetClose, NetClear, NetDeny,
         WaitEnds, StopInterrupt, MainShutDown, MainClose, MainClear, MainDeny, StopJoin,
         PeerCloses, PeerStalls
<1>5. QED BY <1>1, <1>2, <1>3, <1>4

\* The steps of a worker outside of sendLine().
LEMMA WorkerKeepsInv ==
    ASSUME SystemIInv, NEW w \in Workers,
           CheckRunning(w) \/ FindShare(w) \/ SubmitShare(w) \/ EndBatch(w)
    PROVE  /\ WorkerInv'
           /\ worker' \in [Workers -> {"none", "loop", "batch", "share", "done"}]
<1> USE DEF SystemIInv, SystemTypeOK, WorkerInv, IInv, TypeOK
<1>1. CASE CheckRunning(w)
  BY <1>1 DEF CheckRunning, vars
<1>2. CASE FindShare(w)
  BY <1>2 DEF FindShare, vars
<1>3. CASE SubmitShare(w)
  <2>1. /\ worker[w] = "share" /\ worker' = [worker EXCEPT ![w] = "batch"]
        /\ UNCHANGED <<program, running, main>>
    BY <1>3 DEF SubmitShare, Enter, vars
  <2>2. \A v \in Workers : v # w => send'[v] = send[v]
    BY <1>3 DEF SubmitShare, Enter, vars
  <2>3. QED BY <2>1, <2>2
<1>4. CASE EndBatch(w)
  BY <1>4 DEF EndBatch, vars
<1>5. QED BY <1>1, <1>2, <1>3, <1>4

LEMMA SystemInitIInv == SystemInit => SystemIInv
<1> SUFFICES ASSUME SystemInit PROVE SystemIInv
  OBVIOUS
<1>1. IInv
  BY InitIInv DEF SystemInit
<1>2. {signalled, engine} \subseteq BOOLEAN
  BY DEF SystemInit
<1>3. WorkerInv
  BY DEF SystemInit, Init, WorkerInv
<1>4. QED BY <1>1, <1>2, <1>3 DEF SystemIInv, SystemTypeOK, SystemInit, IInv

LEMMA SystemNextIInv == SystemIInv /\ [SystemNext]_allVars => SystemIInv'
<1> SUFFICES ASSUME SystemIInv, [SystemNext]_allVars PROVE SystemIInv'
  OBVIOUS
<1>1. IInv'
  BY SystemNextIsNext, NextIInv DEF SystemIInv
<1>2. WorkerInv'
  <2>1. CASE MainSteps \/ Signal
    BY <2>1, MainKeepsInv
  <2>2. CASE ClientSteps
    BY <2>2, ClientKeepsInv
  <2>3. ASSUME NEW w \in Workers,
               CheckRunning(w) \/ FindShare(w) \/ SubmitShare(w) \/ EndBatch(w)
        PROVE  WorkerInv'
    BY <2>3, WorkerKeepsInv
  <2>4. CASE UNCHANGED allVars
    BY <2>4 DEF SystemIInv, WorkerInv, allVars, vars, engineVars
  <2>5. QED BY <2>1, <2>2, <2>3, <2>4 DEF SystemNext
<1>3. SystemTypeOK'
  <2> DEFINE Programs == {"boot", "startEngine", "mine", "join", "stopClient",
                          "stopping", "exited"}
  <2>1. /\ {signalled', engine'} \subseteq BOOLEAN /\ program' \in Programs
        /\ worker' \in [Workers -> {"none", "loop", "batch", "share", "done"}]
    <3>1. CASE MainSteps \/ Signal
      BY <3>1, MainKeepsInv
    <3>2. CASE ClientSteps
      BY <3>2 DEF ClientSteps, engineVars, SystemIInv, SystemTypeOK
    <3>3. ASSUME NEW w \in Workers,
                 CheckRunning(w) \/ FindShare(w) \/ SubmitShare(w) \/ EndBatch(w)
          PROVE  <2>1!:
      <4>1. UNCHANGED <<signalled, engine, program>>
        BY <3>3 DEF CheckRunning, FindShare, SubmitShare, EndBatch
      <4>2. {signalled', engine'} \subseteq BOOLEAN /\ program' \in Programs
        BY <4>1 DEF SystemIInv, SystemTypeOK
      <4>3. QED BY <3>3, <4>2, WorkerKeepsInv
    <3>4. CASE UNCHANGED allVars
      BY <3>4 DEF allVars, engineVars, SystemIInv, SystemTypeOK
    <3>5. QED BY <3>1, <3>2, <3>3, <3>4 DEF SystemNext
  <2>2. QED BY <2>1, <1>1 DEF SystemTypeOK, IInv
<1>4. QED BY <1>1, <1>2, <1>3 DEF SystemIInv

LEMMA SystemInvariance == SystemSpec => []SystemIInv
BY SystemInitIInv, SystemNextIInv, PTL DEF SystemSpec

\* Every behaviour of the program is well typed.
THEOREM SystemTypeCorrect == SystemSpec => []SystemTypeOK
<1>1. SystemIInv => SystemTypeOK  BY DEF SystemIInv
<1>2. QED BY <1>1, SystemInvariance, PTL

\* However many workers there are and whenever the signal comes, no worker
\* uses the client once the engine is stopped, and no thread is left when
\* main() returns.
THEOREM NobodyIsLeft == SystemSpec => []NobodyLeft
<1>1. ASSUME SystemIInv PROVE NobodyLeft
  <2> USE DEF SystemIInv, WorkerInv, IInv
  <2>1. program \in {"stopClient", "stopping", "exited"} =>
           \A w \in Workers : worker[w] = "done" /\ send[w] = "out"
    BY <1>1
  <2>2. program = "exited" => net = "off"
    BY <1>1 DEF StopInv
  <2>3. program = "exited" => send[Net] = "out"
    BY <1>1, <2>2 DEF MutexInv
  <2>4. QED BY <2>1, <2>2, <2>3 DEF NobodyLeft, MutexFree
<1>2. QED BY <1>1, SystemInvariance, PTL

-----------------------------------------------------------------------------
(* The program starts its client once.                                      *)

SingleRun == starts = IF program = "boot" THEN 0 ELSE 1

LEMMA SingleRunStep == SystemTypeOK /\ SingleRun /\ [SystemNext]_allVars => SingleRun'
<1> SUFFICES ASSUME SystemTypeOK, SingleRun, [SystemNext]_allVars PROVE SingleRun'
  OBVIOUS
<1> USE DEF SingleRun
<1>1. CASE StartClient
  BY <1>1 DEF StartClient, Start
<1>2. CASE StartEngine \/ StopEngine \/ JoinWorkers \/ StopClient \/ Exit
  BY <1>2 DEF StartEngine, StopEngine, JoinWorkers, StopClient, Exit, StopRequest, vars,
              countVars
<1>3. CASE Signal
  BY <1>3 DEF Signal, vars
<1>4. CASE ClientSteps
  <2>1. program' = program
    BY <1>4 DEF ClientSteps, engineVars
  <2>2. starts' = starts
    BY <1>4 DEF ClientSteps, NetSteps, StopSteps, SendSteps, Receive, PollError, Loop, ConnectFails,
         Connect, Assign, Enter, EnterClosed, WriteRest, WriteSome, WriteFails, PollStopped,
         PollInterrupted, PollLost, Handle, Lost, NetShutDown, NetClose, NetClear, NetDeny,
         WaitEnds, StopInterrupt, MainShutDown, MainClose, MainClear, MainDeny, StopJoin,
         PeerCloses, PeerStalls, countVars
  <2>3. QED BY <2>1, <2>2
<1>5. ASSUME NEW w \in Workers,
             CheckRunning(w) \/ FindShare(w) \/ SubmitShare(w) \/ EndBatch(w)
      PROVE  SingleRun'
  BY <1>5 DEF CheckRunning, FindShare, SubmitShare, EndBatch, Enter, vars
<1>6. CASE UNCHANGED allVars
  BY <1>6 DEF allVars, vars, engineVars
<1>7. QED BY <1>1, <1>2, <1>3, <1>4, <1>5, <1>6 DEF SystemNext, MainSteps

LEMMA SingleRunHolds == SystemSpec => []SingleRun
<1>1. SystemInit => SingleRun
  BY DEF SystemInit, Init, SingleRun
<1>2. QED BY <1>1, SingleRunStep, SystemTypeCorrect, PTL DEF SystemSpec

\* In the program, restricted to no run of its client, there is one open
\* socket at a time, ...
OneSocketAtATime == \A c, d \in Conns : Open(c) /\ Open(d) => c = d

\* ... and a client that is not being stopped and says it is authorized has sent
\* mining.authorize on the connection it made last.
AuthorizedHere == running /\ authorized => Authorizes(made)

\* However often the pool is lost and whenever the signal comes, the program has
\* one connection to it, and what authorized_ says is about that one
\* (StratumClient.hpp:45, StratumClient.cpp:97-104).
THEOREM OneSocketInProgram == SystemSpec => [](OneSocketAtATime /\ AuthorizedHere)
<1>1. SystemTypeOK /\ FirstRunInv /\ SingleRun => OneSocketAtATime /\ AuthorizedHere
  <2> SUFFICES ASSUME SystemTypeOK, FirstRunInv, SingleRun
               PROVE  OneSocketAtATime /\ AuthorizedHere
    OBVIOUS
  <2>1. CASE starts = 0
    BY <2>1 DEF FirstRunInv, NoneOpen, OneSocketAtATime, AuthorizedHere
  <2>2. CASE starts = 1
    BY <2>2 DEF FirstRunInv, FirstRun, OneSocketAtATime, AuthorizedHere
  <2>3. QED BY <2>1, <2>2 DEF SingleRun
<1>2. QED BY <1>1, SystemTypeCorrect, SystemImplementsClient, FirstRunInvariance,
             SingleRunHolds, PTL

\* What is proved of the client alone holds when the engine's workers use it:
\* lines of different workers do not mix, the handshake's keep their order among
\* them, and the interrupt pipe speaks of stop() (StratumClient.cpp:180-210,
\* 481-487).
THEOREM ClientInProgram ==
    SystemSpec => [](LinesDoNotInterleave /\ InterruptOnlyOnStop /\ HandshakeInOrder)
BY SystemImplementsClient, LinesStayInOrder, InterruptedOnlyByStop, HandshakeOrdered, PTL
=============================================================================
