------------------------------ MODULE CppMiner ------------------------------
(***************************************************************************)
(* The program: main() (src/main.cpp), which starts the client and then    *)
(* the engine and stops them in the opposite order, the worker threads of  *)
(* miner::MinerEngine (src/miner/MinerEngine.cpp) with their running_      *)
(* flag, and the StratumClient the workers submit their shares through.    *)
(*                                                                         *)
(* What is hashed and what the shares say does not matter here: a worker   *)
(* finds a share in its batch or does not.                                 *)
(***************************************************************************)
EXTENDS StratumClient, FiniteSets

VARIABLES
    signalled,  \* g_shutdownRequested
    engine,     \* MinerEngine::running_
    worker,     \* worker[w]: where w is in workerLoop()
    program     \* where main() is

engineVars == <<signalled, engine, worker, program>>
allVars    == <<vars, engineVars>>

SystemInit ==
    /\ Init
    /\ signalled = FALSE /\ engine = FALSE
    /\ worker = [w \in Workers |-> "none"]
    /\ program = "boot"

-----------------------------------------------------------------------------
(* Mutants: ways the code could be wrong that the properties must notice.   *)

\* MinerEngine::stop() that does not join.
JoinNobody ==
    /\ program = "join"
    /\ program' = "stopClient"
    /\ UNCHANGED <<vars, signalled, engine, worker>>

\* MinerEngine::stop() that reads running_ where it should reset it.
StopEngineKeepsRunning ==
    /\ program = "mine"
    /\ signalled
    /\ program' = "join"
    /\ UNCHANGED <<vars, signalled, engine, worker>>

-----------------------------------------------------------------------------
(* main() and the signal handler.                                           *)

StartClient ==
    /\ program = "boot"
    /\ Start
    /\ program' = "startEngine"
    /\ UNCHANGED <<signalled, engine, worker>>

\* MinerEngine::start().
StartEngine ==
    /\ program = "startEngine"
    /\ engine' = TRUE
    /\ worker' = [w \in Workers |-> "loop"]
    /\ program' = "mine"
    /\ UNCHANGED <<vars, signalled>>

\* SIGINT or SIGTERM, at any time.
Signal ==
    /\ ~signalled
    /\ signalled' = TRUE
    /\ UNCHANGED <<vars, engine, worker, program>>

\* The loop of main() sees the flag and calls MinerEngine::stop(), ...
StopEngine ==
    /\ program = "mine"
    /\ signalled
    /\ engine' = FALSE
    /\ program' = "join"
    /\ UNCHANGED <<vars, signalled, worker>>

\* ... which joins the workers ...
JoinWorkers ==
    /\ program = "join"
    /\ \A w \in Workers : worker[w] = "done"
    /\ program' = "stopClient"
    /\ UNCHANGED <<vars, signalled, engine, worker>>

\* ... before StratumClient::stop() is called.
StopClient ==
    /\ program = "stopClient"
    /\ StopRequest
    /\ program' = "stopping"
    /\ UNCHANGED <<signalled, engine, worker>>

\* stop() returns.  The destructors find nothing left to stop.
Exit ==
    /\ program = "stopping"
    /\ main = "idle"
    /\ program' = "exited"
    /\ UNCHANGED <<vars, signalled, engine, worker>>

-----------------------------------------------------------------------------
(* workerLoop().                                                            *)

CheckRunning(w) ==
    /\ worker[w] = "loop"
    /\ worker' = [worker EXCEPT ![w] = IF engine THEN "batch" ELSE "done"]
    /\ UNCHANGED <<vars, signalled, engine, program>>

\* A hash of the batch is a share.  Bound: shares on their way count as
\* submitted.
FindShare(w) ==
    /\ worker[w] = "batch" /\ send[w] = "out"
    /\ submits + Cardinality({v \in Workers : worker[v] = "share"}) < MaxSubmits
    /\ worker' = [worker EXCEPT ![w] = "share"]
    /\ UNCHANGED <<vars, signalled, engine, program>>

\* sendLine(), once it has writeMutex_: with a connection, and without one.
SubmitShare(w) ==
    /\ worker[w] = "share"
    /\ \/ Enter(w)
       \/ MutexFree /\ fd = NoConn /\ UNCHANGED vars
    /\ worker' = [worker EXCEPT ![w] = "batch"]
    /\ UNCHANGED <<signalled, engine, program>>

EndBatch(w) ==
    /\ worker[w] = "batch" /\ send[w] = "out"
    /\ worker' = [worker EXCEPT ![w] = IF engine THEN "loop" ELSE "done"]
    /\ UNCHANGED <<vars, signalled, engine, program>>

-----------------------------------------------------------------------------
\* The steps of the client that neither start nor stop it nor enter
\* sendLine() for a worker.
ClientSteps ==
    /\ \/ NetSteps \/ StopSteps \/ Receive \/ PollError
       \/ \E w \in Workers : SendSteps(w)
       \/ \E c \in Conns : PeerCloses(c) \/ PeerStalls(c)
    /\ UNCHANGED engineVars

MainSteps == StartClient \/ StartEngine \/ StopEngine \/ JoinWorkers \/ StopClient \/ Exit

SystemNext ==
    \/ MainSteps \/ Signal \/ ClientSteps
    \/ \E w \in Workers :
          CheckRunning(w) \/ FindShare(w) \/ SubmitShare(w) \/ EndBatch(w)

SystemSpec == SystemInit /\ [][SystemNext]_allVars

\* Threads run, a worker gets a mutex that is released again and again, and a
\* batch ends however many of its 2048 hashes are shares.  A signal need not
\* come, nor a share be found.
FairSystemSpec ==
    /\ SystemSpec /\ Fairness
    /\ WF_allVars(MainSteps)
    /\ \A w \in Workers : /\ WF_allVars(CheckRunning(w))
                          /\ SF_allVars(SubmitShare(w)) /\ SF_allVars(EndBatch(w))

-----------------------------------------------------------------------------
(* Properties.                                                              *)

\* Every variable has its type.
SystemTypeOK ==
    /\ TypeOK
    /\ signalled \in BOOLEAN /\ engine \in BOOLEAN
    /\ worker \in [Workers -> {"none", "loop", "batch", "share", "done"}]
    /\ program \in {"boot", "startEngine", "mine", "join", "stopClient",
                    "stopping", "exited"}

\* Once the engine is stopped no worker is, or will ever be, inside the
\* client, and when main() returns the network thread is gone, too: the
\* objects are destroyed with nobody using them (main.cpp:292-295).
NobodyLeft ==
    /\ program \in {"stopClient", "stopping", "exited"} =>
          \A w \in Workers : worker[w] = "done" /\ send[w] = "out"
    /\ program = "exited" => net = "off" /\ MutexFree

\* After a signal the program ends, provided the pool goes on reading what it
\* is sent or else closes the connection (main.cpp:254, 292-295).
ShutsDownWhenPoolReads ==
    []<>(\A c \in Conns : sock[c] # "stalled") => (signalled ~> program = "exited")

\* After a signal the program ends, whatever the pool does (README.md:198-201,
\* "the entire process stops in under 100ms").
ShutsDown == signalled ~> program = "exited"

-----------------------------------------------------------------------------
(* The inductive invariant behind NobodyLeft.                               *)

\* Only a worker in the middle of its batch is inside sendLine(), workers are
\* there from start() to stop() of the engine, and the client is stopped after
\* the last of them.
WorkerInv ==
    /\ \A w \in Workers : send[w] # "out" => worker[w] = "batch"
    /\ program \in {"boot", "startEngine"} =>
          \A w \in Workers : worker[w] = "none"
    /\ program \in {"stopClient", "stopping", "exited"} =>
          \A w \in Workers : worker[w] = "done"
    /\ program \in {"stopping", "exited"} => ~running
    /\ program = "exited" => main = "idle"

SystemIInv == SystemTypeOK /\ IInv /\ WorkerInv
=============================================================================
