----------------------------- MODULE ThreadPool ------------------------------
(***************************************************************************)
(* threading::ThreadPool (src/threading/ThreadPool.cpp and its header): a  *)
(* fixed set of workers taking tasks from one queue under mutex_ and       *)
(* sleeping on condition_, and the owner of the pool, who submits tasks    *)
(* and finally destroys it.  A task may submit further tasks, also while   *)
(* the destructor waits for the workers.                                   *)
(*                                                                         *)
(* mutex_ is not a variable: it is held exactly by the worker that is      *)
(* between its lock and its unlock, see Holds.  stopping_ is atomic and is *)
(* stored by the destructor without the mutex.  A condition variable may   *)
(* wake a thread for no reason.                                            *)
(***************************************************************************)
EXTENDS Sequences, Naturals

CONSTANTS Workers,   \* the threads of workers_
          Owner,     \* the thread that owns the pool
          Tasks,     \* bound: the tasks submitted in a behaviour
          NoTask     \* what a worker has before its first task

ASSUME OwnerAssumption  == Owner \notin Workers
ASSUME WorkerAssumption == Workers # {}    \* ThreadPool(0) runs no task at all
ASSUME TaskAssumption   == NoTask \notin Tasks

VARIABLES tasks,     \* tasks_
          stopping,  \* stopping_
          pc,        \* where each thread is in the pool's code
          task,      \* task[w]: the local variable `task` of worker w
          submitted, \* the tasks submitted so far
          done       \* the tasks that have run to their end

vars == <<tasks, stopping, pc, task, submitted, done>>

Init == /\ tasks = <<>>
        /\ stopping = FALSE
        /\ pc = [t \in Workers \cup {Owner} |-> IF t = Owner THEN "use" ELSE "lock"]
        /\ task = [w \in Workers |-> NoTask]
        /\ submitted = {}
        /\ done = {}

\* Worker w owns mutex_.
Holds(w) == pc[w] \in {"test", "block", "decide", "take", "pop"}
MutexFree == \A w \in Workers : ~Holds(w)

-----------------------------------------------------------------------------
(* Mutants: ways the code could be wrong that the properties must notice.   *)

\* The worker does not lock mutex_.
LockNothing(w) ==
    /\ pc[w] = "lock"
    /\ pc' = [pc EXCEPT ![w] = "test"]
    /\ UNCHANGED <<tasks, stopping, task, submitted, done>>

\* wait(lock) without its predicate: any wakeup is taken for work.
TestNothing(w) ==
    /\ pc[w] = "test"
    /\ pc' = [pc EXCEPT ![w] = "decide"]
    /\ UNCHANGED <<tasks, stopping, task, submitted, done>>

\* `if (stopping_.load()) return;`, whatever is still queued.
DecideOnStopping(w) ==
    /\ pc[w] = "decide"
    /\ pc' = [pc EXCEPT ![w] = IF stopping THEN "returned" ELSE "take"]
    /\ UNCHANGED <<tasks, stopping, task, submitted, done>>

\* submit() that puts the task before the others.
PushFront(t, from, k) ==
    /\ pc[t] = from
    /\ k \notin submitted
    /\ MutexFree
    /\ tasks' = <<k>> \o tasks
    /\ submitted' = submitted \cup {k}
    /\ pc' = [pc EXCEPT ![t] = "notify"]
    /\ UNCHANGED <<stopping, task, done>>

\* submit() that forgets condition_.notify_one().
NotifyNobody(t, back) ==
    /\ pc[t] = "notify"
    /\ pc' = [pc EXCEPT ![t] = back]
    /\ UNCHANGED <<tasks, stopping, task, submitted, done>>

-----------------------------------------------------------------------------
(* submit(), by the owner or by a running task.                             *)

\* The queue is appended to under the mutex; no worker sees a part of it.
Push(t, from, k) ==
    /\ pc[t] = from
    /\ k \notin submitted
    /\ MutexFree
    /\ tasks' = Append(tasks, k)
    /\ submitted' = submitted \cup {k}
    /\ pc' = [pc EXCEPT ![t] = "notify"]
    /\ UNCHANGED <<stopping, task, done>>

\* notify_one(), after the unlock: one sleeping worker, if there is any,
\* goes for the mutex.
NotifyOne(t, back) ==
    /\ pc[t] = "notify"
    /\ LET waiting == {w \in Workers : pc[w] = "waiting"} IN
          \/ /\ waiting = {}
             /\ pc' = [pc EXCEPT ![t] = back]
          \/ \E w \in waiting :
                pc' = [pc EXCEPT ![t] = back, ![w] = "lock"]
    /\ UNCHANGED <<tasks, stopping, task, submitted, done>>

-----------------------------------------------------------------------------
(* The loop of a worker.                                                    *)

Lock(w) ==
    /\ pc[w] = "lock"
    /\ MutexFree
    /\ pc' = [pc EXCEPT ![w] = "test"]
    /\ UNCHANGED <<tasks, stopping, task, submitted, done>>

\* The predicate of condition_.wait, evaluated before every sleep.
Test(w) ==
    /\ pc[w] = "test"
    /\ pc' = [pc EXCEPT ![w] =
                IF stopping \/ tasks # <<>> THEN "decide" ELSE "block"]
    /\ UNCHANGED <<tasks, stopping, task, submitted, done>>

\* wait() unlocks the mutex and falls asleep in one step.
Block(w) ==
    /\ pc[w] = "block"
    /\ pc' = [pc EXCEPT ![w] = "waiting"]
    /\ UNCHANGED <<tasks, stopping, task, submitted, done>>

WakeSpuriously(w) ==
    /\ pc[w] = "waiting"
    /\ pc' = [pc EXCEPT ![w] = "lock"]
    /\ UNCHANGED <<tasks, stopping, task, submitted, done>>

\* stopping_ is read a second time, after the predicate.
Decide(w) ==
    /\ pc[w] = "decide"
    /\ pc' = [pc EXCEPT ![w] =
                IF stopping /\ tasks = <<>> THEN "returned" ELSE "take"]
    /\ UNCHANGED <<tasks, stopping, task, submitted, done>>

Take(w) ==
    /\ pc[w] = "take"
    /\ tasks # <<>>
    /\ task' = [task EXCEPT ![w] = Head(tasks)]
    /\ pc' = [pc EXCEPT ![w] = "pop"]
    /\ UNCHANGED <<tasks, stopping, submitted, done>>

\* pop() and the unlock.
Pop(w) ==
    /\ pc[w] = "pop"
    /\ tasks # <<>>
    /\ tasks' = Tail(tasks)
    /\ pc' = [pc EXCEPT ![w] = "run"]
    /\ UNCHANGED <<stopping, task, submitted, done>>

Finish(w) ==
    /\ pc[w] = "run"
    /\ done' = done \cup {task[w]}
    /\ pc' = [pc EXCEPT ![w] = "lock"]
    /\ UNCHANGED <<tasks, stopping, task, submitted>>

-----------------------------------------------------------------------------
(* ~ThreadPool(): store, notify_all, join.                                  *)

StoreStopping ==
    /\ pc[Owner] = "use"
    /\ stopping' = TRUE
    /\ pc' = [pc EXCEPT ![Owner] = "stopped"]
    /\ UNCHANGED <<tasks, task, submitted, done>>

NotifyAll ==
    /\ pc[Owner] = "stopped"
    /\ pc' = [t \in DOMAIN pc |-> IF t = Owner THEN "joining"
                                  ELSE IF pc[t] = "waiting" THEN "lock"
                                  ELSE pc[t]]
    /\ UNCHANGED <<tasks, stopping, task, submitted, done>>

Join ==
    /\ pc[Owner] = "joining"
    /\ \A w \in Workers : pc[w] = "returned"
    /\ pc' = [pc EXCEPT ![Owner] = "joined"]
    /\ UNCHANGED <<tasks, stopping, task, submitted, done>>

-----------------------------------------------------------------------------
WorkerSteps(w) ==
    \/ Lock(w) \/ Test(w) \/ Block(w) \/ Decide(w)
    \/ Take(w) \/ Pop(w) \/ Finish(w)
    \/ NotifyOne(w, "run")

OwnerSteps == NotifyOne(Owner, "use") \/ NotifyAll \/ Join

Next ==
    \/ OwnerSteps
    \/ StoreStopping
    \/ \E k \in Tasks : Push(Owner, "use", k)
    \/ \E w \in Workers :
          \/ WorkerSteps(w)
          \/ WakeSpuriously(w)
          \/ \E k \in Tasks : Push(w, "run", k)

\* A running thread keeps running and a task ends; a mutex released again and
\* again is got in the end.  Nobody need submit anything, destroy the pool, or
\* be woken without a notification.
Fairness ==
    /\ WF_vars(OwnerSteps)
    /\ \A w \in Workers : WF_vars(WorkerSteps(w)) /\ SF_vars(Lock(w))

Spec == Init /\ [][Next]_vars
FairSpec == Spec /\ Fairness

-----------------------------------------------------------------------------
(* Properties.                                                              *)

\* Every variable has its type, and what a worker runs is a task.
TypeOK ==
    /\ tasks \in Seq(Tasks)
    /\ stopping \in BOOLEAN
    /\ pc \in [Workers \cup {Owner} ->
                 {"lock", "test", "block", "waiting", "decide", "take", "pop",
                  "run", "notify", "returned",
                  "use", "stopped", "joining", "joined"}]
    /\ task \in [Workers -> Tasks \cup {NoTask}]
    /\ submitted \subseteq Tasks
    /\ done \subseteq Tasks
    /\ \A w \in Workers : pc[w] \in {"pop", "run", "notify"} => task[w] \in Tasks

\* front() and pop() are never called on an empty queue, which would be
\* undefined: no other worker took the task between the predicate and them
\* (ThreadPool.cpp:13-18).
NoPopFromEmpty ==
    \A w \in Workers : pc[w] \in {"take", "pop"} => tasks # <<>>

\* Worker w is executing the task it holds.
Executes(w) == pc[w] \in {"run", "notify"}

\* A task runs once: while it runs no other worker runs it, it is not queued
\* any more and it has not run before (a packaged_task called twice throws).
RunOnce ==
    \A w \in Workers : Executes(w) =>
        /\ task[w] \notin done
        /\ \A i \in 1 .. Len(tasks) : tasks[i] # task[w]
        /\ \A v \in Workers : (Executes(v) /\ task[v] = task[w]) => v = w

\* Once the destructor has joined the workers every task ever submitted has
\* run, the ones submitted by tasks during the join included: no future is
\* left without its result (ThreadPool.cpp:14, ThreadPool.hpp:36).
JoinedMeansDrained == pc[Owner] = "joined" => done = submitted

\* The pool is a queue of tasks for its users: whatever the workers do under the
\* mutex and outside of it, tasks begin in the order of their submission, run
\* once, and the destructor returns with none waiting or running.
AtWork == {task[w] : w \in {v \in Workers : Executes(v)}}

TaskQueue == INSTANCE TaskQueue
    WITH waiting <- tasks, running <- AtWork, finished <- done,
         closed <- (pc[Owner] = "joined")

ImplementsTaskQueue == TaskQueue!QueueSpec

\* A submitted task runs in the end, whoever submits it and whoever sleeps:
\* no notification of submit() is lost.
SubmittedRuns == \A k \in Tasks : (k \in submitted) ~> (k \in done)

\* The destructor returns: its notify_all reaches every sleeping worker, so
\* that every join() returns (ThreadPool.cpp:26-31).
DestructorReturns == (pc[Owner] = "stopped") ~> (pc[Owner] = "joined")

-----------------------------------------------------------------------------
(* The inductive invariant behind the properties.                           *)

\* The workers run the workers' code and the owner the owner's; stopping_ is
\* set once the destructor runs, and only then does a worker return.
PcInv ==
    /\ pc[Owner] \in {"use", "notify", "stopped", "joining", "joined"}
    /\ \A w \in Workers :
          pc[w] \in {"lock", "test", "block", "waiting", "decide", "take",
                     "pop", "run", "notify", "returned"}
    /\ stopping <=> pc[Owner] \in {"stopped", "joining", "joined"}
    /\ \A w \in Workers : pc[w] = "returned" => stopping

\* mutex_ has one holder, and what it decided under the mutex still holds.
MutexInv ==
    /\ \A v, w \in Workers : Holds(v) /\ Holds(w) => v = w
    /\ \A w \in Workers : pc[w] = "decide" => stopping \/ tasks # <<>>
    /\ \A w \in Workers : pc[w] = "pop" => task[w] = tasks[1]

\* Every submitted task is done, queued or being run, and only those are.
TasksInv ==
    /\ \A k \in submitted :
          \/ k \in done
          \/ \E i \in 1 .. Len(tasks) : tasks[i] = k
          \/ \E w \in Workers : Executes(w) /\ task[w] = k
    /\ done \subseteq submitted
    /\ \A i \in 1 .. Len(tasks) : tasks[i] \in submitted \ done
    /\ \A w \in Workers : Executes(w) => task[w] \in submitted

\* No task is queued twice.
QueueInv == \A i, j \in 1 .. Len(tasks) : tasks[i] = tasks[j] => i = j

\* The last worker to return leaves an empty queue, and stays the last.
DrainInv ==
    /\ (\A w \in Workers : pc[w] = "returned") => tasks = <<>>
    /\ pc[Owner] = "joined" => \A w \in Workers : pc[w] = "returned"

IInv == /\ TypeOK /\ PcInv /\ MutexInv /\ TasksInv /\ QueueInv /\ DrainInv
        /\ NoPopFromEmpty /\ RunOnce
=============================================================================
