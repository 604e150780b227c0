----------------------------- MODULE TaskQueue ------------------------------
(***************************************************************************)
(* What threading::ThreadPool (include/threading/ThreadPool.hpp) promises  *)
(* to whoever submits a task, without workers, mutex or condition          *)
(* variable: tasks begin in the order they were submitted in, each one     *)
(* once, several at a time, and the pool closes with nothing left to do.   *)
(***************************************************************************)
EXTENDS Sequences, Naturals

CONSTANT Tasks

VARIABLES waiting,    \* the tasks that have not begun, in their order
          running,    \* the tasks that have begun and not ended
          finished,   \* the tasks that have ended
          closed      \* the pool has been destroyed

queueVars == <<waiting, running, finished, closed>>

QueueInit ==
    /\ waiting = <<>>
    /\ running = {} /\ finished = {}
    /\ closed = FALSE

\* A task is new when it is submitted.  Running tasks may submit others.
Submit(k) ==
    /\ ~closed
    /\ k \notin running \cup finished
    /\ \A i \in 1 .. Len(waiting) : waiting[i] # k
    /\ waiting' = Append(waiting, k)
    /\ UNCHANGED <<running, finished, closed>>

Begin ==
    /\ waiting # <<>>
    /\ waiting' = Tail(waiting)
    /\ running' = running \cup {Head(waiting)}
    /\ UNCHANGED <<finished, closed>>

End(k) ==
    /\ k \in running
    /\ running' = running \ {k}
    /\ finished' = finished \cup {k}
    /\ UNCHANGED <<waiting, closed>>

CloseWhenIdle ==
    /\ waiting = <<>> /\ running = {}
    /\ closed' = TRUE
    /\ UNCHANGED <<waiting, running, finished>>

QueueNext ==
    \/ \E k \in Tasks : Submit(k) \/ End(k)
    \/ Begin
    \/ CloseWhenIdle

QueueSpec == QueueInit /\ [][QueueNext]_queueVars
=============================================================================
