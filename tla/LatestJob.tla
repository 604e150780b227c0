------------------------------ MODULE LatestJob ------------------------------
(***************************************************************************)
(* What threading::JobQueue promises, said without locks: one slot holding *)
(* the newest job, a version that counts the jobs published, and readers   *)
(* that get the whole of the newest job, or the version, in one step.      *)
(*                                                                         *)
(* Jobs are numbered in the order of publication, so a job is the number   *)
(* of its publish(); 0 stands for std::nullopt, "none published yet".  A   *)
(* reader's copy is a function of the job's fields, which is what lets the *)
(* detailed module say that a copy could mix two jobs.                     *)
(***************************************************************************)
EXTENDS Naturals

CONSTANTS Readers,     \* the threads that call current() and version()
          Fields,      \* the fields of a MiningJob
          MaxVersion   \* bound: jobs published in a behaviour

VARIABLES slot,        \* the newest job, which is also the version
          job,         \* job[r]: the copy that r's last current() returned
          seen         \* seen[r]: what r's last version() returned

vars == <<slot, job, seen>>

Whole(n) == [f \in Fields |-> n]

Init == /\ slot = 0
        /\ job = [r \in Readers |-> Whole(0)]
        /\ seen = [r \in Readers |-> 0]

Publish == /\ slot < MaxVersion
           /\ slot' = slot + 1
           /\ UNCHANGED <<job, seen>>

Read(r) == /\ job' = [job EXCEPT ![r] = Whole(slot)]
           /\ UNCHANGED <<slot, seen>>

Poll(r) == /\ seen' = [seen EXCEPT ![r] = slot]
           /\ UNCHANGED <<slot, job>>

Next == \/ Publish
        \/ \E r \in Readers : Read(r) \/ Poll(r)

Spec == Init /\ [][Next]_vars
=============================================================================
