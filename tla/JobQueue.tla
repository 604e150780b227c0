------------------------------ MODULE JobQueue -------------------------------
(***************************************************************************)
(* threading::JobQueue (include/threading/JobQueue.hpp): the slot through  *)
(* which the network thread hands the current job to the mining workers.   *)
(*                                                                         *)
(* A MiningJob is a struct of strings, so neither the assignment in        *)
(* publish() nor the copy in current() is one step of the machine: both go *)
(* field by field, in any order, under the shared_mutex.  version() takes  *)
(* no lock at all.  As in LatestJob, a job is the number of its publish(). *)
(***************************************************************************)
EXTENDS Naturals

CONSTANTS Publishers,  \* threads that call publish()
          Readers,     \* threads that call current() and version()
          Fields,      \* the fields of a MiningJob
          MaxVersion   \* bound: jobs published in a behaviour

ASSUME ThreadsAssumption == Publishers \cap Readers = {}
ASSUME FieldsAssumption  == Fields # {}
ASSUME BoundAssumption   == MaxVersion \in Nat

VARIABLES current,     \* current_, field by field
          version,     \* version_
          unique,      \* threads holding mutex_ exclusively
          shared,      \* threads holding mutex_ shared
          pc,          \* where each thread is in the call it is making
          done,        \* done[t]: the fields t has assigned or copied so far
          buf,         \* buf[r]: the copy current() is making for r
          job,         \* job[r]: the copy that r's last current() returned
          seen         \* seen[r]: what r's last version() returned

vars == <<current, version, unique, shared, pc, done, buf, job, seen>>

Threads == Publishers \cup Readers
Job == 0 .. MaxVersion
Whole(n) == [f \in Fields |-> n]

Init == /\ current = Whole(0)
        /\ version = 0
        /\ unique = {}
        /\ shared = {}
        /\ pc = [t \in Threads |-> "idle"]
        /\ done = [t \in Threads |-> {}]
        /\ buf = [r \in Readers |-> Whole(0)]
        /\ job = [r \in Readers |-> Whole(0)]
        /\ seen = [r \in Readers |-> 0]

-----------------------------------------------------------------------------
(* Mutants: ways the code could be wrong that the properties must notice.   *)

\* publish() that bumps the version with the job only partly assigned.
BumpTooEarly(p) ==
    /\ pc[p] = "assign"
    /\ version' = version + 1
    /\ pc' = [pc EXCEPT ![p] = "bumped"]
    /\ UNCHANGED <<current, unique, shared, done, buf, job, seen>>

\* publish() whose caller bumps the version once more.
BumpTwice(p) ==
    /\ pc[p] = "assign"
    /\ done[p] = Fields
    /\ version' = version + 2
    /\ pc' = [pc EXCEPT ![p] = "bumped"]
    /\ UNCHANGED <<current, unique, shared, done, buf, job, seen>>

\* publish() that does not wait for the readers inside current().
PublishAmongReaders(p) ==
    /\ pc[p] = "idle"
    /\ version < MaxVersion
    /\ unique = {}
    /\ unique' = {p}
    /\ pc' = [pc EXCEPT ![p] = "assign"]
    /\ done' = [done EXCEPT ![p] = {}]
    /\ UNCHANGED <<current, version, shared, buf, job, seen>>

\* current() without its shared_lock.
CurrentUnlocked(r) ==
    /\ pc[r] = "idle"
    /\ shared' = shared \cup {r}
    /\ pc' = [pc EXCEPT ![r] = "copy"]
    /\ done' = [done EXCEPT ![r] = {}]
    /\ UNCHANGED <<current, version, unique, buf, job, seen>>

-----------------------------------------------------------------------------
(* publish(job): lock exclusively, assign the fields, bump, unlock.         *)

PublishLock(p) ==
    /\ pc[p] = "idle"
    /\ version < MaxVersion
    /\ unique = {} /\ shared = {}
    /\ unique' = {p}
    /\ pc' = [pc EXCEPT ![p] = "assign"]
    /\ done' = [done EXCEPT ![p] = {}]
    /\ UNCHANGED <<current, version, shared, buf, job, seen>>

AssignField(p, f) ==
    /\ pc[p] = "assign"
    /\ f \notin done[p]
    /\ current' = [current EXCEPT ![f] = version + 1]
    /\ done' = [done EXCEPT ![p] = @ \cup {f}]
    /\ UNCHANGED <<version, unique, shared, pc, buf, job, seen>>

BumpVersion(p) ==
    /\ pc[p] = "assign"
    /\ done[p] = Fields
    /\ version' = version + 1
    /\ pc' = [pc EXCEPT ![p] = "bumped"]
    /\ UNCHANGED <<current, unique, shared, done, buf, job, seen>>

PublishUnlock(p) ==
    /\ pc[p] = "bumped"
    /\ unique' = unique \ {p}
    /\ pc' = [pc EXCEPT ![p] = "idle"]
    /\ UNCHANGED <<current, version, shared, done, buf, job, seen>>

-----------------------------------------------------------------------------
(* current(): lock shared, copy the fields, unlock and return the copy.     *)

CurrentLock(r) ==
    /\ pc[r] = "idle"
    /\ unique = {}
    /\ shared' = shared \cup {r}
    /\ pc' = [pc EXCEPT ![r] = "copy"]
    /\ done' = [done EXCEPT ![r] = {}]
    /\ UNCHANGED <<current, version, unique, buf, job, seen>>

CopyField(r, f) ==
    /\ pc[r] = "copy"
    /\ f \notin done[r]
    /\ buf' = [buf EXCEPT ![r][f] = current[f]]
    /\ done' = [done EXCEPT ![r] = @ \cup {f}]
    /\ UNCHANGED <<current, version, unique, shared, pc, job, seen>>

CurrentReturn(r) ==
    /\ pc[r] = "copy"
    /\ done[r] = Fields
    /\ shared' = shared \ {r}
    /\ pc' = [pc EXCEPT ![r] = "idle"]
    /\ job' = [job EXCEPT ![r] = buf[r]]
    /\ UNCHANGED <<current, version, unique, done, buf, seen>>

\* version(): an atomic load, outside the lock.
Version(r) ==
    /\ pc[r] = "idle"
    /\ seen' = [seen EXCEPT ![r] = version]
    /\ UNCHANGED <<current, version, unique, shared, pc, done, buf, job>>

Next ==
    \/ \E p \in Publishers :
          \/ PublishLock(p)
          \/ \E f \in Fields : AssignField(p, f)
          \/ BumpVersion(p)
          \/ PublishUnlock(p)
    \/ \E r \in Readers :
          \/ CurrentLock(r)
          \/ \E f \in Fields : CopyField(r, f)
          \/ CurrentReturn(r)
          \/ Version(r)

Spec == Init /\ [][Next]_vars

-----------------------------------------------------------------------------
(* Properties.                                                              *)

\* Every variable has its type.
TypeOK ==
    /\ current \in [Fields -> Job]
    /\ version \in Job
    /\ unique \subseteq Publishers
    /\ shared \subseteq Readers
    /\ pc \in [Threads -> {"idle", "assign", "bumped", "copy"}]
    /\ done \in [Threads -> SUBSET Fields]
    /\ buf \in [Readers -> [Fields -> Job]]
    /\ job \in [Readers -> [Fields -> Job]]
    /\ seen \in [Readers -> Job]

\* A copy returned by current() is one job, never the fields of two: the
\* worker would otherwise hash one job's blob and submit it under another
\* job's id (JobQueue.hpp:37-40).
NoTornJob ==
    \A r \in Readers : \A f, g \in Fields : job[r][f] = job[r][g]

\* A worker that saw version v and then fetches the job gets job v or a newer
\* one in every field, although version() takes no lock: this is what makes
\* the version usable "to decide whether they need to take the shared lock
\* and fetch a fresh copy" (JobQueue.hpp:42-44).
FreshAfterVersion ==
    [][\A r \in Readers :
          (pc[r] = "copy" /\ pc'[r] = "idle") =>
             \A f \in Fields : job'[r][f] >= seen[r]]_vars

\* The locked slot implements the atomic one: a publish takes effect when the
\* version is bumped, a current() when it returns.
Latest == INSTANCE LatestJob WITH slot <- version
ImplementsLatestJob == Latest!Spec

-----------------------------------------------------------------------------
(* The inductive invariant behind the properties.                           *)

\* mutex_ excludes, and is held exactly inside the two critical sections.
LockInv ==
    /\ unique = {p \in Publishers : pc[p] \in {"assign", "bumped"}}
    /\ shared = {r \in Readers : pc[r] = "copy"}
    /\ \A p, q \in unique : p = q
    /\ unique # {} => shared = {}
    /\ \A p \in Publishers : pc[p] # "copy"
    /\ \A r \in Readers : pc[r] \in {"idle", "copy"}

\* The slot holds job `version`, except for the fields a publisher that has
\* not bumped the version yet already assigned.
SlotInv ==
    \A f \in Fields :
       current[f] = IF \E p \in Publishers : pc[p] = "assign" /\ f \in done[p]
                    THEN version + 1
                    ELSE version

\* What is copied so far is the newest job, and nothing returned is newer.
CopyInv ==
    /\ \A p \in Publishers : pc[p] = "assign" => version < MaxVersion
    /\ \A r \in Readers : pc[r] = "copy" => \A f \in done[r] : buf[r][f] = version
    /\ \A r \in Readers : seen[r] <= version

IInv == TypeOK /\ LockInv /\ SlotInv /\ CopyInv /\ NoTornJob
=============================================================================
