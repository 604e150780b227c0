--------------------------- MODULE JobQueueProofs ----------------------------
(***************************************************************************)
(* The properties of JobQueue for every set of publishers, readers and     *)
(* fields and every number of publications, and the refinement of          *)
(* LatestJob.                                                              *)
(***************************************************************************)
EXTENDS JobQueue, TLAPS

USE DEF Threads, Job, Whole

\* The queue starts in the invariant: nothing is published or locked.
LEMMA InitIInv == Init => IInv
BY ThreadsAssumption, BoundAssumption
   DEF Init, IInv, TypeOK, LockInv, SlotInv, CopyInv, NoTornJob

\* Each of the four steps of publish() keeps the invariant.
LEMMA PublishIInv ==
    ASSUME NEW p \in Publishers, IInv,
           \/ PublishLock(p)
           \/ \E f \in Fields : AssignField(p, f)
           \/ BumpVersion(p)
           \/ PublishUnlock(p)
    PROVE  IInv'
<1> USE ThreadsAssumption, BoundAssumption
        DEF IInv, TypeOK, LockInv, SlotInv, CopyInv, NoTornJob
<1>1. CASE PublishLock(p)
  BY <1>1 DEF PublishLock
<1>2. ASSUME NEW f \in Fields, AssignField(p, f) PROVE IInv'
  BY <1>2 DEF AssignField
<1>3. CASE BumpVersion(p)
  BY <1>3 DEF BumpVersion
<1>4. CASE PublishUnlock(p)
  BY <1>4 DEF PublishUnlock
<1>5. QED BY <1>1, <1>2, <1>3, <1>4

\* Each of the three steps of current(), and version(), keeps the invariant.
LEMMA ReadIInv ==
    ASSUME NEW r \in Readers, IInv,
           \/ CurrentLock(r)
           \/ \E f \in Fields : CopyField(r, f)
           \/ CurrentReturn(r)
           \/ Version(r)
    PROVE  IInv'
<1> USE ThreadsAssumption, BoundAssumption
        DEF IInv, TypeOK, LockInv, SlotInv, CopyInv, NoTornJob
<1>1. CASE CurrentLock(r)
  BY <1>1 DEF CurrentLock
<1>2. ASSUME NEW f \in Fields, CopyField(r, f) PROVE IInv'
  BY <1>2 DEF CopyField
<1>3. CASE CurrentReturn(r)
  BY <1>3 DEF CurrentReturn
<1>4. CASE Version(r)
  BY <1>4 DEF Version
<1>5. QED BY <1>1, <1>2, <1>3, <1>4

LEMMA NextIInv == IInv /\ [Next]_vars => IInv'
<1> SUFFICES ASSUME IInv, [Next]_vars PROVE IInv'
  OBVIOUS
<1>1. ASSUME NEW p \in Publishers,
             \/ PublishLock(p)
             \/ \E f \in Fields : AssignField(p, f)
             \/ BumpVersion(p)
             \/ PublishUnlock(p)
      PROVE  IInv'
  BY <1>1, PublishIInv
<1>2. ASSUME NEW r \in Readers,
             \/ CurrentLock(r)
             \/ \E f \in Fields : CopyField(r, f)
             \/ CurrentReturn(r)
             \/ Version(r)
      PROVE  IInv'
  BY <1>2, ReadIInv
<1>3. CASE UNCHANGED vars
  BY <1>3 DEF vars, IInv, TypeOK, LockInv, SlotInv, CopyInv, NoTornJob
<1>4. QED BY <1>1, <1>2, <1>3 DEF Next

LEMMA Invariance == Spec => []IInv
BY InitIInv, NextIInv, PTL DEF Spec

\* Every behaviour is well typed.
THEOREM TypeCorrect == Spec => []TypeOK
<1>1. IInv => TypeOK  BY DEF IInv
<1>2. QED BY <1>1, Invariance, PTL

\* No call of current() ever returns a mixture of two jobs, whatever the
\* number of workers and of fields in a job.
THEOREM NoTorn == Spec => []NoTornJob
<1>1. IInv => NoTornJob  BY DEF IInv
<1>2. QED BY <1>1, Invariance, PTL

-----------------------------------------------------------------------------
\* The copy current() returns is the newest job, in every field.
LEMMA ReturnsNewest ==
    ASSUME NEW r \in Readers, IInv, CurrentReturn(r)
    PROVE  job' = [job EXCEPT ![r] = Whole(version)]
<1>1. buf[r] \in [Fields -> Job]
  BY DEF IInv, TypeOK
<1>2. \A f \in Fields : buf[r][f] = version
  BY DEF CurrentReturn, IInv, CopyInv
<1>3. buf[r] = Whole(version)
  BY <1>1, <1>2
<1>4. QED BY <1>3 DEF CurrentReturn

\* A worker never fetches a job older than the version it has seen.
THEOREM Fresh == Spec => FreshAfterVersion
<1> DEFINE FreshStep ==
      \A r \in Readers :
         (pc[r] = "copy" /\ pc'[r] = "idle") =>
            \A f \in Fields : job'[r][f] >= seen[r]
<1>1. IInv /\ [Next]_vars => [FreshStep]_vars
  <2> SUFFICES ASSUME IInv, Next,
                      NEW r \in Readers, pc[r] = "copy", pc'[r] = "idle",
                      NEW f \in Fields
               PROVE  job'[r][f] >= seen[r]
    OBVIOUS
  <2>1. CurrentReturn(r)
    BY ThreadsAssumption
       DEF IInv, TypeOK, LockInv, Next, PublishLock, AssignField, BumpVersion,
           PublishUnlock, CurrentLock, CopyField, CurrentReturn, Version
  <2>2. job'[r] = Whole(version)
    BY <2>1, ReturnsNewest DEF IInv, TypeOK
  <2>3. seen[r] <= version
    BY DEF IInv, CopyInv
  <2>4. QED BY <2>2, <2>3, BoundAssumption DEF IInv, TypeOK
<1>2. QED BY <1>1, Invariance, PTL DEF Spec, FreshAfterVersion

\* JobQueue implements the atomic slot of LatestJob: a publish is atomic at
\* the bump of the version, a current() at its return, a version() at once.
THEOREM Refinement == Spec => ImplementsLatestJob
<1>1. Init => Latest!Init
  BY DEF Init, Latest!Init, Latest!Whole
<1>2. IInv /\ [Next]_vars => [Latest!Next]_(Latest!vars)
  <2> SUFFICES ASSUME IInv, [Next]_vars PROVE [Latest!Next]_(Latest!vars)
    OBVIOUS
  <2> USE DEF Latest!Next, Latest!vars
  <2>1. ASSUME NEW p \in Publishers, BumpVersion(p) PROVE Latest!Next
    BY <2>1 DEF BumpVersion, Latest!Publish, IInv, CopyInv
  <2>2. ASSUME NEW r \in Readers, CurrentReturn(r) PROVE Latest!Next
    BY <2>2, ReturnsNewest DEF CurrentReturn, Latest!Read, Latest!Whole
  <2>3. ASSUME NEW r \in Readers, Version(r) PROVE Latest!Next
    BY <2>3 DEF Version, Latest!Poll
  <2>4. ASSUME NEW p \in Publishers,
               \/ PublishLock(p)
               \/ \E f \in Fields : AssignField(p, f)
               \/ PublishUnlock(p)
        PROVE  UNCHANGED Latest!vars
    BY <2>4 DEF PublishLock, AssignField, PublishUnlock
  <2>5. ASSUME NEW r \in Readers,
               \/ CurrentLock(r)
               \/ \E f \in Fields : CopyField(r, f)
        PROVE  UNCHANGED Latest!vars
    BY <2>5 DEF CurrentLock, CopyField
  <2>6. CASE UNCHANGED vars
    BY <2>6 DEF vars
  <2>7. QED BY <2>1, <2>2, <2>3, <2>4, <2>5, <2>6 DEF Next
<1>3. QED BY <1>1, <1>2, Invariance, PTL DEF Spec, ImplementsLatestJob, Latest!Spec
=============================================================================
