---------------------------- MODULE MinerEngine ----------------------------
(***************************************************************************)
(* miner::MinerEngine::workerLoop() (src/miner/MinerEngine.cpp): which     *)
(* inputs the workers hash, of which job, with which nonces.               *)
(*                                                                         *)
(* What is recorded of a hash is what enters the digest (see WorkInput):   *)
(* the job, the worker's number, which is the extranonce2 of a header, and *)
(* the nonce, a number of four bytes that wraps.  How a worker starts and  *)
(* stops is the subject of CppMiner, what becomes of a share that of       *)
(* StratumDialogue.                                                        *)
(***************************************************************************)
EXTENDS WorkInput, FiniteSets

CONSTANTS Threads,     \* number of workers
          Byte,        \* 256: the values of a byte
          BatchSize,   \* 2048: hashes between two looks at the job queue
          Names,       \* the algorithms the configuration may name
          PoolForms,   \* the forms of the jobs the pool may send
          MaxJobs,     \* bound: jobs published
          MaxBatches   \* bound: batches of each worker

ASSUME ThreadsAssumption == Threads \in Nat \ {0}
ASSUME ByteAssumption    == Byte \in Nat \ {0}
ASSUME BatchAssumption   == BatchSize \in Nat
ASSUME FormsAssumption   == PoolForms \subseteq Forms
ASSUME BoundsAssumption  == MaxJobs \in Nat /\ MaxBatches \in Nat

\* 2^32, 2^24, and that within the bound no worker uses a nonce twice.
NonceSpace == Byte * Byte * Byte * Byte
Gap        == Byte * Byte * Byte
ASSUME RangeAssumption ==
    /\ BatchSize * Threads <= NonceSpace
    /\ (MaxBatches * BatchSize) * Threads <= NonceSpace

VARIABLES algorithm, \* the algorithm's name in the configuration
          aborted,   \* an exception has ended the process
          slot,      \* jobQueue_: the job published last
          at,        \* at[w]: where w is in workerLoop()
          job,       \* job[w]: the job w has copied
          nonce,     \* nonce[w]: w's variable of that name
          i,         \* i[w]: hashes of the present batch, or BatchSize after it
          total,     \* history: hashes of headers that keep workers apart
          hashed,    \* history: the inputs hashed so far
          stale,     \* history: hashes of w's present job after a newer one came
          seen,      \* history: seen[w], the inputs of w's present batch
          batches    \* batches[w]: for the bound

history == <<hashed, total, stale, seen>>
vars == <<algorithm, aborted, slot, at, job, nonce, i, history, batches>>

Workers == 0 .. Threads - 1
Nonces  == 0 .. NonceSpace - 1

\* The default of a MiningJob, which is never mined, and the pool's jobs.
NoForm == [blob |-> 0, hex |-> TRUE, marked |-> FALSE,
           before |-> 0, extranonce2Size |-> 4, after |-> 0]
NoJob  == [n |-> 0, form |-> NoForm]
Jobs   == [n : 0 .. MaxJobs, form : PoolForms \cup {NoForm}]

Inputs == [job : Jobs, extranonce2 : Workers, nonce : Nonces, digest : BOOLEAN]

Init == /\ algorithm \in Names
        /\ aborted = FALSE
        /\ slot = NoJob
        /\ at = [w \in Workers |-> "start"]
        /\ job = [w \in Workers |-> NoJob]
        /\ nonce = [w \in Workers |-> (w * Gap) % NonceSpace]
        /\ i = [w \in Workers |-> 0]
        /\ hashed = {} /\ total = 0
        /\ stale = [w \in Workers |-> 0]
        /\ seen = [w \in Workers |-> {}]
        /\ batches = [w \in Workers |-> 0]

Alg == Algorithm(algorithm)

\* A mutant of HeaderInput: a header that is not cut.
HeaderInputUncut(w, n) ==
    LET f == job[w].form
        d == Digests(Alg, Extranonce2End(f, w) + f.after)
    IN [job |-> job[w], digest |-> d,
        extranonce2 |-> IF d THEN w ELSE 0, nonce |-> IF d THEN n ELSE 0]

\* What w's hash of its job with nonce n is a hash of: nothing, if there is no
\* digest.
HeaderInput(w, n) ==
    LET f == job[w].form
        d == Digests(Alg, HeaderSize(f, w))
    IN [job |-> job[w], digest |-> d,
        extranonce2 |-> IF d THEN Extranonce2Seen(Alg, f, w) ELSE 0,
        nonce |-> IF d THEN n ELSE 0]
BlobInput(w, n) ==
    LET f == job[w].form
        d == Digests(Alg, Bytes(f))
    IN [job |-> job[w], digest |-> d, extranonce2 |-> 0,
        nonce |-> IF d THEN NonceSeen(Alg, f, n, Byte) ELSE 0]

\* A header in which the extranonce2 of every worker is hashed to its end.
KeepsApart(alg, f) ==
    /\ ~HasBlob(f)
    /\ \A w \in Workers :
          Extranonce2End(f, w) <= IF alg = "cryptonight" THEN CnInput ELSE HeaderLimit

\* What a hash of input x by worker w counts for.
Record(w, x) ==
    /\ hashed' = hashed \cup {x}
    /\ total' = IF KeepsApart(Alg, job[w].form) THEN total + 1 ELSE total
    /\ seen' = [seen EXCEPT ![w] = @ \cup {x}]
    /\ stale' = [stale EXCEPT ![w] = IF job[w] = slot THEN @ ELSE @ + 1]

-----------------------------------------------------------------------------
(* Mutants: ways the code could be wrong that the properties must notice.   *)

\* A header's batch that takes its nonces as a blob's batch does: the worker's
\* nonce stays where it is.
HashHeaderFromBase(w) ==
    /\ at[w] = "hash" /\ ~HasBlob(job[w].form)
    /\ i[w] < BatchSize
    /\ Record(w, HeaderInput(w, (nonce[w] + i[w] * Threads) % NonceSpace))
    /\ i' = [i EXCEPT ![w] = @ + 1]
    /\ UNCHANGED <<algorithm, aborted, slot, at, job, nonce, batches>>

\* Nonces that do not wrap.
HashHeaderUnbounded(w) ==
    /\ at[w] = "hash" /\ ~HasBlob(job[w].form)
    /\ i[w] < BatchSize
    /\ Record(w, HeaderInput(w, nonce[w]))
    /\ nonce' = [nonce EXCEPT ![w] = @ + Threads]
    /\ i' = [i EXCEPT ![w] = @ + 1]
    /\ UNCHANGED <<algorithm, aborted, slot, at, job, batches>>

\* A blob's batch that neither advances the nonce nor counts from it.
HashBlobAgain(w) ==
    /\ at[w] = "hash" /\ HasBlob(job[w].form)
    /\ job[w].form.hex
    /\ i[w] < BatchSize
    /\ Record(w, BlobInput(w, nonce[w]))
    /\ i' = [i EXCEPT ![w] = @ + 1]
    /\ UNCHANGED <<algorithm, aborted, slot, at, job, nonce, batches>>

\* A worker that goes on with its job when it has one.
FetchOnce(w) ==
    /\ at[w] = "fetch" /\ slot # NoJob
    /\ batches[w] < MaxBatches
    /\ LET j == IF job[w] = NoJob THEN slot ELSE job[w] IN
       /\ job' = [job EXCEPT ![w] = j]
       /\ stale' = [stale EXCEPT ![w] = IF j = slot THEN 0 ELSE @]
       /\ \/ Malformed(j.form) /\ UNCHANGED <<at, batches>>
          \/ /\ ~Malformed(j.form)
             /\ at' = [at EXCEPT ![w] = "hash"]
             /\ batches' = [batches EXCEPT ![w] = @ + 1]
    /\ i' = [i EXCEPT ![w] = 0]
    /\ seen' = [seen EXCEPT ![w] = {}]
    /\ UNCHANGED <<algorithm, aborted, slot, nonce, hashed, total>>

\* A worker that takes blobs of any length.
FetchUnchecked(w) ==
    /\ at[w] = "fetch" /\ slot # NoJob
    /\ batches[w] < MaxBatches
    /\ job' = [job EXCEPT ![w] = slot]
    /\ at' = [at EXCEPT ![w] = "hash"]
    /\ batches' = [batches EXCEPT ![w] = @ + 1]
    /\ i' = [i EXCEPT ![w] = 0]
    /\ seen' = [seen EXCEPT ![w] = {}]
    /\ stale' = [stale EXCEPT ![w] = 0]
    /\ UNCHANGED <<algorithm, aborted, slot, nonce, hashed, total>>

-----------------------------------------------------------------------------
\* updateJob(), from another thread.
Publish(form) ==
    /\ slot.n < MaxJobs
    /\ slot' = [n |-> slot.n + 1, form |-> form]
    /\ UNCHANGED <<algorithm, aborted, at, job, nonce, i, history, batches>>

\* Each worker makes its own algorithm.  Nobody catches an exception.
CreateAlgorithm(w) ==
    /\ at[w] = "start"
    /\ aborted' = (Alg = "none")
    /\ at' = [at EXCEPT ![w] = "fetch"]
    /\ UNCHANGED <<algorithm, slot, job, nonce, i, history, batches>>

\* The job is copied for a batch.  Without a job, and with a malformed one,
\* the worker looks again.
FetchJob(w) ==
    /\ at[w] = "fetch" /\ slot # NoJob
    /\ batches[w] < MaxBatches
    /\ job' = [job EXCEPT ![w] = slot]
    /\ \/ Malformed(slot.form) /\ UNCHANGED <<at, batches>>
       \/ /\ ~Malformed(slot.form)
          /\ at' = [at EXCEPT ![w] = "hash"]
          /\ batches' = [batches EXCEPT ![w] = @ + 1]
    /\ i' = [i EXCEPT ![w] = 0]
    /\ seen' = [seen EXCEPT ![w] = {}]
    /\ stale' = [stale EXCEPT ![w] = 0]
    /\ UNCHANGED <<algorithm, aborted, slot, nonce, hashed, total>>

\* A hash of a header: the nonce is advanced by the number of workers.
HashHeader(w) ==
    /\ at[w] = "hash" /\ ~HasBlob(job[w].form)
    /\ i[w] < BatchSize
    /\ Record(w, HeaderInput(w, nonce[w]))
    /\ nonce' = [nonce EXCEPT ![w] = (@ + Threads) % NonceSpace]
    /\ i' = [i EXCEPT ![w] = @ + 1]
    /\ UNCHANGED <<algorithm, aborted, slot, at, job, batches>>

\* A hash of a blob: there is no extranonce, and the nonce is counted from the
\* worker's, which stays.
HashBlob(w) ==
    /\ at[w] = "hash" /\ HasBlob(job[w].form)
    /\ job[w].form.hex
    /\ i[w] < BatchSize
    /\ Record(w, BlobInput(w, (nonce[w] + i[w] * Threads) % NonceSpace))
    /\ i' = [i EXCEPT ![w] = @ + 1]
    /\ UNCHANGED <<algorithm, aborted, slot, at, job, nonce, batches>>

\* A pair of characters that stoul() cannot read is an exception.  So may be a nonce
\* beyond the end of the string, the behaviour of which is undefined: either it
\* comes to nothing, or the process ends.
BlobThrows(w) ==
    /\ at[w] = "hash" /\ HasBlob(job[w].form)
    /\ ~job[w].form.hex \/ Overrun(job[w].form)
    /\ i[w] < BatchSize
    /\ aborted' = TRUE
    /\ UNCHANGED <<algorithm, slot, at, job, nonce, i, history, batches>>

EndBatch(w) ==
    /\ at[w] = "hash" /\ i[w] = BatchSize
    /\ at' = [at EXCEPT ![w] = "fetch"]
    /\ UNCHANGED <<algorithm, aborted, slot, job, nonce, i, history, batches>>

WorkerSteps(w) ==
    /\ ~aborted
    /\ \/ CreateAlgorithm(w) \/ FetchJob(w)
       \/ HashHeader(w) \/ HashBlob(w) \/ BlobThrows(w) \/ EndBatch(w)

Next ==
    \/ ~aborted /\ \E form \in PoolForms : Publish(form)
    \/ \E w \in Workers : WorkerSteps(w)

Spec == Init /\ [][Next]_vars

\* Threads run.  The pool need not send jobs.
FairSpec == Spec /\ \A w \in Workers : WF_vars(WorkerSteps(w))

-----------------------------------------------------------------------------
(* Properties.                                                              *)

\* Every variable has its type.
TypeOK ==
    /\ algorithm \in Names /\ aborted \in BOOLEAN
    /\ slot \in Jobs
    /\ at \in [Workers -> {"start", "fetch", "hash"}]
    /\ job \in [Workers -> Jobs]
    /\ nonce \in [Workers -> Nonces]
    /\ i \in [Workers -> 0 .. BatchSize]
    /\ hashed \subseteq Inputs
    /\ total \in Nat
    /\ stale \in [Workers -> Nat]
    /\ seen \in [Workers -> SUBSET Inputs]
    /\ batches \in [Workers -> 0 .. MaxBatches]

\* Work on a job ends soon after a newer one is published: within one batch
\* each worker looks at the queue again (MinerEngine.cpp:126, 243-257).
StaleWorkIsBounded == \A w \in Workers : stale[w] <= BatchSize

HashesNonces(alg, f) ==
    HasBlob(f) => /\ f.blob >= 8
                  /\ Bytes(f) <= IF alg = "cryptonight" THEN CnInput
                                 ELSE BufferSize - NonceSize

\* Every nonce of a batch is a hash of its own: of every header, of blobs of 4 to
\* 252 bytes under sha256d, and of blobs of 4 to 72 bytes under cryptonight.
\* Beyond, the nonce may be out of the algorithm's sight (MinerEngine.cpp:151-214,
\* 256, Sha256dAlgorithm.cpp:110-114, CryptonightAlgorithm.cpp:75-80).
BatchIsFresh ==
    \A w \in Workers : HashesNonces(Alg, job[w].form) => Cardinality(seen[w]) = i[w]

\* Of headers in which extranonce2 is hashed, which cut it after 200 characters
\* or, under cryptonight, 72, no input is ever hashed twice, by two workers or by
\* one in different batches: where the nonces of two workers overlap their
\* extranonce2 differs (MinerEngine.cpp:122-123, 134, 239-241, 256).  This holds
\* until a worker has used all of its nonces.
NothingHashedTwice ==
    total = Cardinality({x \in hashed : KeepsApart(Alg, x.job.form)})

\* Headers keep the hash's contract, "inputLen <= buffer_.size()-4": a digest is
\* missing, and taken for a share all the same, only of blobs that are longer
\* (MinerEngine.cpp:223-228, 241, Sha256dAlgorithm.cpp:111-114).
MissingDigestsAreLongBlobs ==
    \A x \in hashed : ~x.digest => Bytes(x.job.form) > BufferSize - NonceSize

\* The process ends by an exception for an unknown algorithm or for a blob
\* with a pair of characters that is no number, or too short for a nonce, but long
\* enough to be tried: not for the shorter ones, which are skipped
\* (MinerEngine.cpp:118, 141-143, 160, 219).
AbortHasItsReason ==
    aborted => \/ Alg = "none"
               \/ \E w \in Workers : LET f == job[w].form IN
                     f.blob >= 4 /\ (~f.hex \/ f.blob < 8)

\* However busy a worker is, be it with jobs it can only skip, it takes up the
\* newest job again and again (MinerEngine.cpp:125-143, 260), until the process
\* ends or the worker has used up its bound.
NewJobIsTaken ==
    \A w \in Workers :
       []<>(job[w] = slot \/ aborted \/ batches[w] = MaxBatches)

-----------------------------------------------------------------------------
(* The inductive invariant behind the safety properties that are proved.    *)

\* What a worker has hashed of an outdated job it has hashed in this batch.
StaleInv == \A w \in Workers : stale[w] <= i[w]

\* The hashes w has made; and a nonce that is up to d steps ahead of another.
Done(w) == batches[w] * BatchSize - (IF at[w] = "hash" THEN BatchSize - i[w] ELSE 0)
Ahead(now, n, d) == \E k \in 1 .. d : now = (n + k * Threads) % NonceSpace

\* The nonces of a batch are as many as its hashes, the steps from the worker's
\* nonce, or up to it, being different.
BatchInv ==
    \A w \in Workers : HashesNonces(Alg, job[w].form) =>
       /\ IsFiniteSet(seen[w]) /\ Cardinality(seen[w]) = i[w]
       /\ \A x \in seen[w] :
             \/ /\ HasBlob(job[w].form)
                /\ \E k \in 0 .. i[w] - 1 : x.nonce = (nonce[w] + k * Threads) % NonceSpace
             \/ ~HasBlob(job[w].form) /\ Ahead(nonce[w], x.nonce, i[w])

\* A worker's nonce is ahead of those it has hashed headers with.
ApartInv ==
    /\ \A w \in Workers : at[w] = "hash" => batches[w] >= 1
    /\ IsFiniteSet(hashed) /\ NothingHashedTwice
    /\ \A x \in hashed : KeepsApart(Alg, x.job.form) =>
          Ahead(nonce[x.extranonce2], x.nonce, Done(x.extranonce2))

\* A worker that hashes has a job it does not skip.
AbortInv ==
    /\ \A w \in Workers : at[w] = "hash" => ~Malformed(job[w].form)
    /\ AbortHasItsReason

IInv == /\ TypeOK /\ StaleInv /\ MissingDigestsAreLongBlobs
        /\ BatchInv /\ ApartInv /\ AbortInv
=============================================================================
