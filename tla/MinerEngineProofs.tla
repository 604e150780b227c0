-------------------------- MODULE MinerEngineProofs --------------------------
(***************************************************************************)
(* Typing of MinerEngine, the bound on stale work, and which inputs are    *)
(* hashed apart, for every number of workers, batch size and form of job;  *)
(* before that what holds of the inputs of the hash algorithms (WorkInput).*)
(***************************************************************************)
EXTENDS MinerEngine, FiniteSetTheorems, TLAPS

USE ThreadsAssumption, ByteAssumption, BatchAssumption, BoundsAssumption

-----------------------------------------------------------------------------
(* The inputs of the hash algorithms, for every form of job.                *)

LEMMA FormTypes ==
    \A f \in Forms : /\ f.blob \in Nat /\ f.before \in Nat /\ f.after \in Nat
                     /\ f.extranonce2Size \in Nat /\ f.marked \in BOOLEAN
BY DEF Forms

LEMMA BytesType == \A f \in Forms : Bytes(f) \in Nat /\ 2 * Bytes(f) \in {f.blob, f.blob - 1}
BY FormTypes DEF Bytes

\* The nonce is written inside of every blob of eight characters or more, and
\* inside of no shorter one (MinerEngine.cpp:151, 159-162, 211-214).
THEOREM NonceFits == \A f \in Forms : Overrun(f) <=> f.blob < 8
<1> SUFFICES ASSUME NEW f \in Forms PROVE Overrun(f) <=> f.blob < 8
  OBVIOUS
<1>1. CASE Bytes(f) < 8
  BY <1>1, FormTypes, BytesType DEF Overrun, NonceOffset, NonceSize
<1>2. CASE Bytes(f) >= 8
  BY <1>2, FormTypes, BytesType DEF Overrun, NonceOffset, NonceSize
<1>3. QED BY <1>1, <1>2, BytesType

\* The scan for a place that writing the test pattern would change ends one
\* byte before the last four, whatever else the blob contains: the branch for a
\* scan without success is never taken (MinerEngine.cpp:170-200).
THEOREM ScanStops ==
    ASSUME NEW n \in Nat, n >= 12,
           NEW bytes \in [0 .. n - 1 -> 0 .. 255], ~Changes(bytes, n - 4)
    PROVE  TheScan(bytes, n, n - 5)
<1>1. bytes[n - 4] = 1
  <2>1. bytes[(n - 4) + 0] = TestNonce[0 + 1]
    BY DEF Changes
  <2>2. QED BY <2>1 DEF TestNonce
<1>2. Changes(bytes, n - 5)
  <2>1. bytes[(n - 5) + 1] # TestNonce[1 + 1]
    BY <1>1 DEF TestNonce
  <2>2. QED BY <2>1 DEF Changes
<1>3. \A o \in (n - 5) + 1 .. n - 4 : o = n - 4
  OBVIOUS
<1>4. QED BY <1>2, <1>3 DEF TheScan

\* A header, cut to 200 characters, keeps the contract of the hash: no
\* algorithm returns without its digest (MinerEngine.cpp:241,
\* Sha256dAlgorithm.cpp:111-114).
THEOREM HeadersHaveDigests ==
    \A alg, f, w : HeaderSize(f, w) \in Int => Digests(alg, HeaderSize(f, w))
BY DEF Digests, HeaderSize, Smaller, HeaderLimit, NonceSize, BufferSize

LEMMA Product == \A a, b \in Nat \ {0} : a * b \in Nat \ {0}
OBVIOUS

LEMMA DivMod ==
    ASSUME NEW v \in Nat, NEW c \in Nat \ {0}
    PROVE  /\ v \div c \in Nat /\ v % c \in 0 .. c - 1
           /\ v = c * (v \div c) + (v % c)
<1>1. v \div c \in Int
  OBVIOUS
<1>2. v % c \in 0 .. c - 1
  OBVIOUS
<1>3. v = c * (v \div c) + (v % c)
  OBVIOUS
<1>4. \A k \in Int : k < 0 => c * k <= -c
  OBVIOUS
<1>5. QED BY <1>1, <1>2, <1>3, <1>4

LEMMA CutType ==
    ASSUME NEW v \in Nat, NEW b \in Nat \ {0}, NEW n \in Int
    PROVE  Cut(v, b, n) \in 0 .. v
<1>1. \A c \in Nat \ {0} : v \div c \in 0 .. v
  <2> SUFFICES ASSUME NEW c \in Nat \ {0} PROVE v \div c \in 0 .. v
    OBVIOUS
  <2>1. v \div c \in Nat /\ v = c * (v \div c) + (v % c) /\ v % c \in Nat
    BY DivMod
  <2>2. \A k \in Nat : c * k >= k /\ c * k \in Nat
    OBVIOUS
  <2>3. QED BY <2>1, <2>2
<1>2. b * b \in Nat \ {0}
  BY Product
<1>3. b * b * b \in Nat \ {0}
  BY <1>2, Product
<1>4. QED BY <1>1, <1>2, <1>3 DEF Cut

LEMMA CutNothing == \A v, b : \A n \in Int : n <= 0 => Cut(v, b, n) = v
BY DEF Cut

\* The nonce of a blob is hashed as a whole if the blob has eight characters or
\* more and the algorithm uses all of its bytes.
LEMMA NonceIsSeen ==
    ASSUME NEW alg, NEW f \in Forms, NEW v, NEW base,
           ~Overrun(f), alg = "cryptonight" => Bytes(f) <= CnInput
    PROVE  NonceSeen(alg, f, v, base) = v
<1>1. Used(alg, Bytes(f)) = Bytes(f)
  BY BytesType DEF Used, Smaller, CnInput
<1>2. f.blob >= 8
  BY NonceFits, FormTypes
<1>3. NonceOffset(f) \in Int /\ NonceOffset(f) + NonceSize <= Bytes(f)
  BY <1>2, BytesType, FormTypes DEF NonceOffset, NonceSize
<1>4. QED BY <1>1, <1>3, CutNothing, BytesType DEF NonceSeen, NonceSize

\* The padding of SHA-256: the blocks hold the input, the one-bit and the eight
\* bytes of the length and no block more, and the one-bit comes before the
\* length, within the 128 bytes of the tail (Sha256dAlgorithm.cpp:71-93).
THEOREM Padding ==
    \A len \in Nat :
       /\ 64 * (FullBlocks(len) + TailBlocks(len)) >= len + 9
       /\ 64 * (FullBlocks(len) + TailBlocks(len)) < len + 9 + 64
       /\ Remaining(len) \in 0 .. 63 /\ Remaining(len) < LenOffset(len)
       /\ LenOffset(len) + 8 <= 128
BY DEF FullBlocks, TailBlocks, Remaining, LenOffset

\* keccak1600() leaves six elements of its array b unwritten, which it reads
\* afterwards (CryptonightAlgorithm.cpp:46-58): its rotation of the lanes is not
\* a permutation.
THEOREM UnwrittenLanes ==
    \A x, y \in 0 .. 4 : Lane(x, y) \notin {2, 7, 13, 16, 18, 22}
<1>1. \A x \in 0 .. 4 : x = 0 \/ x = 1 \/ x = 2 \/ x = 3 \/ x = 4
  OBVIOUS
<1>2. QED BY <1>1 DEF Lane

-----------------------------------------------------------------------------
(* Nonces: arithmetic modulo NonceSpace.                                         *)

LEMMA RangeType == NonceSpace \in Nat \ {0} /\ Gap \in Nat
<1>1. Byte * Byte \in Nat \ {0}
  BY Product
<1>2. Byte * Byte * Byte \in Nat \ {0}
  BY <1>1, Product
<1>3. Byte * Byte * Byte * Byte \in Nat \ {0}
  BY <1>2, Product
<1>4. Gap \in Nat
  <2>1. Gap = Byte * Byte * Byte
    BY DEF Gap
  <2>2. QED BY <1>2, <2>1
<1>5. NonceSpace \in Nat \ {0}
  <2>1. NonceSpace = Byte * Byte * Byte * Byte
    BY DEF NonceSpace
  <2>2. QED BY <1>3, <2>1
<1>6. QED BY <1>4, <1>5

\* The quotient and the remainder of a nonce before it wraps.
LEMMA Division ==
    ASSUME NEW a \in Nat
    PROVE  \E q \in Nat : \E r \in Nonces : a = NonceSpace * q + r /\ a % NonceSpace = r
<1>1. a \div NonceSpace \in Nat /\ a % NonceSpace \in 0 .. NonceSpace - 1
  BY DivMod, RangeType
<1>2. a = NonceSpace * (a \div NonceSpace) + (a % NonceSpace)
  BY DivMod, RangeType
<1>3. QED BY <1>1, <1>2 DEF Nonces

\* Two numbers that differ by a multiple of NonceSpace and by less than it are equal.
LEMMA Multiple ==
    ASSUME NEW p \in Int, NEW d \in Int, d < NonceSpace, -d < NonceSpace, NonceSpace * p = d
    PROVE  d = 0
<1>1. CASE p = 0
  BY <1>1, RangeType
<1>2. CASE p >= 1
  <2>1. NonceSpace * p >= NonceSpace
    BY <1>2, RangeType
  <2>2. QED BY <2>1, RangeType
<1>3. CASE p <= -1
  <2>1. NonceSpace * p <= -NonceSpace
    BY <1>3, RangeType
  <2>2. QED BY <2>1, RangeType
<1>4. QED BY <1>1, <1>2, <1>3

LEMMA Apart ==
    ASSUME NEW a \in Nat, NEW d \in 1 .. NonceSpace - 1
    PROVE  (a + d) % NonceSpace # a % NonceSpace
<1>1. a + d \in Nat /\ d \in Nat
  BY RangeType
<1>2. PICK q \in Nat : \E r \in Nonces : a = NonceSpace * q + r /\ a % NonceSpace = r
  BY Division
<1>3. PICK r \in Nonces : a = NonceSpace * q + r /\ a % NonceSpace = r
  BY <1>2
<1>4. PICK p \in Nat : \E s \in Nonces : a + d = NonceSpace * p + s /\ (a + d) % NonceSpace = s
  BY <1>1, Division
<1>5. PICK s \in Nonces : a + d = NonceSpace * p + s /\ (a + d) % NonceSpace = s
  BY <1>4
<1> SUFFICES ASSUME r = s PROVE FALSE
  BY <1>3, <1>5
<1>6. NonceSpace * (p - q) = NonceSpace * p - NonceSpace * q /\ NonceSpace * p \in Nat /\ NonceSpace * q \in Nat
  BY RangeType
<1>7. r \in Nat
  BY RangeType DEF Nonces
<1>8. NonceSpace * (p - q) = d
  BY <1>1, <1>3, <1>5, <1>6, <1>7
<1>9. p - q \in Int /\ d \in Int /\ d < NonceSpace /\ -d < NonceSpace /\ d # 0
  BY <1>1, RangeType
<1>10. QED BY <1>8, <1>9, Multiple

LEMMA SumOfRemainder ==
    ASSUME NEW a \in Nat, NEW t \in Nat
    PROVE  ((a % NonceSpace) + t) % NonceSpace = (a + t) % NonceSpace
<1>1. PICK q \in Nat : \E r \in Nonces : a = NonceSpace * q + r /\ a % NonceSpace = r
  BY Division
<1>2. PICK r \in Nonces : a = NonceSpace * q + r /\ a % NonceSpace = r
  BY <1>1
<1>3. r \in Nat /\ r + t \in Nat /\ a + t \in Nat
  BY RangeType DEF Nonces
<1>4. PICK x \in Nat : \E u \in Nonces : r + t = NonceSpace * x + u /\ (r + t) % NonceSpace = u
  BY <1>3, Division
<1>5. PICK u \in Nonces : r + t = NonceSpace * x + u /\ (r + t) % NonceSpace = u
  BY <1>4
<1>6. PICK y \in Nat : \E v \in Nonces : a + t = NonceSpace * y + v /\ (a + t) % NonceSpace = v
  BY <1>3, Division
<1>7. PICK v \in Nonces : a + t = NonceSpace * y + v /\ (a + t) % NonceSpace = v
  BY <1>6
<1>8. /\ NonceSpace * (y - x - q) = NonceSpace * y - NonceSpace * x - NonceSpace * q
      /\ NonceSpace * x \in Nat /\ NonceSpace * y \in Nat /\ NonceSpace * q \in Nat
  BY RangeType
<1>9. u \in Nat /\ v \in Nat /\ u < NonceSpace /\ v < NonceSpace
  <2>1. u \in 0 .. NonceSpace - 1 /\ v \in 0 .. NonceSpace - 1
    BY DEF Nonces
  <2>2. QED BY <2>1, RangeType
<1>10. NonceSpace * (y - x - q) = u - v
  <2> DEFINE X == NonceSpace * x
             Y == NonceSpace * y
             Q == NonceSpace * q
             P == NonceSpace * (y - x - q)
  <2>1. /\ P = Y - X - Q /\ X \in Nat /\ Y \in Nat /\ Q \in Nat
        /\ a = Q + r /\ r + t = X + u /\ a + t = Y + v
    BY <1>2, <1>5, <1>7, <1>8
  <2> HIDE DEF X, Y, Q, P
  <2>2. P = u - v
    BY <2>1, <1>3, <1>9
  <2>3. QED BY <2>2 DEF P
<1>11. u - v \in Int /\ u - v < NonceSpace /\ -(u - v) < NonceSpace /\ y - x - q \in Int
  BY <1>9, RangeType
<1>12. u - v = 0
  BY <1>10, <1>11, Multiple
<1>13. u = v
  BY <1>9, <1>12
<1>14. QED BY <1>2, <1>5, <1>7, <1>13

\* Steps of a batch, and of all batches, are less than NonceSpace apart.
LEMMA StepType == \A k \in Nat : k * Threads \in Nat
OBVIOUS

LEMMA Steps ==
    ASSUME NEW n \in Nat, NEW m \in Nat, m * Threads <= NonceSpace, n < m
    PROVE  n * Threads < NonceSpace
<1>1. n * Threads + Threads <= m * Threads
  <2>1. (n + 1) * Threads <= m * Threads
    BY n + 1 <= m
  <2>2. QED BY <2>1
<1>2. QED BY <1>1, StepType, RangeType

LEMMA StepsApart ==
    ASSUME NEW a \in Nat, NEW k \in Nat, NEW l \in Nat, k < l, l * Threads < NonceSpace
    PROVE  (a + l * Threads) % NonceSpace # (a + k * Threads) % NonceSpace
<1>1. l * Threads = k * Threads + (l - k) * Threads /\ (l - k) * Threads >= l - k
  OBVIOUS
<1>2. (l - k) * Threads \in 1 .. NonceSpace - 1
  <2>1. k * Threads \in Nat /\ (l - k) * Threads \in Nat
    BY StepType
  <2>2. QED BY <1>1, <2>1, RangeType
<1>3. a + k * Threads \in Nat /\ a + l * Threads = (a + k * Threads) + (l - k) * Threads
  BY <1>1, StepType
<1>4. QED BY <1>2, <1>3, Apart

-----------------------------------------------------------------------------
(* How far a nonce is ahead.                                                *)

LEMMA AheadFirst ==
    ASSUME NEW now \in Nonces, NEW d \in Nat
    PROVE  Ahead((now + Threads) % NonceSpace, now, d + 1)
<1>1. 1 \in 1 .. d + 1 /\ 1 * Threads = Threads
  OBVIOUS
<1>2. QED BY <1>1 DEF Ahead

LEMMA AheadStep ==
    ASSUME NEW now, NEW n \in Nonces, NEW d \in Nat, Ahead(now, n, d)
    PROVE  Ahead((now + Threads) % NonceSpace, n, d + 1)
<1>1. PICK k \in 1 .. d : now = (n + k * Threads) % NonceSpace
  BY DEF Ahead
<1>2. n \in Nat /\ n + k * Threads \in Nat /\ k \in Nat
  BY StepType, RangeType DEF Nonces
<1>3. (now + Threads) % NonceSpace = ((n + k * Threads) + Threads) % NonceSpace
  BY <1>1, <1>2, SumOfRemainder
<1>4. (n + k * Threads) + Threads = n + (k + 1) * Threads
  BY <1>2
<1>5. k + 1 \in 1 .. d + 1
  OBVIOUS
<1>6. (now + Threads) % NonceSpace = (n + (k + 1) * Threads) % NonceSpace
  BY <1>3, <1>4
<1>7. QED BY <1>5, <1>6 DEF Ahead

LEMMA AheadMore ==
    ASSUME NEW now, NEW n, NEW d \in Nat, Ahead(now, n, d)
    PROVE  Ahead(now, n, d + 1)
BY DEF Ahead

\* A nonce is not ahead of itself by fewer steps than there are nonces.
LEMMA AheadNotOfItself ==
    ASSUME NEW n \in Nonces, NEW d \in Nat, NEW m \in Nat,
           d < m, m * Threads <= NonceSpace
    PROVE  ~Ahead(n, n, d)
<1> SUFFICES ASSUME NEW k \in 1 .. d, n = (n + k * Threads) % NonceSpace PROVE FALSE
  BY DEF Ahead
<1>1. k \in Nat /\ 0 < k /\ k < m /\ n \in Nat
  BY RangeType DEF Nonces
<1>2. k * Threads < NonceSpace
  BY <1>1, Steps
<1>3. (n + k * Threads) % NonceSpace # (n + 0 * Threads) % NonceSpace
  BY <1>1, <1>2, StepsApart
<1>4. n + 0 * Threads = n
  BY <1>1
<1>5. n % NonceSpace = n
  <2>1. n \in 0 .. NonceSpace - 1
    BY DEF Nonces
  <2>2. QED BY <2>1, RangeType
<1>6. QED BY <1>3, <1>4, <1>5

-----------------------------------------------------------------------------
(* What a worker hashes.                                                    *)

LEMMA JobForms ==
    ASSUME TypeOK, NEW w \in Workers
    PROVE  job[w] \in Jobs /\ job[w].form \in Forms
<1>1. NoForm \in Forms
  BY DEF NoForm, Forms
<1>2. QED BY <1>1, FormsAssumption DEF TypeOK, Jobs

LEMMA UsedType ==
    \A alg, f, w : f \in Forms /\ w \in Nat =>
       /\ Extranonce2End(f, w) \in Int /\ HeaderSize(f, w) \in Int
       /\ Used(alg, HeaderSize(f, w)) \in Int /\ Used(alg, Bytes(f)) \in Int
       /\ NonceOffset(f) \in Int
<1> SUFFICES ASSUME NEW alg, NEW f \in Forms, NEW w \in Nat
             PROVE  /\ Extranonce2End(f, w) \in Int /\ HeaderSize(f, w) \in Int
                    /\ Used(alg, HeaderSize(f, w)) \in Int
                    /\ Used(alg, Bytes(f)) \in Int /\ NonceOffset(f) \in Int
  OBVIOUS
<1>1. Extranonce2End(f, w) \in Int
  BY FormTypes DEF Extranonce2End, Larger, Digits
<1>2. HeaderSize(f, w) \in Int
  BY <1>1, FormTypes DEF HeaderSize, Smaller, HeaderLimit
<1>3. Used(alg, HeaderSize(f, w)) \in Int /\ Used(alg, Bytes(f)) \in Int
  BY <1>2, BytesType DEF Used, Smaller, CnInput
<1>4. NonceOffset(f) \in Int
  BY BytesType DEF NonceOffset
<1>5. QED BY <1>1, <1>2, <1>3, <1>4

LEMMA WorkerType == \A w \in Workers : w \in Nat /\ 0 .. w \subseteq Workers
BY DEF Workers

LEMMA HeaderInputType ==
    ASSUME TypeOK, NEW w \in Workers, NEW n \in Nonces
    PROVE  /\ HeaderInput(w, n) \in Inputs
           /\ HeaderInput(w, n).job = job[w]
           /\ HeaderInput(w, n).nonce = n
           /\ HeaderInput(w, n).digest
<1> DEFINE f == job[w].form
           e == Extranonce2Seen(Alg, f, w)
<1>1. HeaderSize(f, w) \in Int
  BY JobForms, WorkerType, UsedType
<1>2. Digests(Alg, HeaderSize(f, w)) = TRUE
  <2>1. Digests(Alg, HeaderSize(f, w))
    BY <1>1, HeadersHaveDigests
  <2>2. Digests(Alg, HeaderSize(f, w)) \in BOOLEAN
    BY DEF Digests
  <2>3. QED BY <2>1, <2>2
<1>3. e \in Workers
  <2>1. Extranonce2End(f, w) - Used(Alg, HeaderSize(f, w)) \in Int
    BY JobForms, WorkerType, UsedType
  <2>2. e \in 0 .. w
    BY <2>1, WorkerType, CutType DEF Extranonce2Seen
  <2>3. QED BY <2>2, WorkerType
<1>4. HeaderInput(w, n) = [job |-> job[w], digest |-> TRUE, extranonce2 |-> e, nonce |-> n]
  BY <1>2 DEF HeaderInput
<1>5. QED BY <1>3, <1>4, JobForms DEF Inputs

LEMMA BlobInputType ==
    ASSUME TypeOK, NEW w \in Workers, NEW n \in Nonces
    PROVE  /\ BlobInput(w, n) \in Inputs
           /\ BlobInput(w, n).job = job[w]
           /\ BlobInput(w, n).digest <=> Digests(Alg, Bytes(job[w].form))
<1> DEFINE f == job[w].form
           d == Digests(Alg, Bytes(f))
           s == NonceSeen(Alg, f, n, Byte)
<1>1. s \in Nonces
  <2>1. NonceOffset(f) + NonceSize - Used(Alg, Bytes(f)) \in Int
    <3>1. f \in Forms /\ w \in Nat
      BY JobForms, WorkerType
    <3>2. NonceOffset(f) \in Int /\ Used(Alg, Bytes(f)) \in Int
      BY <3>1, UsedType
    <3>3. QED BY <3>2 DEF NonceSize
  <2>2. n \in Nat /\ 0 .. n \subseteq Nonces
    BY RangeType DEF Nonces
  <2>3. s \in 0 .. n
    BY <2>1, <2>2, CutType DEF NonceSeen
  <2>4. QED BY <2>2, <2>3
<1>2. 0 \in Nonces /\ 0 \in Workers
  BY RangeType DEF Nonces, Workers
<1>3. d \in BOOLEAN
  BY DEF Digests
<1>4. BlobInput(w, n) = [job |-> job[w], digest |-> d, extranonce2 |-> 0,
                         nonce |-> IF d THEN s ELSE 0]
  BY DEF BlobInput
<1> HIDE DEF s, d
<1>5. QED BY <1>1, <1>2, <1>3, <1>4, JobForms DEF Inputs, d

\* A header that keeps the workers apart: the worker's number is hashed.
LEMMA NumberIsSeen ==
    ASSUME TypeOK, NEW w \in Workers, NEW n \in Nonces, KeepsApart(Alg, job[w].form)
    PROVE  HeaderInput(w, n).extranonce2 = w
<1> DEFINE f == job[w].form
<1>1. f \in Forms /\ w \in Nat /\ Extranonce2End(f, w) \in Int
  BY JobForms, WorkerType, UsedType
<1>2. Extranonce2End(f, w) <= Used(Alg, HeaderSize(f, w))
  BY <1>1, FormTypes DEF KeepsApart, Used, HeaderSize, Smaller, HeaderLimit, CnInput
<1>3. Extranonce2End(f, w) - Used(Alg, HeaderSize(f, w)) <= 0
  BY <1>1, <1>2, UsedType
<1>4. Extranonce2End(f, w) - Used(Alg, HeaderSize(f, w)) \in Int
  BY <1>1, UsedType
<1>5. Extranonce2Seen(Alg, f, w) = w
  BY <1>3, <1>4, CutNothing DEF Extranonce2Seen
<1>6. Digests(Alg, HeaderSize(f, w))
  BY <1>1, UsedType, HeadersHaveDigests
<1>7. QED BY <1>5, <1>6 DEF HeaderInput

\* A blob whose nonce is inside of it and is hashed.
LEMMA BlobNonceIsSeen ==
    ASSUME TypeOK, NEW w \in Workers, NEW n \in Nonces,
           HasBlob(job[w].form), HashesNonces(Alg, job[w].form)
    PROVE  BlobInput(w, n).nonce = n
<1> DEFINE f == job[w].form
<1>1. f \in Forms /\ f.blob >= 8 /\ f.blob \in Nat
  BY JobForms, FormTypes DEF HashesNonces
<1>2. ~Overrun(f)
  BY <1>1, NonceFits
<1>3. Alg = "cryptonight" => Bytes(f) <= CnInput
  BY DEF HashesNonces
<1>4. Digests(Alg, Bytes(f))
  BY <1>1, BytesType DEF HashesNonces, Digests, BufferSize, NonceSize
<1>5. NonceSeen(Alg, f, n, Byte) = n
  BY <1>1, <1>2, <1>3, NonceIsSeen
<1>6. QED BY <1>4, <1>5 DEF BlobInput

-----------------------------------------------------------------------------
(* The initial states.                                                      *)

LEMMA InitIInv == Init => IInv
<1> SUFFICES ASSUME Init PROVE IInv
  OBVIOUS
<1>1. TypeOK
  <2>1. \A w \in Workers : (w * Gap) % NonceSpace \in Nonces
    <3> SUFFICES ASSUME NEW w \in Workers PROVE (w * Gap) % NonceSpace \in Nonces
      OBVIOUS
    <3>1. w * Gap \in Nat
      BY RangeType, WorkerType
    <3>2. QED BY <3>1, Division
  <2>2. NoJob \in Jobs
    BY DEF NoJob, Jobs
  <2>3. nonce \in [Workers -> Nonces]
    BY <2>1 DEF Init
  <2>4. job \in [Workers -> Jobs] /\ slot \in Jobs
    BY <2>2 DEF Init
  <2>5. seen \in [Workers -> SUBSET Inputs] /\ hashed \subseteq Inputs
    BY DEF Init
  <2>6. i \in [Workers -> 0 .. BatchSize] /\ batches \in [Workers -> 0 .. MaxBatches]
    BY DEF Init
  <2>7. QED BY <2>3, <2>4, <2>5, <2>6 DEF Init, TypeOK
<1>2. StaleInv
  BY DEF Init, StaleInv
<1>3. MissingDigestsAreLongBlobs
  BY DEF Init, MissingDigestsAreLongBlobs
<1>4. BatchInv
  BY FS_EmptySet DEF Init, BatchInv
<1>5. ApartInv
  <2>1. {x \in hashed : KeepsApart(Alg, x.job.form)} = {}
    BY DEF Init
  <2>2. QED BY <2>1, FS_EmptySet DEF Init, ApartInv, NothingHashedTwice
<1>6. AbortInv
  BY DEF Init, AbortInv, AbortHasItsReason
<1>7. QED BY <1>1, <1>2, <1>3, <1>4, <1>5, <1>6 DEF IInv

-----------------------------------------------------------------------------
(* Types.                                                                   *)

LEMMA RecordType ==
    ASSUME TypeOK, NEW w \in Workers, NEW x \in Inputs, Record(w, x)
    PROVE  /\ hashed' \subseteq Inputs
           /\ total' \in Nat
           /\ stale' \in [Workers -> Nat]
           /\ seen' \in [Workers -> SUBSET Inputs]
BY DEF TypeOK, Record

LEMMA StepOfNonce == \A n \in Nonces : \A k \in Nat : (n + k * Threads) % NonceSpace \in Nonces
<1> SUFFICES ASSUME NEW n \in Nonces, NEW k \in Nat
             PROVE  (n + k * Threads) % NonceSpace \in Nonces
  OBVIOUS
<1>1. n \in Nat
  BY RangeType DEF Nonces
<1>2. n + k * Threads \in Nat
  BY <1>1, StepType
<1>3. QED BY <1>2, Division

LEMMA PublishedType == ASSUME TypeOK, NEW form \in PoolForms, Publish(form) PROVE TypeOK'
<1>1. slot' \in Jobs
  BY DEF TypeOK, Jobs, Publish
<1>2. QED BY <1>1 DEF TypeOK, Publish, history

LEMMA FetchedType == ASSUME TypeOK, NEW w \in Workers, FetchJob(w) PROVE TypeOK'
<1>1. at' \in [Workers -> {"start", "fetch", "hash"}] /\ batches' \in [Workers -> 0 .. MaxBatches]
  BY DEF TypeOK, FetchJob
<1>2. i' \in [Workers -> 0 .. BatchSize] /\ seen' \in [Workers -> SUBSET Inputs]
  BY DEF TypeOK, FetchJob
<1>3. QED BY <1>1, <1>2 DEF TypeOK, FetchJob

LEMMA HeaderType == ASSUME TypeOK, NEW w \in Workers, HashHeader(w) PROVE TypeOK'
<1>1. nonce[w] \in Nonces
  BY DEF TypeOK
<1>2. HeaderInput(w, nonce[w]) \in Inputs
  BY <1>1, HeaderInputType
<1>3. /\ hashed' \subseteq Inputs /\ total' \in Nat /\ stale' \in [Workers -> Nat]
      /\ seen' \in [Workers -> SUBSET Inputs]
  BY <1>2, RecordType DEF HashHeader
<1>4. (nonce[w] + Threads) % NonceSpace \in Nonces
  <2>1. nonce[w] + 1 * Threads = nonce[w] + Threads
    OBVIOUS
  <2>2. QED BY <1>1, <2>1, StepOfNonce
<1>5. nonce' \in [Workers -> Nonces] /\ i' \in [Workers -> 0 .. BatchSize]
  BY <1>4 DEF TypeOK, HashHeader
<1>6. QED BY <1>3, <1>5 DEF TypeOK, HashHeader

LEMMA BlobType == ASSUME TypeOK, NEW w \in Workers, HashBlob(w) PROVE TypeOK'
<1>1. nonce[w] \in Nonces /\ i[w] \in Nat
  BY DEF TypeOK
<1>2. BlobInput(w, (nonce[w] + i[w] * Threads) % NonceSpace) \in Inputs
  BY <1>1, StepOfNonce, BlobInputType
<1>3. /\ hashed' \subseteq Inputs /\ total' \in Nat /\ stale' \in [Workers -> Nat]
      /\ seen' \in [Workers -> SUBSET Inputs]
  BY <1>2, RecordType DEF HashBlob
<1>4. i' \in [Workers -> 0 .. BatchSize]
  BY DEF TypeOK, HashBlob
<1>5. QED BY <1>3, <1>4 DEF TypeOK, HashBlob

LEMMA OtherTypes ==
    ASSUME TypeOK, NEW w \in Workers, CreateAlgorithm(w) \/ BlobThrows(w) \/ EndBatch(w)
    PROVE  TypeOK'
<1>1. CASE CreateAlgorithm(w)
  BY <1>1 DEF TypeOK, CreateAlgorithm, history
<1>2. CASE BlobThrows(w)
  BY <1>2 DEF TypeOK, BlobThrows, history
<1>3. CASE EndBatch(w)
  BY <1>3 DEF TypeOK, EndBatch, history
<1>4. QED BY <1>1, <1>2, <1>3

LEMMA NextType == TypeOK /\ Next => TypeOK'
BY PublishedType, FetchedType, HeaderType, BlobType, OtherTypes DEF Next, WorkerSteps

-----------------------------------------------------------------------------
(* Stale work, missing digests and the end by an exception.                 *)

LEMMA NextStale == TypeOK /\ StaleInv /\ Next => StaleInv'
<1> SUFFICES ASSUME TypeOK, StaleInv, Next PROVE StaleInv'
  OBVIOUS
<1>1. ASSUME NEW form \in PoolForms, Publish(form) PROVE StaleInv'
  BY <1>1 DEF StaleInv, Publish, history
<1>2. ASSUME NEW w \in Workers, FetchJob(w) PROVE StaleInv'
  BY <1>2 DEF StaleInv, FetchJob, TypeOK
<1>3. ASSUME NEW w \in Workers, HashHeader(w) PROVE StaleInv'
  BY <1>3 DEF StaleInv, HashHeader, Record, TypeOK
<1>4. ASSUME NEW w \in Workers, HashBlob(w) PROVE StaleInv'
  BY <1>4 DEF StaleInv, HashBlob, Record, TypeOK
<1>5. ASSUME NEW w \in Workers, CreateAlgorithm(w) \/ BlobThrows(w) \/ EndBatch(w)
      PROVE  StaleInv'
  BY <1>5 DEF StaleInv, CreateAlgorithm, BlobThrows, EndBatch, history
<1>6. QED BY <1>1, <1>2, <1>3, <1>4, <1>5 DEF Next, WorkerSteps

LEMMA NextDigests ==
    TypeOK /\ MissingDigestsAreLongBlobs /\ Next => MissingDigestsAreLongBlobs'
<1> SUFFICES ASSUME TypeOK, MissingDigestsAreLongBlobs, Next,
                    NEW x \in hashed', ~x.digest
             PROVE  Bytes(x.job.form) > BufferSize - NonceSize
  BY DEF MissingDigestsAreLongBlobs
<1>1. CASE x \in hashed
  BY <1>1 DEF MissingDigestsAreLongBlobs
<1>2. ASSUME NEW w \in Workers, HashHeader(w), x \notin hashed PROVE FALSE
  <2>1. x = HeaderInput(w, nonce[w]) /\ nonce[w] \in Nonces
    BY <1>2 DEF HashHeader, Record, TypeOK
  <2>2. QED BY <2>1, HeaderInputType
<1>3. ASSUME NEW w \in Workers, HashBlob(w), x \notin hashed
      PROVE  Bytes(x.job.form) > BufferSize - NonceSize
  <2> DEFINE n == (nonce[w] + i[w] * Threads) % NonceSpace
  <2>1. n \in Nonces
    BY StepOfNonce DEF TypeOK
  <2>2. x = BlobInput(w, n)
    BY <1>3 DEF HashBlob, Record
  <2>3. x.job = job[w] /\ ~Digests(Alg, Bytes(x.job.form))
    BY <2>1, <2>2, BlobInputType
  <2>4. Bytes(x.job.form) \in Nat
    BY <2>3, JobForms, BytesType
  <2>5. QED BY <2>3, <2>4 DEF Digests, BufferSize, NonceSize
<1>4. QED BY <1>1, <1>2, <1>3
          DEF Next, WorkerSteps, Publish, CreateAlgorithm, FetchJob, BlobThrows, EndBatch, history

LEMMA NextAbort == TypeOK /\ AbortInv /\ Next => AbortInv'
<1> SUFFICES ASSUME TypeOK, AbortInv, Next PROVE AbortInv'
  OBVIOUS
<1>1. ~aborted
  BY DEF Next, WorkerSteps
<1>2. ASSUME NEW form \in PoolForms, Publish(form) PROVE AbortInv'
  BY <1>1, <1>2 DEF AbortInv, AbortHasItsReason, Publish
<1>3. ASSUME NEW w \in Workers, CreateAlgorithm(w) PROVE AbortInv'
  BY <1>3 DEF AbortInv, AbortHasItsReason, CreateAlgorithm, Alg, TypeOK
<1>4. ASSUME NEW w \in Workers, FetchJob(w) PROVE AbortInv'
  BY <1>1, <1>4 DEF AbortInv, AbortHasItsReason, FetchJob, TypeOK
<1>5. ASSUME NEW w \in Workers, HashHeader(w) \/ HashBlob(w) PROVE AbortInv'
  BY <1>1, <1>5 DEF AbortInv, AbortHasItsReason, HashHeader, HashBlob
<1>6. ASSUME NEW w \in Workers, BlobThrows(w) PROVE AbortInv'
  <2> DEFINE f == job[w].form
  <2>1. f \in Forms /\ f.blob \in Nat
    BY JobForms, FormTypes
  <2>2. f.blob >= 4
    BY <1>6, <2>1 DEF BlobThrows, AbortInv, Malformed, HasBlob
  <2>3. ~f.hex \/ f.blob < 8
    BY <1>6, <2>1, NonceFits DEF BlobThrows
  <2>4. job' = job /\ at' = at /\ aborted' /\ algorithm' = algorithm
    BY <1>6 DEF BlobThrows
  <2>5. AbortHasItsReason'
    BY <2>2, <2>3, <2>4 DEF AbortHasItsReason
  <2>6. QED BY <2>4, <2>5 DEF AbortInv
<1>7. ASSUME NEW w \in Workers, EndBatch(w) PROVE AbortInv'
  BY <1>1, <1>7 DEF AbortInv, AbortHasItsReason, EndBatch, TypeOK
<1>8. QED BY <1>2, <1>3, <1>4, <1>5, <1>6, <1>7 DEF Next, WorkerSteps

-----------------------------------------------------------------------------
(* The hashes of a batch.                                                   *)

LEMMA HeaderBatch ==
    ASSUME TypeOK, BatchInv, NEW w \in Workers, HashHeader(w)
    PROVE  BatchInv'
<1> DEFINE f == job[w].form
           x0 == HeaderInput(w, nonce[w])
<1>1. /\ nonce[w] \in Nonces /\ i[w] \in 0 .. BatchSize - 1 /\ ~HasBlob(f)
      /\ seen[w] \subseteq Inputs
  BY DEF TypeOK, HashHeader
<1>2. x0 \in Inputs /\ x0.nonce = nonce[w]
  BY <1>1, HeaderInputType
<1>3. /\ algorithm' = algorithm /\ job' = job
      /\ nonce'[w] = (nonce[w] + Threads) % NonceSpace
      /\ i'[w] = i[w] + 1 /\ seen'[w] = seen[w] \cup {x0}
      /\ \A v \in Workers \ {w} : nonce'[v] = nonce[v] /\ i'[v] = i[v] /\ seen'[v] = seen[v]
  BY DEF TypeOK, HashHeader, Record
<1>4. /\ IsFiniteSet(seen[w]) /\ Cardinality(seen[w]) = i[w]
      /\ \A x \in seen[w] : Ahead(nonce[w], x.nonce, i[w])
  BY <1>1 DEF BatchInv, HashesNonces
<1>5. x0 \notin seen[w]
  <2>1. ~Ahead(nonce[w], nonce[w], i[w])
    <3>1. i[w] \in Nat /\ i[w] < BatchSize /\ BatchSize * Threads <= NonceSpace
      BY <1>1, RangeAssumption
    <3>2. QED BY <1>1, <3>1, AheadNotOfItself
  <2>2. QED BY <1>2, <1>4, <2>1
<1>6. IsFiniteSet(seen'[w]) /\ Cardinality(seen'[w]) = i'[w]
  <2> HIDE DEF x0
  <2>1. IsFiniteSet(seen[w] \cup {x0}) /\ Cardinality(seen[w] \cup {x0}) = Cardinality(seen[w]) + 1
    BY <1>4, <1>5, FS_AddElement
  <2>2. QED BY <1>3, <1>4, <2>1
<1>7. \A x \in seen'[w] : Ahead(nonce'[w], x.nonce, i'[w])
  <2>1. ASSUME NEW x \in seen[w] PROVE Ahead(nonce'[w], x.nonce, i'[w])
    <3>1. x.nonce \in Nonces
      BY <1>1 DEF Inputs
    <3>2. i[w] \in Nat
      BY <1>1
    <3>3. Ahead((nonce[w] + Threads) % NonceSpace, x.nonce, i[w] + 1)
      BY <1>4, <3>1, <3>2, AheadStep
    <3>4. QED BY <1>3, <3>3
  <2>2. Ahead(nonce'[w], x0.nonce, i'[w])
    <3>1. Ahead((nonce[w] + Threads) % NonceSpace, nonce[w], i[w] + 1)
      BY <1>1, AheadFirst
    <3>2. QED BY <1>2, <1>3, <3>1
  <2>3. QED BY <1>3, <2>1, <2>2
<1> HIDE DEF x0
<1>8. QED BY <1>1, <1>3, <1>6, <1>7 DEF BatchInv, Alg

LEMMA BlobBatch ==
    ASSUME TypeOK, BatchInv, NEW w \in Workers, HashBlob(w)
    PROVE  BatchInv'
<1> DEFINE f == job[w].form
           N(k) == (nonce[w] + k * Threads) % NonceSpace
           x0 == BlobInput(w, N(i[w]))
<1>1. nonce[w] \in Nonces /\ nonce[w] \in Nat /\ i[w] \in 0 .. BatchSize - 1 /\ HasBlob(f)
  <2>1. nonce[w] \in Nonces /\ i[w] \in 0 .. BatchSize - 1 /\ HasBlob(f)
    BY DEF TypeOK, HashBlob
  <2>2. QED BY <2>1, RangeType DEF Nonces
<1>2. /\ algorithm' = algorithm /\ job' = job /\ nonce' = nonce
      /\ i'[w] = i[w] + 1 /\ seen'[w] = seen[w] \cup {x0}
      /\ \A v \in Workers \ {w} : i'[v] = i[v] /\ seen'[v] = seen[v]
  BY DEF TypeOK, HashBlob, Record
<1>3. ASSUME HashesNonces(Alg, f)
      PROVE  /\ IsFiniteSet(seen'[w]) /\ Cardinality(seen'[w]) = i'[w]
             /\ \A x \in seen'[w] : \E k \in 0 .. i'[w] - 1 : x.nonce = N(k)
  <2>1. /\ IsFiniteSet(seen[w]) /\ Cardinality(seen[w]) = i[w]
        /\ \A x \in seen[w] : \E k \in 0 .. i[w] - 1 : x.nonce = N(k)
    BY <1>1, <1>3 DEF BatchInv
  <2>2. x0.nonce = N(i[w])
    <3>1. N(i[w]) \in Nonces
      BY <1>1, StepOfNonce
    <3>2. QED BY <1>1, <1>3, <3>1, BlobNonceIsSeen
  <2>3. x0 \notin seen[w]
    <3> SUFFICES ASSUME NEW k \in 0 .. i[w] - 1, x0.nonce = N(k) PROVE FALSE
      BY <2>1
    <3>1. i[w] * Threads < NonceSpace
      BY <1>1, Steps, RangeAssumption
    <3>2. k \in Nat /\ i[w] \in Nat /\ k < i[w]
      BY <1>1
    <3>3. N(i[w]) # N(k)
      BY <1>1, <3>1, <3>2, StepsApart
    <3>4. QED BY <2>2, <3>3
  <2> HIDE DEF x0, N
  <2>4. IsFiniteSet(seen'[w]) /\ Cardinality(seen'[w]) = i'[w]
    <3>1. IsFiniteSet(seen[w] \cup {x0})
          /\ Cardinality(seen[w] \cup {x0}) = Cardinality(seen[w]) + 1
      BY <2>1, <2>3, FS_AddElement
    <3>2. QED BY <1>2, <2>1, <3>1
  <2>5. \A x \in seen'[w] : \E k \in 0 .. i'[w] - 1 : x.nonce = N(k)
    <3>1. i'[w] - 1 = i[w] /\ i[w] \in Nat
      BY <1>1, <1>2
    <3>2. \A k : k \in 0 .. i[w] - 1 => k \in 0 .. i[w]
      BY <3>1
    <3>3. i[w] \in 0 .. i[w]
      BY <3>1
    <3>4. QED BY <1>2, <2>1, <2>2, <3>1, <3>2, <3>3
  <2>6. QED BY <2>4, <2>5
<1> HIDE DEF x0
<1>4. ASSUME NEW v \in Workers, HashesNonces(Alg, job[v].form)
      PROVE  /\ IsFiniteSet(seen'[v]) /\ Cardinality(seen'[v]) = i'[v]
             /\ \A x \in seen'[v] :
                   \/ /\ HasBlob(job[v].form)
                      /\ \E k \in 0 .. i'[v] - 1 : x.nonce = (nonce[v] + k * Threads) % NonceSpace
                   \/ ~HasBlob(job[v].form) /\ Ahead(nonce[v], x.nonce, i'[v])
  <2>1. CASE v = w
    BY <1>1, <1>3, <1>4, <2>1
  <2>2. CASE v # w
    BY <1>2, <1>4, <2>2 DEF BatchInv
  <2>3. QED BY <2>1, <2>2
<1>5. QED BY <1>2, <1>4 DEF BatchInv, Alg

LEMMA NextBatch == TypeOK /\ BatchInv /\ Next => BatchInv'
<1> SUFFICES ASSUME TypeOK, BatchInv, Next PROVE BatchInv'
  OBVIOUS
<1>1. ASSUME NEW form \in PoolForms, Publish(form) PROVE BatchInv'
  BY <1>1 DEF BatchInv, Publish, history, Alg
<1>2. ASSUME NEW w \in Workers, FetchJob(w) PROVE BatchInv'
  <2>1. /\ algorithm' = algorithm /\ nonce' = nonce
        /\ i'[w] = 0 /\ seen'[w] = {}
        /\ \A v \in Workers \ {w} : i'[v] = i[v] /\ seen'[v] = seen[v] /\ job'[v] = job[v]
    BY <1>2 DEF TypeOK, FetchJob
  <2>2. QED BY <2>1, FS_EmptySet DEF BatchInv, Alg
<1>3. ASSUME NEW w \in Workers, CreateAlgorithm(w) \/ BlobThrows(w) \/ EndBatch(w)
      PROVE  BatchInv'
  <2>1. UNCHANGED <<algorithm, job, nonce, i, seen>>
    BY <1>3 DEF CreateAlgorithm, BlobThrows, EndBatch, history
  <2>2. QED BY <2>1 DEF BatchInv, Alg
<1>4. QED BY <1>1, <1>2, <1>3, HeaderBatch, BlobBatch DEF Next, WorkerSteps

-----------------------------------------------------------------------------
(* The hashes of headers in all batches.                                    *)

\* The hashes a worker has made are fewer than the bound while it has a batch
\* to finish.
LEMMA DoneInBatch ==
    ASSUME TypeOK, ApartInv, NEW w \in Workers, at[w] = "hash", i[w] < BatchSize
    PROVE  Done(w) \in Nat /\ Done(w) < MaxBatches * BatchSize
<1>1. /\ batches[w] \in Nat /\ 1 <= batches[w] /\ batches[w] <= MaxBatches
      /\ i[w] \in Nat
  BY DEF TypeOK, ApartInv
<1>2. /\ batches[w] * BatchSize \in Nat /\ MaxBatches * BatchSize \in Nat
      /\ batches[w] * BatchSize >= BatchSize
      /\ batches[w] * BatchSize <= MaxBatches * BatchSize
  <2>1. \A a \in Nat : a * BatchSize \in Nat
    OBVIOUS
  <2>2. \A a, b \in Nat : a <= b => a * BatchSize <= b * BatchSize
    <3> SUFFICES ASSUME NEW a \in Nat, NEW b \in Nat, a <= b
                 PROVE  a * BatchSize <= b * BatchSize
      OBVIOUS
    <3>1. b * BatchSize = a * BatchSize + (b - a) * BatchSize /\ b - a \in Nat
      OBVIOUS
    <3>2. QED BY <2>1, <3>1
  <2>3. 1 * BatchSize = BatchSize
    OBVIOUS
  <2>4. QED BY <1>1, <2>1, <2>2, <2>3
<1>3. QED BY <1>1, <1>2 DEF Done

LEMMA DoneType ==
    ASSUME TypeOK, ApartInv, NEW w \in Workers
    PROVE  Done(w) \in Nat
<1>1. /\ batches[w] \in Nat /\ i[w] \in 0 .. BatchSize
      /\ at[w] = "hash" => 1 <= batches[w]
  BY DEF TypeOK, ApartInv
<1>2. batches[w] * BatchSize \in Nat
  BY <1>1
<1>3. 1 <= batches[w] => batches[w] * BatchSize >= BatchSize
  <2> SUFFICES ASSUME 1 <= batches[w] PROVE batches[w] * BatchSize >= BatchSize
    OBVIOUS
  <2>1. batches[w] * BatchSize = BatchSize + (batches[w] - 1) * BatchSize
    BY <1>1
  <2>2. (batches[w] - 1) * BatchSize \in Nat
    BY <1>1
  <2>3. QED BY <2>1, <2>2
<1>4. QED BY <1>1, <1>2, <1>3 DEF Done

\* A step that hashes nothing new, with the nonces and the number of hashes as
\* they were.
LEMMA ApartSame ==
    ASSUME TypeOK, ApartInv, UNCHANGED <<algorithm, nonce, hashed, total>>,
           \A w \in Workers : Done(w)' = Done(w) /\ (at'[w] = "hash" => batches'[w] >= 1)
    PROVE  ApartInv'
<1>1. \A x \in hashed : x.extranonce2 \in Workers
  BY DEF TypeOK, Inputs
<1>2. NothingHashedTwice'
  BY DEF ApartInv, NothingHashedTwice, Alg
<1>3. ASSUME NEW x \in hashed', KeepsApart(Alg, x.job.form)
      PROVE  Ahead(nonce'[x.extranonce2], x.nonce, Done(x.extranonce2)')
  <2>1. Done(x.extranonce2)' = Done(x.extranonce2)
    BY <1>1
  <2>2. QED BY <1>3, <2>1 DEF ApartInv
<1>4. QED BY <1>2, <1>3 DEF ApartInv, Alg

LEMMA HeaderApart ==
    ASSUME TypeOK, ApartInv, NEW w \in Workers, HashHeader(w)
    PROVE  ApartInv'
<1> DEFINE x0 == HeaderInput(w, nonce[w])
           A == {x \in hashed : KeepsApart(Alg, x.job.form)}
<1>1. /\ nonce[w] \in Nonces /\ at[w] = "hash" /\ i[w] < BatchSize
      /\ i[w] \in Nat /\ total \in Nat /\ hashed \subseteq Inputs
  BY DEF TypeOK, HashHeader
<1>2. x0 \in Inputs /\ x0.nonce = nonce[w] /\ x0.job = job[w]
  BY <1>1, HeaderInputType
<1>3. /\ algorithm' = algorithm /\ at' = at /\ batches' = batches
      /\ nonce'[w] = (nonce[w] + Threads) % NonceSpace /\ i'[w] = i[w] + 1
      /\ \A v \in Workers \ {w} : nonce'[v] = nonce[v] /\ i'[v] = i[v]
      /\ hashed' = hashed \cup {x0}
      /\ total' = IF KeepsApart(Alg, job[w].form) THEN total + 1 ELSE total
  BY DEF TypeOK, HashHeader, Record
<1>4. /\ Done(w) \in Nat /\ Done(w)' = Done(w) + 1
      /\ \A v \in Workers \ {w} : Done(v)' = Done(v)
  <2>1. Done(w) \in Nat
    BY DoneType
  <2>2. batches[w] * BatchSize \in Nat
    BY DEF TypeOK
  <2>3. Done(w) = batches[w] * BatchSize - (BatchSize - i[w])
    BY <1>1 DEF Done
  <2>4. Done(w)' = batches[w] * BatchSize - (BatchSize - (i[w] + 1))
    BY <1>1, <1>3 DEF Done
  <2>5. \A v \in Workers \ {w} : Done(v)' = Done(v)
    BY <1>3 DEF Done
  <2>6. QED BY <1>1, <2>1, <2>2, <2>3, <2>4, <2>5
<1>5. KeepsApart(Alg, job[w].form) => x0.extranonce2 = w
  BY <1>1, NumberIsSeen
<1> HIDE DEF x0
<1>6. KeepsApart(Alg, job[w].form) => x0 \notin hashed
  <2> SUFFICES ASSUME KeepsApart(Alg, job[w].form), x0 \in hashed PROVE FALSE
    OBVIOUS
  <2>1. Ahead(nonce[w], nonce[w], Done(w))
    BY <1>2, <1>5 DEF ApartInv
  <2>2. Done(w) < MaxBatches * BatchSize
    BY <1>1, DoneInBatch
  <2>3. MaxBatches * BatchSize \in Nat /\ (MaxBatches * BatchSize) * Threads <= NonceSpace
    BY RangeAssumption
  <2>4. QED BY <1>1, <1>4, <2>1, <2>2, <2>3, AheadNotOfItself
<1>7. IsFiniteSet(hashed) /\ IsFiniteSet(A) /\ total = Cardinality(A)
  <2>1. IsFiniteSet(hashed) /\ A \in SUBSET hashed
    BY DEF ApartInv
  <2>2. QED BY <2>1, FS_Subset DEF ApartInv, NothingHashedTwice
<1>8. IsFiniteSet(hashed') /\ NothingHashedTwice'
  <2>1. IsFiniteSet(hashed')
    BY <1>3, <1>7, FS_AddElement
  <2>2. CASE KeepsApart(Alg, job[w].form)
    <3>1. {x \in hashed' : KeepsApart(Alg, x.job.form)} = A \cup {x0}
      BY <1>2, <1>3, <2>2
    <3>2. x0 \notin A
      BY <1>6, <2>2
    <3> HIDE DEF A
    <3>3. Cardinality(A \cup {x0}) = Cardinality(A) + 1
      BY <1>7, <3>2, FS_AddElement
    <3>4. total' = Cardinality({x \in hashed' : KeepsApart(Alg, x.job.form)})
      BY <1>3, <1>7, <2>2, <3>1, <3>3
    <3>5. QED BY <1>3, <2>1, <3>4 DEF NothingHashedTwice, Alg
  <2>3. CASE ~KeepsApart(Alg, job[w].form)
    <3>1. {x \in hashed' : KeepsApart(Alg, x.job.form)} = A
      BY <1>2, <1>3, <2>3
    <3>2. total' = Cardinality({x \in hashed' : KeepsApart(Alg, x.job.form)})
      BY <1>3, <1>7, <2>3, <3>1
    <3>3. QED BY <1>3, <2>1, <3>2 DEF NothingHashedTwice, Alg
  <2>4. QED BY <2>2, <2>3
<1>9. ASSUME NEW x \in hashed', KeepsApart(Alg, x.job.form)
      PROVE  Ahead(nonce'[x.extranonce2], x.nonce, Done(x.extranonce2)')
  <2>1. CASE x \in hashed
    <3> DEFINE v == x.extranonce2
    <3>1. v \in Workers /\ x.nonce \in Nonces /\ Ahead(nonce[v], x.nonce, Done(v))
      BY <1>1, <1>9, <2>1 DEF Inputs, ApartInv
    <3>2. CASE v = w
      <4>1. Ahead((nonce[w] + Threads) % NonceSpace, x.nonce, Done(w) + 1)
        BY <1>4, <3>1, <3>2, AheadStep
      <4>2. QED BY <1>3, <1>4, <3>2, <4>1
    <3>3. CASE v # w
      <4>1. nonce'[v] = nonce[v]
        BY <1>3, <3>1, <3>3
      <4>2. Done(v)' = Done(v)
        BY <1>4, <3>1, <3>3
      <4>3. QED BY <3>1, <4>1, <4>2
    <3>4. QED BY <3>2, <3>3
  <2>2. CASE x \notin hashed
    <3>1. x = x0 /\ x.extranonce2 = w /\ x.nonce = nonce[w]
      BY <1>2, <1>3, <1>5, <1>9, <2>2
    <3>2. Ahead((nonce[w] + Threads) % NonceSpace, nonce[w], Done(w) + 1)
      BY <1>1, <1>4, AheadFirst
    <3>3. QED BY <1>3, <1>4, <3>1, <3>2
  <2>3. QED BY <2>1, <2>2
<1>10. \A v \in Workers : at'[v] = "hash" => batches'[v] >= 1
  BY <1>3 DEF ApartInv
<1>11. QED BY <1>3, <1>8, <1>9, <1>10 DEF ApartInv, Alg

LEMMA BlobApart ==
    ASSUME TypeOK, ApartInv, NEW w \in Workers, HashBlob(w)
    PROVE  ApartInv'
<1> DEFINE x0 == BlobInput(w, (nonce[w] + i[w] * Threads) % NonceSpace)
<1>1. /\ at[w] = "hash" /\ HasBlob(job[w].form) /\ nonce[w] \in Nonces /\ i[w] \in Nat
      /\ hashed \subseteq Inputs
  BY DEF TypeOK, HashBlob
<1>2. x0.job = job[w]
  BY <1>1, StepOfNonce, BlobInputType
<1>3. ~KeepsApart(Alg, x0.job.form)
  BY <1>1, <1>2 DEF KeepsApart
<1>4. /\ algorithm' = algorithm /\ at' = at /\ batches' = batches /\ nonce' = nonce
      /\ i'[w] = i[w] + 1 /\ \A v \in Workers \ {w} : i'[v] = i[v]
      /\ hashed' = hashed \cup {x0}
      /\ total' = total
  BY <1>1, <1>2, <1>3 DEF TypeOK, HashBlob, Record
<1> HIDE DEF x0
<1>5. {x \in hashed' : KeepsApart(Alg, x.job.form)} = {x \in hashed : KeepsApart(Alg, x.job.form)}
  BY <1>3, <1>4
<1>6. IsFiniteSet(hashed') /\ NothingHashedTwice'
  <2>1. IsFiniteSet(hashed')
    BY <1>4, FS_AddElement DEF ApartInv
  <2>2. QED BY <1>4, <1>5, <2>1 DEF ApartInv, NothingHashedTwice, Alg
<1>7. ASSUME NEW v \in Workers
      PROVE  Done(v) \in Nat /\ Done(v)' \in {Done(v), Done(v) + 1}
  <2>1. Done(v) \in Nat /\ batches[v] * BatchSize \in Nat /\ i[v] \in Nat
    BY DoneType DEF TypeOK
  <2>2. QED BY <1>4, <2>1 DEF Done
<1>8. ASSUME NEW x \in hashed', KeepsApart(Alg, x.job.form)
      PROVE  Ahead(nonce'[x.extranonce2], x.nonce, Done(x.extranonce2)')
  <2> DEFINE v == x.extranonce2
  <2>1. x \in hashed /\ v \in Workers
    BY <1>1, <1>3, <1>4, <1>8 DEF Inputs
  <2>2. Ahead(nonce[v], x.nonce, Done(v))
    BY <1>8, <2>1 DEF ApartInv
  <2>3. Ahead(nonce[v], x.nonce, Done(v) + 1)
    BY <1>7, <2>1, <2>2, AheadMore
  <2>4. QED BY <1>4, <1>7, <2>1, <2>2, <2>3
<1>9. \A v \in Workers : at'[v] = "hash" => batches'[v] >= 1
  BY <1>4 DEF ApartInv
<1>10. QED BY <1>4, <1>6, <1>8, <1>9 DEF ApartInv, Alg

LEMMA NextApart == TypeOK /\ ApartInv /\ Next => ApartInv'
<1> SUFFICES ASSUME TypeOK, ApartInv, Next PROVE ApartInv'
  OBVIOUS
<1>1. ASSUME NEW form \in PoolForms, Publish(form) PROVE ApartInv'
  <2>1. UNCHANGED <<algorithm, nonce, hashed, total, at, batches, i>>
    BY <1>1 DEF Publish, history
  <2>2. QED BY <2>1, ApartSame DEF Done, ApartInv
<1>2. ASSUME NEW w \in Workers, CreateAlgorithm(w) PROVE ApartInv'
  <2>1. /\ UNCHANGED <<algorithm, nonce, hashed, total, batches, i>>
        /\ at[w] = "start" /\ at'[w] = "fetch"
        /\ \A v \in Workers \ {w} : at'[v] = at[v]
    BY <1>2 DEF CreateAlgorithm, history, TypeOK
  <2>2. \A v \in Workers : Done(v)' = Done(v) /\ (at'[v] = "hash" => batches'[v] >= 1)
    BY <2>1 DEF Done, ApartInv
  <2>3. QED BY <2>1, <2>2, ApartSame
<1>3. ASSUME NEW w \in Workers, FetchJob(w) PROVE ApartInv'
  <2>1. /\ UNCHANGED <<algorithm, nonce, hashed, total>>
        /\ at[w] = "fetch" /\ i'[w] = 0
        /\ \A v \in Workers \ {w} : at'[v] = at[v] /\ i'[v] = i[v] /\ batches'[v] = batches[v]
        /\ \/ at'[w] = at[w] /\ batches'[w] = batches[w]
           \/ at'[w] = "hash" /\ batches'[w] = batches[w] + 1
    BY <1>3 DEF FetchJob, TypeOK
  <2>2. Done(w)' = Done(w)
    <3>1. batches[w] \in Nat /\ batches[w] * BatchSize \in Nat
      BY DEF TypeOK
    <3>2. (batches[w] + 1) * BatchSize = batches[w] * BatchSize + BatchSize
      BY <3>1
    <3>3. QED BY <2>1, <3>1, <3>2 DEF Done
  <2>3. \A v \in Workers : Done(v)' = Done(v)
    BY <2>1, <2>2 DEF Done
  <2>4. \A v \in Workers : at'[v] = "hash" => batches'[v] >= 1
    BY <2>1 DEF ApartInv, TypeOK
  <2>5. QED BY <2>1, <2>3, <2>4, ApartSame
<1>4. ASSUME NEW w \in Workers, BlobThrows(w) PROVE ApartInv'
  <2>1. UNCHANGED <<algorithm, nonce, hashed, total, at, batches, i>>
    BY <1>4 DEF BlobThrows, history
  <2>2. QED BY <2>1, ApartSame DEF Done, ApartInv
<1>5. ASSUME NEW w \in Workers, EndBatch(w) PROVE ApartInv'
  <2>1. /\ UNCHANGED <<algorithm, nonce, hashed, total, batches, i>>
        /\ at[w] = "hash" /\ at'[w] = "fetch" /\ i[w] = BatchSize
        /\ \A v \in Workers \ {w} : at'[v] = at[v]
    BY <1>5 DEF EndBatch, history, TypeOK
  <2>2. \A v \in Workers : Done(v)' = Done(v) /\ (at'[v] = "hash" => batches'[v] >= 1)
    BY <2>1 DEF Done, ApartInv
  <2>3. QED BY <2>1, <2>2, ApartSame
<1>6. QED BY <1>1, <1>2, <1>3, <1>4, <1>5, HeaderApart, BlobApart DEF Next, WorkerSteps

-----------------------------------------------------------------------------
(* The theorems.                                                            *)

LEMMA NextIInv == IInv /\ [Next]_vars => IInv'
<1> SUFFICES ASSUME IInv, [Next]_vars PROVE IInv'
  OBVIOUS
<1>1. CASE Next
  BY <1>1, NextType, NextStale, NextDigests, NextBatch, NextApart, NextAbort DEF IInv
<1>2. CASE UNCHANGED vars
  <2>1. TypeOK' /\ StaleInv' /\ MissingDigestsAreLongBlobs'
    BY <1>2 DEF vars, history, IInv, TypeOK, StaleInv, MissingDigestsAreLongBlobs
  <2>2. BatchInv'
    BY <1>2 DEF vars, history, IInv, BatchInv, Alg
  <2>3. ApartInv'
    BY <1>2 DEF vars, history, IInv, ApartInv, NothingHashedTwice, Done, Alg
  <2>4. AbortInv'
    BY <1>2 DEF vars, history, IInv, AbortInv, AbortHasItsReason, Alg
  <2>5. QED BY <2>1, <2>2, <2>3, <2>4 DEF IInv
<1>3. QED BY <1>1, <1>2

LEMMA Invariance == Spec => []IInv
BY InitIInv, NextIInv, PTL DEF Spec

\* The variables keep their types: every recorded input has a nonce of four
\* bytes and a worker's number as its extranonce2, also where a text is cut
\* within them.
THEOREM TypeCorrect == Spec => []TypeOK
<1>1. IInv => TypeOK
  BY DEF IInv
<1>2. QED BY Invariance, <1>1, PTL

\* Each worker finishes with an outdated job within one batch
\* (MinerEngine.cpp:126, 243-257).
THEOREM StaleWorkBounded == Spec => []StaleWorkIsBounded
<1>1. IInv => StaleWorkIsBounded
  BY DEF IInv, TypeOK, StaleInv, StaleWorkIsBounded
<1>2. QED BY Invariance, <1>1, PTL

\* Only blobs of more than 252 bytes go without a digest
\* (Sha256dAlgorithm.cpp:111-114).
THEOREM MissingDigests == Spec => []MissingDigestsAreLongBlobs
<1>1. IInv => MissingDigestsAreLongBlobs
  BY DEF IInv
<1>2. QED BY Invariance, <1>1, PTL

\* Every nonce of a batch is a hash of its own, wherever the algorithm sees the
\* nonce (MinerEngine.cpp:151-214, 256).
THEOREM BatchFresh == Spec => []BatchIsFresh
<1>1. IInv => BatchIsFresh
  BY DEF IInv, BatchInv, BatchIsFresh
<1>2. QED BY Invariance, <1>1, PTL

\* Where extranonce2 is hashed as a whole no two hashes of a header are the
\* same, whoever makes them, until the nonces of a worker are used up
\* (MinerEngine.cpp:122-123, 134, 239-241, 256).
THEOREM NothingTwice == Spec => []NothingHashedTwice
<1>1. IInv => NothingHashedTwice
  BY DEF IInv, ApartInv
<1>2. QED BY Invariance, <1>1, PTL

\* The process ends by an exception only for an unknown algorithm or for a blob
\* that is too short or has a pair that is no number (MinerEngine.cpp:118, 160, 219).
THEOREM AbortReason == Spec => []AbortHasItsReason
<1>1. IInv => AbortHasItsReason
  BY DEF IInv, AbortInv
<1>2. QED BY Invariance, <1>1, PTL
=============================================================================
