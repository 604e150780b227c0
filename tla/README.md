# cpp-miner in TLA+

Specifications of cpp-miner, a multi-threaded Stratum mining client in C++20:
TLA+ modules of its concurrent core, TLC configurations that check them on
small instances, and proofs for every size of the constants, checked by TLAPS.
Paths below are relative to the repository.

## 1. Inventory of the system

| Component | Source | State | Operations | Module |
|---|---|---|---|---|
| `JobQueue` | `include/threading/JobQueue.hpp` | `current_`, `version_`, `mutex_` (shared) | `publish`, `current`, `version` | `JobQueue`, `LatestJob` |
| `ThreadPool` | `include/threading/ThreadPool.hpp`, `src/threading/ThreadPool.cpp` | `tasks_`, `mutex_`, `condition_`, `stopping_` | `submit`, worker loop, destructor | `ThreadPool`, `TaskQueue` |
| `StratumClient`: connection | `src/network/StratumClient.cpp` | `socketFd_`, `running_`, `authorized_`, `interruptFds_`, `writeMutex_`, the thread | `start`, `stop`, `disconnect`, `connectOnce`, `sendLine`, `runLoop` | `StratumClient` |
| `StratumClient`: protocol | the same | `nextRequestId_`, `extranonce1_`, `authorized_`, the `lineBuffer` of `runLoop` | `submitShare`, `submitBlobShare`, `handleResponse`, `handleNotify`, `handleSetDifficulty`, `handleLine` | `StratumDialogue`, `ShareLedger`, `LineReader` |
| `MinerEngine` | `src/miner/MinerEngine.cpp` | `running_`, `workers_`, `difficulty_`, `counters_`, job queue; per worker job, nonce, threshold | `start`, `stop`, `updateJob`, `updateDifficulty`, `workerLoop`, hashrate, benchmark | `MinerEngine`, `StratumDialogue`, `CppMiner` |
| `main` | `src/main.cpp` | `g_shutdownRequested`, `hasRealJob`, `poolConnected` | wiring, statistics loop, shutdown | `CppMiner`, `StratumDialogue` |
| `MiningJob`, counters | `include/miner/MiningJob.hpp`, `include/utils/Types.hpp` | records | copied | in the above |
| `ConfigManager`, command line | `src/config/ConfigManager.cpp`, `parseConfig()` of `src/main.cpp` | the arguments, the files, the `MinerConfig` so far | `load`, `loadFromString`, `parseSections`, `validate`, default file, flags | `Config` |
| `MiniJson` | `src/utils/MiniJson.cpp` | position in the text | `parse`, `dump`, `get`, `set` | `JsonValue`, `JsonString`, `MiniJson`, `PoolLines` |
| Hash algorithms | `src/hash/` | scratch buffers | `initialize`, `hash`, factory | `WorkInput`, `MinerEngine` |
| `Logger` | `src/logger/Logger.cpp` | level, file, mutex | `log` | not modelled |
| `CpuInfo`, build files | `src/utils/CpuInfo.cpp`, `CMakeLists.txt` | none | system calls | not modelled |

How they interact:

* `main()` makes the client and the engine, publishes a standby job, connects
  the client's callbacks to the engine (job, difficulty, verdict on a share),
  starts the client, then the engine, and after a signal stops the engine,
  then the client.
* The *network thread* (one) connects, sends the handshake, polls, reads lines
  and calls the callbacks: it publishes jobs into the `JobQueue`, stores the
  difficulty, counts verdicts.
* The *workers* copy the job from the queue, read the difficulty, hash a batch
  of 2048 nonces and call `submitShare()` of the client from within it, so that
  they write to the socket concurrently with the network thread's handshake.
* The *main thread* calls `stop()`, which disconnects concurrently with the
  network thread.
* `socketFd_` is a plain `int` that all three kinds of threads read and two
  write; `writeMutex_` covers `sendLine()` only.

What is hard, and what makes each part correct:

* **JobQueue.** A job is a struct of strings, copied field by field; `version()`
  takes no lock. Copies must be whole, and not older than a version seen
  before.
* **ThreadPool.** Queue under a condition variable, with a destructor that
  drains. Tasks run exactly once, none is left, the destructor returns.
* **StratumClient.** Connect, disconnect, send and stop in any order. Lines of
  different threads must not mix, a stop must not leave traces for the next
  start, `stop()` must return, and lost connections must be retried.
* **Dialogue.** Verdicts are told from answers to the handshake by their id
  alone; jobs, extranonce and difficulty change under the workers. Every verdict
  must be counted for the share it is about, and jobs must carry the extranonce
  of their connection.
* **Reading.** A line arrives in pieces, or several with one `recv()`, and its
  connection may be lost in the middle. Every line must reach its handler once, in
  order and with the values the pool meant, and nothing may be made of a part of one.
* **Engine.** Workers' nonce ranges overlap; a batch goes on after its job is
  replaced; the pool sends jobs of any form and length. No input should be hashed
  twice, outdated work must be bounded, and it should be known which jobs end the
  process.
* **Hashes.** An algorithm uses so many bytes of its input and has a buffer of so
  many: what is beyond does not enter the digest, or there is no digest.
* **Configuration.** Three copies of the defaults, numbers that wrap, and a
  command line that is read twice under different rules. What is loaded must be
  valid, the last flag must win, and a created file and a file that is silent about a
  field must both mean the values `MinerConfig` begins with.
* **Program.** Nobody may be inside an object that is stopped, and after a signal
  the program must end.

## 2. Modules

Each module starts with what it models and what it abstracts from; its mutants
(in a section of their own) are plausible bugs of the same code, each of which
breaks the property it is written for.

### LatestJob, JobQueue

`LatestJob` is the promise: a slot that is written and read in one step.
`JobQueue` is the code: `publish()` takes the `shared_mutex`, assigns the fields
one at a time in any order, bumps the version and unlocks; `current()` does the
same with a copy; `version()` is one step without a lock. A job is the number of
its publication. `ImplementsLatestJob` is the refinement (`slot <- version`: a
publication takes effect when the version is bumped).

### TaskQueue, ThreadPool

`TaskQueue` is what the pool promises to those who submit tasks: a queue, tasks that
run, tasks that have run, and a pool that closes when it is idle. `ThreadPool` is the
code: one action for each step of the worker's lambda between two accesses to shared
state, for the two halves of `submit()` (push under the mutex, notify after it)
and for the destructor (store, notify, join). A worker tests the predicate and goes
to sleep in two steps: the mutex is held between them, but `stopping_` is stored
without it. Spurious wakeups are possible. Tasks may submit tasks, also while
the destructor waits. `ImplementsTaskQueue` is the refinement: a task begins when
a worker pops it, and the pool is closed when the destructor has joined the last worker.
The program does not use the class; its header offers it for general use.

### StratumClient

The connection as seen from all threads. `net` is where the network thread is in
`runLoop()`, `main` where the controlling thread is in `stop()`, `send[t]` where a
thread is inside `sendLine()`. `disconnect()` is four steps (shutdown, close, clear,
deny), in two copies because two threads can be in it. `socketFd_` is read anew for each
system call, so each use is a step. What was sent is kept by connection as a sequence of
whole lines or of heads and tails (a partial `send()`). `recv()` and the handling of
what it returned are two steps (`Receive`, `Handle`), between which another thread may
disconnect. `poll()` may fail on a connection that is usable, too (`PollError`). The
pool may close a connection, or stop reading, at any moment.

Abstractions: descriptors are not reused, so what the kernel could do with a
descriptor number that has been closed and given to another file is left out;
at most one partial `send()` per line; a `send()` that fails makes the
connection useless; `getaddrinfo()`, the address list and the timeout of
`connect()` are one choice between success and failure.

### StratumDialogue, MCStratumDialogue

The protocol: request ids, the handler of answers, notifications, difficulty, main's
callbacks, and a worker's way from job to share. Lines and jobs are passed on, and a
connection is closed, in one step each, which `StratumClient` and `JobQueue` look at
more closely. `main()`'s submit callback is two: it sets `poolConnected` (`Callback`)
and then has the engine count the verdict (`RecordShare`); between them the verdict is
`owed`, and the network thread, whose call it is, does nothing else. The pool (external)
answers each request once in any order, or not at all if the connection goes; its answer
to `mining.subscribe` may be an error or have no extranonce, which leaves the old one in
place. It announces jobs whenever it likes, since the handlers do not ask for a
subscription. The synthetic job's shares never go out, which its difficulty of 10^15
stands for.

`ShareLedger` is what the dialogue promises of shares, without connections, jobs and
answers to anything else: a share is found under the next number (`Find`), goes out or
is dropped (`Send`, `Drop`), and gets a verdict or is lost with the others under way
(`Judge`, `Lose`). A verdict is judged when the answer arrives, owed or not. That the
first verdict is not counted is part of it, because the program is so (section 5).
`ImplementsLedger` is the refinement: the ledger's number is `nextRequestId_`, what is
in hand are the ids workers have taken, what is under way are the submissions among the
requests. `MCStratumDialogue` tells TLC that the workers are interchangeable.

### CppMiner

The composition: it extends `StratumClient` with `main()`, the signal handler,
the engine's `running_` and the workers' loops, and synchronises their steps
with the client's (`StartClient` takes `Start`, `SubmitShare` takes `Enter`).
What is hashed is left out. `SystemImplementsClient` proves that the client inside
is the client of `StratumClient`, so its theorems hold in the program.

### WorkInput

What a worker gives to its algorithm and how much of that enters the digest, as
operators. A job is its *form*: the length of its blob, whether `stoul()` can read each
of its pairs of characters (it takes `1g` for 1) and whether the code's test pattern is
in the place of the nonce already, or, for a header, the lengths before and after
extranonce2. `NonceOffset` is where the code writes the nonce; `TheScan` is the loop
that looks for that place, on the bytes of a blob. `Used`, `Digests`, `Extranonce2Seen`
and `NonceSeen` say what the algorithms see: `Sha256dAlgorithm` gives no digest beyond
252 bytes, `CryptonightAlgorithm` takes
72 bytes, so that a number that crosses the border loses its last digits (`Cut`).
The padding of SHA-256 and the rotation of Keccak's lanes are there for the theorems.
The rounds of the functions are left out.

### MinerEngine, MCMinerEngine

`workerLoop()` over the forms of `WorkInput`: each worker makes its algorithm (an
unknown name is an exception that ends the process, `aborted`), copies the job, skips a
blob shorter than four characters, and hashes a batch of headers or of blobs; a
pair of characters that is no number, or a nonce beyond the end of the blob, is an
exception in the middle of it. A nonce has four bytes of `Byte` values each and
wraps at `NonceSpace`; the workers start `Gap` apart. An input is recorded as what
enters its digest; `hashed`, `total`, `stale` and `seen` are history. `MCMinerEngine`
names one job of each form that is treated differently.

### JsonValue, JsonString, MiniJson

`JsonValue` is `json::Value`: a value is tagged with its type, an object is a sequence of
members, as in the code, with `get()` and `set()` (`Get`, `Set`). Texts are sequences of
symbols, one for each character the code looks at and one for any word between them.
`JsonString` is `parseRawString()` and `escape()`, each a loop of which one turn is an
operator (`Turn`, `EscapeSymbol`). `MiniJson` is the rest of the parser and `dump()`.
What is recursive in the code goes by depth of nesting: `Levels(t)[n]` is the parser that
may descend `n` levels, by place in the text, and calls `Levels(t)[n - 1]`; a text is not
nested deeper than it is long. `parseObject()` and `parseArray()` are one loop
(`ListTurn`) over entries that are items or members (`Entry`). `Values[n]` are the values
nested no deeper than `n`, and `Text(b)[n]` is what is written of them with the blanks `b`
wherever there may be some; `dump()` writes none.

A number is the double that `stod()` makes of a sign and digits, in decimals (`Stod`):
as it is written up to `Precision` digits, changed beyond, and an exception, which the
parser takes for malformed, beyond `MaxDigits`. `dump()` casts it to a `long long`
(`DumpNumber`), which is undefined for a number of more than `LongLong` digits: it
prints `Overflowed`, whatever that is in a build. Only the numbers of `Exact` are read
back as they were written. `t` and `r` are folded into `n`, `true` and `null` into
`false`; fractions and exponents are left out.

### LineReader, PoolLines, MCLineReader

The other half of `runLoop()`: a pool (external) writes lines; `recv()` returns any
piece of what has been written; `lineBuffer` is appended to and cut at each newline;
`handleLine()` parses a line and chooses the handler (`Handled`). The connection may be
lost between any two symbols, and the next has a buffer of its own. What the handlers do
is in `StratumDialogue`. The module takes the lines and the parser as constants, and
assumes of them that no line contains a newline (`TextsAssumption`) and that the
parser makes of a line's text the value that stands beside it (`ParserAssumption`).
`PoolLines` gives them the parser of `MiniJson` and lines (`JsonLines`): messages, that
is values written with or without blanks, and others, which are no JSON or a number that
is not exact. TLC evaluates both assumptions for these, and for messages they are proved
(`ValueReadsBack`, `TextIsOneLine`). `Submit` is the share that the client makes of a job
it has been sent: with a blob or without, under the job id that `asString()` returns,
which is empty for an id that is no string. `MCLineReader` holds the
messages: every type of value, nested, a job with a string of all the characters that are
escaped for its id, and one with a number for its id.

### Config, MCConfig

`parseConfig()` of `main.cpp` with the `ConfigManager` it calls: find the file
(`FindFile`), read it (`Load`), create it if it is not there (`Create`), apply the
flags one argument after the other, run. A text is a word or a numeral, so that
what `stoul()`, the cast to 32 bits and `toBool()` make of it can be told apart;
the fields of the configuration have the names of their keys in the file. What is
in a file is any choice of sections and texts: how `parseIni()` finds them in
lines is left out. The text built into the program is such a choice, too. `said` is
history: the fields for which the text that was read has a value of their type.
`MCConfig` gives the constants their values: one field of each kind.

## 3. Runs

| Run | Module | Instance | Shows |
|---|---|---|---|
| `job_queue` | JobQueue | 1 publisher, 2 readers, 2 fields, 3 jobs (11k states) | `NoTornJob`, `FreshAfterVersion`, `ImplementsLatestJob` |
| `thread_pool` | ThreadPool | 2 workers, 3 tasks (10k) | `NoPopFromEmpty`, `RunOnce`, `JoinedMeansDrained`, `ImplementsTaskQueue`, `SubmittedRuns` |
| `thread_pool_destructor` | ThreadPool | 1 worker, 1 task | **violates** `DestructorReturns` |
| `client` | StratumClient | 1 worker, 2 connections, 2 starts (1.7M) | `InterruptOnlyOnStop`, `LinesDoNotInterleave`, `HandshakeInOrder`, `OneConnection`, `AuthorizedIsCurrent` |
| `client_lines` | StratumClient | the same | **violates** `WholeLines` |
| `dialogue` | MCStratumDialogue | 2 workers (symmetric), 2 connections, 2 jobs, 2 shares (2.4M) | `ShareIdsAreUnique`, `CountsAreVerdicts`, `JobHasItsExtranonce`, `AuthorizedIsEarned`, `ImplementsLedger` |
| `dialogue_verdicts` | StratumDialogue | 1 worker, 1 connection, 1 share | **violates** `EveryVerdictCounted` |
| `program` | CppMiner | 1 worker, 1 connection, 2 shares (206k) | `NobodyLeft`, `ShutsDownWhenPoolReads`, `StopReturns`, `Reconnects` |
| `program_shutdown` | CppMiner | 1 worker, 1 connection, 1 share | **violates** `ShutsDown` |
| `engine` | MCMinerEngine | 2 workers, 16 nonces, 3 batches of 2, 2 jobs of 9 forms, 3 names of algorithms (309k) | `StaleWorkIsBounded`, `BatchIsFresh`, `NothingHashedTwice`, `MissingDigestsAreLongBlobs`, `AbortHasItsReason`, `NewJobIsTaken` |
| `lines` | MCLineReader | 2 lines out of 13 on each of 2 connections, up to 30 symbols at a time (148k) | `LinesAsSent`, `NoLineWaits`, `PartsAreMalformed`, `SharesNameTheirJob` |
| `config` | MCConfig | 5 fields, 3 arguments of 7, 2 files (113k) | `LoadedIsValid`, `FlagsOverride`, `NewFileIsDefaults`, `SilentFieldsAreDefaults` |

Each passing run of a module checks its `TypeOK`, too, but for `program`,
`thread_pool`, `client` and `dialogue`: the type invariants of their modules are proved for all
instances (`SystemTypeCorrect`, `TypeCorrect`).

### Bounds

* `JobQueue`: two fields are the fewest that can be torn, and three jobs let a
  reader be two behind. The network thread is the only publisher.
* `ThreadPool`: two workers contend for a task; with three tasks one is queued
  while two run.
* `StratumClient`: the worker contends with the handshake; a second connection
  follows the first at any moment, a second start any moment of a stop. A
  second worker would add another sender like the first; the theorems hold for
  any number. `OneConnection` and `AuthorizedIsCurrent` are about the first run
  of the client (`starts = 1`), the only one `main()` makes: over a restart the socket
  `stop()` may leave behind (section 6) is still open when the next run connects, and
  an answer on that connection leaves `authorized_` set.
  `StopReturns` and `Reconnects` are checked in `program`, where the client is started
  and stopped as `main()` does it, with workers that submit at any moment.
* `StratumDialogue`: the first share gets the id 2, the second does not; both
  workers take ids at once; jobs of both connections, announced before the answer to
  `mining.subscribe` and after it. Nothing the run checks tells the workers apart, so
  their symmetry is sound.
* `MinerEngine`: a byte of two values makes 16 nonces and a gap of 8. Each
  worker makes six hashes: the nonces of both wrap or meet. A cut of one, two or
  three bytes of the nonce is told apart, as in the program. The blob of 152
  characters has the length of Monero's, that of 506 is the first that is too long.
  The assumption `RangeAssumption` says that no worker makes more hashes than the
  2^32 divided by the number of workers after which it would repeat itself.
* `LineReader`: two lines are the fewest that can share a `recv()` or be split
  across two; two connections the fewest for a buffer to outlive one. A piece is any
  number of symbols up to 30, more than the shorter lines and fewer than the longest
  two have, as 4096 bytes are. Four lines are not JSON: empty, a key without quotes, two
  values without a comma, a number `stod()` refuses. One is a number that changes when it
  is read. A double holds 2 digits here, a `long long` 3 and `stod()` takes 4, for 15, 18
  and 308: what matters is their order. `Depth` is that of
  the deepest message, an array in an array in an object, and `Words` are what stands in
  the messages between the signs; both are constants of the theorems.
* `CppMiner`: the worker and the handshake contend for `writeMutex_`; two shares
  let one be blocked and one follow. Two workers were also checked for
  `NobodyLeft` (887k states); it is proved for any number.
* `Config`: three arguments are a flag, its value and one more, or a flag between
  `--config` and its value. The ranges of the integers are 2^10 and 2^20 for 2^32
  and 2^64: what matters is that a number fits one and not the other, as -1024 on the
  command line and 1024 in a file do, and that both are cut to 0. The two files are any
  choice of sections and texts, so that each field is missed in each way.

`CHECK_DEADLOCK FALSE` is set where the system may rest: a stopped client or
program, a destroyed pool, a dialogue or engine that has used up its bounds, a command line
that has been read.

### Fairness

* Threads run: weak fairness of each thread's steps. A thread that wants a mutex
  that is released again and again gets it: strong fairness of `Lock`,
  `Enter(Net)` and `SubmitShare`.
* `FairSpec` of `MinerEngine` has weak fairness of each worker's steps, which is all
  `NewJobIsTaken` needs: below its bound a worker that
  has been sent a job always has a step to make.
* `EndBatch` of `CppMiner` has strong fairness: a batch has 2048 hashes, so it ends however
  many of them are shares.
* The network thread's poll returns at least once a second (`poll` has a timeout
  of 1000 ms), and the reconnect delay passes.
* Not fair: signals, calls of `start()` and `stop()`, shares, notifications, the
  pool's answers, its reading and its closing of a connection, and failures of `poll()`.

## 4. Proofs

| Theorem | Module | Says, for all values of the constants |
|---|---|---|
| `TypeCorrect` | all eight proof modules | the module's type invariant (`SystemTypeCorrect` in `CppMinerProofs`) |
| `NoTorn`, `Fresh`, `Refinement` | JobQueueProofs | `NoTornJob`, `FreshAfterVersion`, `ImplementsLatestJob` |
| `NeverPopsEmpty`, `RunsOnce`, `Drained` | ThreadPoolProofs | `NoPopFromEmpty`, `RunOnce`, `JoinedMeansDrained` |
| `Refinement` | ThreadPoolProofs | `ImplementsTaskQueue`: the pool implements `TaskQueue` |
| `InterruptedOnlyByStop`, `LinesStayInOrder`, `HandshakeOrdered`, `OneSocket`, `AuthorizedNow` | StratumClientProofs | `InterruptOnlyOnStop`, `LinesDoNotInterleave`, `HandshakeInOrder`, `OneConnection`, `AuthorizedIsCurrent` |
| `UniqueShareIds`, `CountsCorrect`, `ExtranonceCorrect`, `AuthorizedEarned` | StratumDialogueProofs | `ShareIdsAreUnique`, `CountsAreVerdicts`, `JobHasItsExtranonce`, `AuthorizedIsEarned` |
| `Refinement` | StratumDialogueProofs | `ImplementsLedger`: the dialogue implements `ShareLedger` |
| `LinesInOrder`, `NothingWaits` | LineReaderProofs | `LinesAsSent`, `NoLineWaits` |
| `StringReadsBack`, `QuotedIsOneLine`, `StringPartMalformed` | LineReaderProofs | a string that is written is read back wherever it stands; has no newline in it; is no string if its end is missing |
| `ValueReadsBack`, `TextIsOneLine`, `PartMalformed` | LineReaderProofs | the same of whole values, nested however deep, whose numbers are exact: `parse()` of what is written of a value, with blanks or without, is that value; it is one line; a proper part of it, unless it is a number, is no value |
| `NumeralAsDouble` | LineReaderProofs | a numeral that fits a `long long` is read as the double next to it, which is exact; up to 15 digits it is the number itself |
| `PartsIgnored`, `SharesNameJobs` | LineReaderProofs | `PartsAreMalformed`, `SharesNameTheirJob` |
| `SetThenGet` | LineReaderProofs | what `set()` and `get()` of an object do together |
| `SystemImplementsClient`, `NobodyIsLeft` | CppMinerProofs | the program implements the client; `NobodyLeft` |
| `OneSocketInProgram`, `ClientInProgram` | CppMinerProofs | in the program, one socket is open at a time and `authorized_` is about it; `LinesDoNotInterleave`, `HandshakeInOrder` and `InterruptOnlyOnStop` |
| `StaleWorkBounded`, `BatchFresh`, `NothingTwice`, `MissingDigests`, `AbortReason` | MinerEngineProofs | `StaleWorkIsBounded`, `BatchIsFresh`, `NothingHashedTwice`, `MissingDigestsAreLongBlobs`, `AbortHasItsReason` |
| `NonceFits`, `ScanStops` | MinerEngineProofs | which blobs have room for the nonce; where the scan for its place ends, so that its fallback is never taken |
| `HeadersHaveDigests`, `Padding`, `UnwrittenLanes` | MinerEngineProofs | a header fits the buffer; SHA-256 pads with no block too many and within its array; six elements of Keccak's `b` are not written |
| `LoadedValid`, `FlagsWin`, `NewFileDefaults`, `SilentDefault` | ConfigProofs | `LoadedIsValid`, `FlagsOverride`, `NewFileIsDefaults`, `SilentFieldsAreDefaults` |

They rest on the named assumptions of the modules: the sets of threads are
disjoint, there is a worker and a field, the bounds are natural numbers, the
nonces are as many as the hashes of a batch by all workers and of all batches of one, the
range of `unsigned int` is above 100 and that of `unsigned long` not smaller, a line has
no newline in it and is parsed as it is meant, and a double holds no more digits than a
`long long`, which holds no more than `stod()` takes. `PartsIgnored` and `SharesNameJobs`
take from `PoolLines`, besides, that the lines are the `JsonLines` of messages that are
values with exact numbers and of others that are no object, array or string
(`LinesAssumption`, `MessagesAssumption`, `OthersAssumption`), and that what the client
adds to a share of its own are strings and a number that is exact (`ShareAssumption`).
Then of `ParserAssumption` and `TextsAssumption` only what they say of the *other* lines
is still assumed: what the parser makes of them, and that they have no newline. The
bounds are constants, so the theorems hold for every bound; so is the depth of nesting.

Each argument is an inductive invariant at the end of the module (`IInv`, and where a
further one is needed `FirstRunInv`, `HandshakeInv`, `FlagsInv`), a conjunction of named
parts, with one lemma for each action or group of actions.

* **JobQueue.** A torn copy is excluded only if one knows what is in the slot
  *while* it is assigned: `SlotInv` says each field is the version, or the
  version plus one where the publisher has been; `CopyInv` that what a reader has
  copied is the version, which `LockInv` keeps from moving meanwhile.
* **ThreadPool.** That nothing is left when the workers are joined needs to know
  where a task can be: `TasksInv` (done, queued or being run), `QueueInv` (not
  twice in the queue) and `DrainInv` (the last worker to return leaves an
  empty queue). `NoPopFromEmpty` needs `MutexInv`: what a worker decided under
  the mutex stays true. That it is a `TaskQueue` rests on the same parts: what a worker
  pops was at the front and is in no other worker's hands, what it ends is in its own only
  (`RunOnce`), and a step that is neither of these changes none of the four things a
  user can see.
* **StratumClient.** That what follows a head is its tail is not inductive: one
  has to know that a head at the end of a wire is either being continued by its
  thread, or never will be (`CutLineInv`), for which a new connection must be
  empty (`NewConnInv`) and one thread at a time be sending (`MutexInv`).
  That there is one socket needs to know, at every place of `runLoop()`, whether
  `socketFd_` is the newest connection or nothing is open (`FirstRun`): it connects
  only in the latter case. The clause for `poll`, `handle` and `lost` says that
  `mining.authorize` has gone out, which `authorized_` can be set only after.
  `HandshakeInOrder` is kept by the step that sends a piece of the handshake only if one
  knows what is already on the wire: of the line in turn nothing, or the head it
  continues, and the whole of `mining.subscribe` before `mining.authorize`
  (`HandshakeInv`).
* **StratumDialogue.** `CountInv` says the counts, with the verdict that is owed
  (`Counted`), are exact until the share with
  the id of `mining.authorize` has its verdict (`FirstShareAhead`), and
  `IdInv` that an id taken but not sent is nobody else's. `ExtranonceInv`
  carries the extranonce from the handshake over the queue to the worker, for jobs of a
  subscribed client.
  For the ledger, each step of the dialogue is mapped to one of its steps or to a stutter
  (`TakeIdInLedger`, `SubmitInLedger`, `AnswerInLedger`, `RecordShareInLedger`,
  `OtherStepsInLedger`). A
  worker that gives up its share takes out of `Hand` its own id only because no two
  workers hold the same (`IdInv`); an answer takes out of `Flight` one share only
  because no two shares under way have one id (`ShareIdsAreUnique`), and what answers
  the handshake is counted for none because of the ids it has (`RequestInv`).
* **CppMiner.** `WorkerInv` ties where workers, `main()` and `sendLine()` can be;
  the client's `IInv` is obtained by the implementation theorem, and with it all that is
  proved of the client. The client's theorems on its first run become theorems of
  the whole program, because `main()` starts it once (`SingleRun`).
* **LineReader.** The place of the buffer in the stream decides: it begins where the
  first line begins that is not handled (`BufferIsRest`), so its first newline is the end
  of that line (`StreamIsLines`, lemma `NextInBuffer`), and what is before it is the text
  the parser is given. `OnlyPartsStay` says that the loop over the lines leaves none
  behind. The stream and the places where its lines end are written down as they are
  sent, so that the proof needs no induction over the lines.
* **Strings.** What a loop over symbols does for strings of any length is an induction,
  and the induction theorems of the library cannot be used. `SetInduction` takes a set in
  the place of a predicate and rests on finite sets being well-founded: of the sets
  `0 .. n`, with `n` not in the set, one would be the least. From it come the existence of
  a loop's states (`Iteration`), where in the written text each symbol of the string
  begins (`PlacesOfSymbols`), and what has been read after as many turns
  (`CharactersOfQuoted`): a turn takes all that `escape()` has made of a symbol, because a
  backslash is always the first of two (`TurnOfSymbol`). A text that lacks its end has no
  quote a turn stops at.
* **Values.** An induction over the depth of nesting, once more with a set, in which the
  claim must be about more than a whole text, because a value's text stands in the middle
  of another and is read by a parser that is some levels down. `Reads` says it: wherever a
  text `x` of `v` stands in a text `t`, after any blanks, a parser with as many levels as
  `t` still has symbols reads `v` and stops behind `x`, if `t` has the whole of it
  (`Whole`), and fails if `t` ends within it (`Part`). Behind a number no digit may follow,
  which is why a part of one is a number and the theorems leave it out. For a list, its
  text is laid out as the places of its commas and its closing bracket; turn `i` of
  `ListTurn` goes from one place to the next with one more entry in `out`, by an induction
  over `i`. `set()` appends each member because no key is twice in a value (`Members`).
  That levels suffice is a count: each descent uses up a bracket. Numbers are among the values
  only if `stod()` and `dump()` leave them as they are (`Exact`).
* **MinerEngine.** What a worker has hashed of an outdated job, it has hashed in
  this batch (`StaleInv`). The inputs of a batch are as many as its hashes because
  the nonces `n + k * Threads` of a batch are different modulo `NonceSpace` as long as
  `BatchSize * Threads` does not exceed it (`BatchInv`), and each is seen whole.
  `NothingHashedTwice` needs more: each recorded header's nonce is some steps, fewer
  than those the worker has made in all, behind the nonce it has now (`Ahead`, `ApartInv`), so
  the next hash is a new one; what another worker has hashed has another extranonce2.
* **WorkInput.** Arithmetic, case by case. `ScanStops` rests on the test pattern's
  bytes being different: it cannot be in two places one byte apart.
* **Config.** `validate()` leaves a number alone if it is positive and clamps it if it
  is above 100, so it helps only if no number is negative: `StoulRange`. That a created
  file reads back as the defaults needs each field's text to survive its conversion
  (`DefaultIniParsed`). That a silent text leaves a field at its default needs the
  parser's fallbacks to be the defaults, and `validate()` to leave these alone
  (`SilentIsDefault`, `ValidateKeepsDefault`). `FlagsOverride` says what was *looked*
  at: an argument that follows a flag is its value, and whether it follows one depends
  on all before it. The module says it without recursion: `Row(j, k)` is an unbroken row
  of flags that want a value, an argument after a row of odd length is a value
  (`IsValue`), one after a row of even length, or after none, is looked at (`Looked`).
  The proof advances by one or two arguments (`OneMore`, `NextArgument`), and needs
  `RowsAgree`: two rows that end at one place agree on who is a value.

Model-checked only: every liveness property (`SubmittedRuns`, `StopReturns`,
`Reconnects`, `ShutsDownWhenPoolReads`, `NewJobIsTaken`), which is out of the prover's
reach. Of the lines that are no messages, what the parser makes of them is checked by TLC
for those of the run (`ParserAssumption`). Every invariant and every action property and
refinement of the passing runs is proved.

## 5. What disagrees with the code's own words

1. `thread_pool_destructor`: `stopping_` is stored without the mutex
   (`ThreadPool.cpp:27`), between a worker's test and its sleep; `notify_all()`
   finds nobody, and `join()` never returns.
2. `client_lines`: `sendLine()` reads `socketFd_` again for the rest of a line
   (`StratumClient.cpp:218`). After a reconnect in between, the rest is sent on
   the new connection. The header says "Thread-safe socket write."
3. `dialogue_verdicts`: the first share goes out with id 2, that of
   `mining.authorize` (`StratumClient.cpp:246`). Its verdict is not counted; and if
   it is good the client counts as authorized, whatever the pool said.
   `CountsAreVerdicts` and `AuthorizedIsEarned` say how far this goes: one verdict.
4. `program_shutdown`: `engine.stop()` joins workers before
   `stratumClient.stop()` shuts the socket down; a worker blocked in `send()` to a
   pool that has stopped reading keeps the program from ending.

## 6. Seen while modelling, without a run

* Job and extranonce survive a disconnect (`StratumClient.cpp:97-105`), so until
  the pool's first job on a new connection, shares of the old subscription go out
  on it. A job that is announced before the answer to `mining.subscribe`, or after one
  that is no array of three (`390-391`), has the old extranonce, too.
* `poll()` that is interrupted by a signal (`474`) costs the client a connection that is
  in order.
* A job whose id is no string is mined, and its shares go out with an empty id
  (`asString()`, `StratumClient.cpp:315`, `329`).
* A number of the pool's with more digits than a double holds is changed; one beyond the
  range of `long long` is undefined when it is printed, as it is to the log
  (`MiniJson.cpp:204`, `StratumClient.cpp:292`), and when it is cast to an id.
* `socketFd_` is set before the handshake goes out (`StratumClient.cpp:180`), so
  a worker's `mining.submit` may be the first line a pool hears.
* `stop()` may run `disconnect()` before the network thread stores the socket it
  has just connected; the new socket then stays open after `stop()`. As the
  program ends there, nothing follows from it.
* `cleanJobs` is parsed and never read; the rest of a batch of an outdated job is
  submitted, and so is a share found under the difficulty the batch began with.
  `StaleWorkIsBounded` bounds it to one batch.
* `poolConnected` (`main.cpp:236`) is set by the first verdict counted and never
  cleared; `hasRealJob` likewise.
* A blob's batch does not advance the worker's nonce, so each batch of the same
  blob repeats the one before and finds the same shares again. `BatchIsFresh` is
  what remains true.
* `CryptonightAlgorithm::hash` uses 72 bytes of its input. A blob of 76 bytes, as
  Monero's are, has its nonce behind them: the 2048 hashes of a batch are one. With 73 to
  75 bytes a part of the nonce is seen. A header whose extranonce2 ends after 72
  characters does not keep workers apart; neither does one where it ends after
  200, under either algorithm.
* A blob of more than 252 bytes has no digest under `Sha256dAlgorithm`: the zeros it
  leaves are below every threshold, and every nonce is submitted.
* The scan for the nonce's place always ends at the fifth byte from the end
  (`ScanStops`). The comments at `MinerEngine.cpp:139-140` and `210` place the nonce
  elsewhere than the code does.
* An unknown algorithm is found out in the workers, and ends the process.
* `keccak1600()` writes 19 of the 25 elements of `b`, which is not initialised, and reads
  all of them (`UnwrittenLanes`).
* A notification of seven elements whose blob is empty or no string makes a job
  without a blob, which is hashed as a header. Its `difficulty` is stored and not read.
* `MiniJson` does not look at what follows a value, takes `7-7` for 7 and the `u` of
  `\u0041` for a letter, though it "Returns std::nullopt on malformed input"
  (`MiniJson.hpp:61-62`); the pools' own lines have none of these, so no run is made
  of it. A message without a `method` is taken for a response even if it is no
  object.
* All lines of the buffer are handled before the loop looks at `running_` again, so
  jobs are published after `stop()` has been called.
* poll's `POLLHUP` ends a connection before data still pending is read.
* Flags are applied after `validate()`, so `--print-interval 0` and
  `--reconnect-delay 0` are accepted, which a file may not say ("must be >0",
  `ConfigManager.cpp:56`, `60`). `--threads -1` wraps, and a number that is none
  aborts the program.
* `--config` as the last argument is ignored; as the value of another flag it
  names the file all the same. Switches on the command line are case-sensitive and
  take anything unknown for false, those in a file fall back on the default.

## 7. Not modelled

* The rounds of SHA-256, Keccak and CryptoNight: arithmetic on words, of which the
  program's behaviour depends on no more than which bytes enter them.
* The counters and windows of `totalHashrate()`, `averageHashrate()` and the
  statistics loop, and `runBenchmark()`: measurements over a clock, shown and not
  acted upon.
* `Logger` and `CpuInfo`: output and system calls, on which nothing depends.
* Of `MiniJson` the fractions and exponents of numbers, and which digits a double changes
  in a long one; of the configuration file
  how lines are trimmed and split.
* Of the network, address lookup and the kernel's reuse of descriptor numbers.

What would come next: one account of a share from hash to verdict that
`MinerEngine` and `ShareLedger` share; and `LineReader` composed with `StratumDialogue`,
so that the messages of the latter arrive in pieces.
