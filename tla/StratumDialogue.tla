--------------------------- MODULE StratumDialogue ---------------------------
(***************************************************************************)
(* What the miner and the pool say to each other, and what the miner makes *)
(* of it: the handlers of network::StratumClient, the callbacks main.cpp   *)
(* connects them to, and a share's way through miner::MinerEngine from the *)
(* job it is found for to its verdict.                                     *)
(*                                                                         *)
(* How lines are sent and connections are closed is the subject of         *)
(* StratumClient, how jobs are copied the subject of JobQueue: here a line *)
(* or a job is passed on, and a connection is closed, in one step.  The    *)
(* pool is modelled from what the client expects of it: it answers each    *)
(* request once, in any order, unless the connection goes first.  When it  *)
(* announces a job is left open.                                           *)
(***************************************************************************)
EXTENDS Naturals

CONSTANTS Workers,     \* mining threads
          MaxConns,    \* bound: connections
          MaxJobs,     \* bound: jobs announced
          MaxShares,   \* bound: shares submitted
          Diffs        \* the difficulties the pool may ask for

ASSUME BoundsAssumption == MaxConns \in Nat /\ MaxJobs \in Nat /\ MaxShares \in Nat
ASSUME DiffsAssumption  == Diffs \subseteq Nat

VARIABLES
    conn,        \* the connection the client has, or NoConn
    made,        \* connections made so far
    authorized,  \* authorized_
    extranonce,  \* extranonce1_: the connection whose extranonce it is
    nextId,      \* nextRequestId_
    requests,    \* requests on the wire that the pool has not answered
    slot,        \* jobQueue_
    jobs,        \* jobs announced so far
    difficulty,  \* difficulty_
    work,        \* work[w]: what worker w mines, see TypeOK
    accepted, rejected,       \* the share counters of the engine
    owed,        \* the verdict that the submit callback has not recorded yet
    poolConnected, hasRealJob,  \* main()'s flags
    poolState,   \* what the pool knows of the present connection
    verdicts     \* verdicts[ok]: the pool's verdicts on shares so far

clientVars == <<authorized, extranonce>>
mainVars   == <<accepted, rejected, owed, poolConnected>>
vars == <<conn, made, clientVars, nextId, requests, slot, jobs, difficulty, work,
          mainVars, hasRealJob, poolState, verdicts>>

NoConn == 0
Conns  == 1 .. MaxConns

\* A job: its number, the connection it was announced on, whether the client had
\* an extranonce of that connection then, and the extranonce it was given (a
\* connection's, too).  Its flag cleanJobs is copied and never read.
Jobs == [n : 0 .. MaxJobs, conn : Conns \cup {NoConn}, subscribed : BOOLEAN,
         extranonce : Conns \cup {NoConn}]

\* main()'s standby job, for which no share is ever submitted, comes with a
\* difficulty no pool asks for.
Synthetic == [n |-> 0, conn |-> NoConn, subscribed |-> FALSE,
              extranonce |-> NoConn]
Standby   == 1 + CHOOSE d \in Diffs : \A e \in Diffs : e <= d

\* A request: its id, its kind and, if it is a share, the share.
NoShare == [job |-> Synthetic, diff |-> Standby]
Shares  == [job : Jobs, diff : Diffs \cup {Standby}]
Request(id, kind, share) == [id |-> id, kind |-> kind, share |-> share]

\* The ids connectOnce() uses and the ones submitShare() may hand out.
SubscribeId == 1
AuthorizeId == 2
Ids == 1 .. MaxShares + 1

Init ==
    /\ conn = NoConn /\ made = 0
    /\ authorized = FALSE
    /\ extranonce = NoConn
    /\ nextId = 1
    /\ requests = {}
    /\ slot = Synthetic /\ jobs = 0
    /\ difficulty = Standby
    /\ work = [w \in Workers |-> [at |-> "fetch", share |-> NoShare, id |-> 0]]
    /\ accepted = 0 /\ rejected = 0 /\ owed = {}
    /\ poolConnected = FALSE /\ hasRealJob = FALSE
    /\ poolState = [subscribed |-> FALSE, authorized |-> FALSE]
    /\ verdicts = [ok \in BOOLEAN |-> 0]

-----------------------------------------------------------------------------
(* Mutants: ways the code could be wrong that the properties must notice.   *)

\* ++nextRequestId_ without pendingMutex_: two workers get the same id.
TakeIdRacing(w) ==
    /\ work[w].at = "batch" /\ work[w].share.job.n # 0
    /\ nextId <= MaxShares
    /\ nextId' \in {nextId, nextId + 1}
    /\ work' = [work EXCEPT ![w].at = "submit", ![w].id = nextId + 1]
    /\ UNCHANGED <<conn, made, clientVars, requests, slot, jobs, difficulty,
                   mainVars, hasRealJob, poolState, verdicts>>

\* disconnect() that leaves authorized_ set.
DisconnectAuthorized ==
    /\ conn # NoConn
    /\ conn' = NoConn
    /\ requests' = {}
    /\ UNCHANGED <<made, clientVars, nextId, slot, jobs, difficulty, work,
                   mainVars, hasRealJob, poolState, verdicts>>

\* The counters before the flag.
CallbackCountsFirst(ok) ==
    /\ accepted' = accepted + (IF ok THEN 1 ELSE 0)
    /\ rejected' = rejected + (IF ok THEN 0 ELSE 1)
    /\ owed' = {ok}
    /\ UNCHANGED poolConnected

\* handleResponse() that ignores the result of mining.subscribe.
SubscribedIgnored(ok) == UNCHANGED extranonce

\* A submission that was sent is taken for one that failed, and tried again.
SubmitAgain(w) ==
    /\ work[w].at = "submit"
    /\ requests' = IF conn = NoConn THEN requests
                   ELSE requests \cup {Request(work[w].id, "submit", work[w].share)}
    /\ UNCHANGED <<conn, made, clientVars, nextId, slot, jobs, difficulty, work,
                   mainVars, hasRealJob, poolState, verdicts>>

-----------------------------------------------------------------------------
(* The connection: connectOnce() and disconnect(), see StratumClient.       *)

Connect ==
    /\ conn = NoConn /\ owed = {}
    /\ made < MaxConns
    /\ made' = made + 1 /\ conn' = made + 1
    /\ requests' = {Request(SubscribeId, "subscribe", NoShare),
                    Request(AuthorizeId, "authorize", NoShare)}
    /\ poolState' = [subscribed |-> FALSE, authorized |-> FALSE]
    /\ UNCHANGED <<clientVars, nextId, slot, jobs, difficulty, work,
                   mainVars, hasRealJob, verdicts>>

\* What is not answered yet is lost.  Extranonce and job stay.
Disconnect ==
    /\ conn # NoConn
    /\ conn' = NoConn
    /\ requests' = {}
    /\ authorized' = FALSE
    /\ UNCHANGED <<made, extranonce, nextId, slot, jobs, difficulty, work,
                   mainVars, hasRealJob, poolState, verdicts>>

-----------------------------------------------------------------------------
(* handleResponse(): the answer to a request is told by its id alone.       *)

\* ok: a result of three elements or more, which has the extranonce.  With an error
\* or another result the one of an earlier connection stays.
Subscribed(ok) == extranonce' = IF ok THEN conn ELSE extranonce

\* The submit callback of main(): it sets the flag, and then counts the verdict.
Callback(ok) ==
    /\ poolConnected' = TRUE
    /\ owed' = {ok}
    /\ UNCHANGED <<accepted, rejected>>

HandleResponse(id, ok) ==
    \/ /\ id = AuthorizeId
       /\ authorized' = ok
       /\ UNCHANGED <<extranonce, mainVars>>
    \/ /\ id = SubscribeId
       /\ Subscribed(ok)
       /\ UNCHANGED <<authorized, mainVars>>
    \/ /\ id \notin {SubscribeId, AuthorizeId}
       /\ Callback(ok)
       /\ UNCHANGED clientVars

\* The pool answers request r, for what r really is.  The network thread reads
\* nothing before the callback has returned.
Answer(r, ok) ==
    /\ owed = {}
    /\ r \in requests
    /\ requests' = requests \ {r}
    /\ poolState' = CASE r.kind = "subscribe" -> [poolState EXCEPT !.subscribed = ok]
                      [] r.kind = "authorize" -> [poolState EXCEPT !.authorized = ok]
                      [] r.kind = "submit"    -> poolState
    /\ verdicts' = IF r.kind = "submit" THEN [verdicts EXCEPT ![ok] = @ + 1] ELSE verdicts
    /\ HandleResponse(r.id, ok)
    /\ UNCHANGED <<conn, made, nextId, slot, jobs, difficulty, work, hasRealJob>>

\* recordShareResult().
RecordShare(ok) ==
    /\ owed = {ok}
    /\ accepted' = accepted + (IF ok THEN 1 ELSE 0)
    /\ rejected' = rejected + (IF ok THEN 0 ELSE 1)
    /\ owed' = {}
    /\ UNCHANGED <<conn, made, clientVars, nextId, requests, slot, jobs, difficulty,
                   work, poolConnected, hasRealJob, poolState, verdicts>>

-----------------------------------------------------------------------------
(* handleNotify() and handleSetDifficulty(), with their callbacks.          *)

\* The handlers ask for neither subscription nor authorization.
Notify ==
    /\ conn # NoConn /\ owed = {}
    /\ jobs < MaxJobs
    /\ jobs' = jobs + 1
    /\ slot' = [n |-> jobs + 1, conn |-> conn, subscribed |-> poolState.subscribed,
                extranonce |-> extranonce]
    /\ hasRealJob' = TRUE
    /\ UNCHANGED <<conn, made, clientVars, nextId, requests, difficulty, work,
                   mainVars, poolState, verdicts>>

SetDifficulty(d) ==
    /\ conn # NoConn /\ owed = {}
    /\ difficulty' = d
    /\ UNCHANGED <<conn, made, clientVars, nextId, requests, slot, jobs, work,
                   mainVars, hasRealJob, poolState, verdicts>>

-----------------------------------------------------------------------------
(* workerLoop(): job and threshold are read one after the other, once for a *)
(* batch of hashes, any of which may be a share.                            *)

FetchJob(w) ==
    /\ work[w].at = "fetch"
    /\ work' = [work EXCEPT ![w].at = "threshold", ![w].share.job = slot]
    /\ UNCHANGED <<conn, made, clientVars, nextId, requests, slot, jobs, difficulty,
                   mainVars, hasRealJob, poolState, verdicts>>

ReadThreshold(w) ==
    /\ work[w].at = "threshold"
    /\ work' = [work EXCEPT ![w].at = "batch", ![w].share.diff = difficulty]
    /\ UNCHANGED <<conn, made, clientVars, nextId, requests, slot, jobs, difficulty,
                   mainVars, hasRealJob, poolState, verdicts>>

\* submitShare() and submitBlobShare(): first the id, under pendingMutex_.
TakeId(w) ==
    /\ work[w].at = "batch" /\ work[w].share.job.n # 0
    /\ nextId <= MaxShares
    /\ nextId' = nextId + 1
    /\ work' = [work EXCEPT ![w].at = "submit", ![w].id = nextId + 1]
    /\ UNCHANGED <<conn, made, clientVars, requests, slot, jobs, difficulty,
                   mainVars, hasRealJob, poolState, verdicts>>

\* Then sendLine(): without a connection the share is dropped.
Submit(w) ==
    /\ work[w].at = "submit"
    /\ requests' = IF conn = NoConn THEN requests
                   ELSE requests \cup {Request(work[w].id, "submit", work[w].share)}
    /\ work' = [work EXCEPT ![w].at = "batch"]
    /\ UNCHANGED <<conn, made, clientVars, nextId, slot, jobs, difficulty,
                   mainVars, hasRealJob, poolState, verdicts>>

EndBatch(w) ==
    /\ work[w].at = "batch"
    /\ work' = [work EXCEPT ![w].at = "fetch"]
    /\ UNCHANGED <<conn, made, clientVars, nextId, requests, slot, jobs, difficulty,
                   mainVars, hasRealJob, poolState, verdicts>>

-----------------------------------------------------------------------------
Next ==
    \/ Connect \/ Disconnect
    \/ \E r \in requests, ok \in BOOLEAN : Answer(r, ok)
    \/ \E ok \in BOOLEAN : RecordShare(ok)
    \/ Notify
    \/ \E d \in Diffs : SetDifficulty(d)
    \/ \E w \in Workers :
          FetchJob(w) \/ ReadThreshold(w) \/ TakeId(w) \/ Submit(w) \/ EndBatch(w)

Spec == Init /\ [][Next]_vars

-----------------------------------------------------------------------------
(* Properties.                                                              *)

\* Every variable has its type.  A worker has fetched a job, read the
\* threshold, or taken the id of a share it is about to send.
TypeOK ==
    /\ conn \in Conns \cup {NoConn} /\ made \in 0 .. MaxConns
    /\ authorized \in BOOLEAN
    /\ extranonce \in Conns \cup {NoConn}
    /\ nextId \in Ids
    /\ requests \subseteq [id : Ids \cup {SubscribeId, AuthorizeId},
                           kind : {"subscribe", "authorize", "submit"}, share : Shares]
    /\ slot \in Jobs /\ jobs \in 0 .. MaxJobs
    /\ difficulty \in Diffs \cup {Standby}
    /\ work \in [Workers -> [at : {"fetch", "threshold", "batch", "submit"},
                             share : Shares, id : Ids \cup {0}]]
    /\ accepted \in Nat /\ rejected \in Nat /\ owed \in {{}, {TRUE}, {FALSE}}
    /\ poolConnected \in BOOLEAN /\ hasRealJob \in BOOLEAN
    /\ poolState \in [subscribed : BOOLEAN, authorized : BOOLEAN]
    /\ verdicts \in [BOOLEAN -> Nat]

Submits == {r \in requests : r.kind = "submit"}

\* The ids of two shares on the wire differ, across workers and reconnects,
\* so that no verdict can be taken for another's (StratumClient.cpp:243-247).
ShareIdsAreUnique ==
    \A r, s \in Submits : r.id = s.id => r = s

\* What is counted or about to be.
Counted == [ok \in BOOLEAN |-> (IF ok THEN accepted ELSE rejected)
                               + (IF ok \in owed THEN 1 ELSE 0)]

\* The statistics are the pool's verdicts but for one: the first share's,
\* which goes out under the id of mining.authorize (StratumClient.cpp:246,
\* 378).  Nothing else is ever counted, and nothing else is missed.  The status
\* line shows no share of a pool that it calls disconnected (main.cpp:236-237,
\* 280-284).
CountsAreVerdicts ==
    /\ accepted <= verdicts[TRUE] /\ rejected <= verdicts[FALSE]
    /\ owed = {} => verdicts[TRUE] + verdicts[FALSE] <= accepted + rejected + 1
    /\ accepted + rejected > 0 => poolConnected

\* No share mixes the job of one connection with the extranonce of another if the
\* client had been given one when the job was announced, although the network
\* thread renews both while the workers mine.
JobHasItsExtranonce ==
    \A w \in Workers :
       LET job == work[w].share.job IN job.subscribed => job.extranonce = job.conn

\* A client that says it is authorized has a connection, and the pool has
\* said so on it or, by the share that goes out under the id of
\* mining.authorize, has accepted a share: the flag is never left over from
\* an earlier connection (StratumClient.cpp:103, 378).
AuthorizedIsEarned ==
    authorized => conn # NoConn /\ (poolState.authorized \/ verdicts[TRUE] > 0)

\* Every verdict on a share reaches the statistics (StratumClient.hpp:42,
\* "Callback invoked once per submitted share with accept/reject status").
EveryVerdictCounted ==
    owed = {} => accepted = verdicts[TRUE] /\ rejected = verdicts[FALSE]

\* The shares as a ledger keeps them: the ones a worker has taken an id for, the
\* ones on the wire, and the statistics with the verdict that is about to be
\* counted.
Hand    == {work[w].id : w \in {v \in Workers : work[v].at = "submit"}}
Flight  == {r.id : r \in Submits}

Ledger == INSTANCE ShareLedger
          WITH last <- nextId, hand <- Hand, flight <- Flight, given <- verdicts,
               counted <- Counted

\* Every share goes through the ledger: under a number of its own, out once at
\* most, judged once at most, counted once if it is not the first, and whatever
\* else is answered counts for nothing (StratumClient.cpp:238-254, 353-409).
ImplementsLedger == Ledger!LedgerSpec

-----------------------------------------------------------------------------
(* The inductive invariant behind them.                                     *)

\* Requests belong to a connection and their ids say what they are, except
\* that a share may have the id of mining.authorize.
RequestInv ==
    /\ requests # {} => conn # NoConn
    /\ \A r \in requests : /\ r.kind = "subscribe" => r.id = SubscribeId
                           /\ r.kind = "authorize" => r.id = AuthorizeId
                           /\ r.kind = "submit" => r.id \in AuthorizeId .. nextId

\* An id a worker has taken is nobody else's.
IdInv ==
    \A w \in Workers : work[w].at = "submit" =>
       /\ work[w].id \in AuthorizeId .. nextId
       /\ \A r \in Submits : r.id # work[w].id
       /\ \A v \in Workers : work[v].at = "submit" /\ work[v].id = work[w].id => v = w

\* The share that gets the id of mining.authorize has not got its verdict yet.
FirstShareAhead ==
    \/ nextId = 1
    \/ \E w \in Workers : work[w].at = "submit" /\ work[w].id = AuthorizeId
    \/ \E r \in Submits : r.id = AuthorizeId

\* Until then the statistics are exact, from then on they may lack it.
CountInv ==
    /\ Counted[TRUE] <= verdicts[TRUE] /\ Counted[FALSE] <= verdicts[FALSE]
    /\ verdicts[TRUE] + verdicts[FALSE] <= Counted[TRUE] + Counted[FALSE] + 1
    /\ accepted + rejected > 0 \/ owed # {} => poolConnected
    /\ FirstShareAhead => Counted[TRUE] = verdicts[TRUE] /\ Counted[FALSE] = verdicts[FALSE]

\* A client that is subscribed has the extranonce of its connection.
ExtranonceInv ==
    /\ conn # NoConn /\ poolState.subscribed => extranonce = conn
    /\ slot.subscribed => slot.extranonce = slot.conn

IInv == /\ TypeOK /\ RequestInv /\ IdInv /\ CountInv /\ ExtranonceInv
        /\ ShareIdsAreUnique /\ JobHasItsExtranonce /\ AuthorizedIsEarned
=============================================================================
