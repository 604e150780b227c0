------------------------ MODULE StratumDialogueProofs ------------------------
(***************************************************************************)
(* Safety of StratumDialogue for every number of workers, connections,     *)
(* jobs and shares and every set of difficulties, and its implementation   *)
(* of ShareLedger.                                                         *)
(***************************************************************************)
EXTENDS StratumDialogue, TLAPS

USE BoundsAssumption DEF NoConn, Conns, SubscribeId, AuthorizeId, Ids

LEMMA SyntheticType == Synthetic \in Jobs /\ NoShare \in Shares
BY DEF Synthetic, Jobs, NoShare, Shares

LEMMA CountedType ==
    ASSUME TypeOK
    PROVE  /\ accepted \in Nat /\ rejected \in Nat
           /\ Counted[TRUE] \in Nat /\ Counted[FALSE] \in Nat
           /\ accepted <= Counted[TRUE] /\ rejected <= Counted[FALSE]
           /\ owed = {} => Counted[TRUE] = accepted /\ Counted[FALSE] = rejected
<1>1. accepted \in Nat /\ rejected \in Nat
  BY DEF TypeOK
<1> DEFINE i == IF TRUE \in owed THEN 1 ELSE 0
           j == IF FALSE \in owed THEN 1 ELSE 0
<1>2. Counted[TRUE] = accepted + i /\ Counted[FALSE] = rejected + j
  BY DEF Counted
<1>3. i \in {0, 1} /\ j \in {0, 1} /\ (owed = {} => i = 0 /\ j = 0)
  OBVIOUS
<1> HIDE DEF i, j
<1>4. QED BY <1>1, <1>2, <1>3

\* Setting the flag owes a verdict to the statistics, and recording it pays.
LEMMA CallbackCounts ==
    ASSUME TypeOK, owed = {}, NEW ok \in BOOLEAN, Callback(ok)
    PROVE  /\ Counted' = [Counted EXCEPT ![ok] = @ + 1]
           /\ Counted'[ok] = Counted[ok] + 1
           /\ \A b \in BOOLEAN \ {ok} : Counted'[b] = Counted[b]
<1>1. \A b \in BOOLEAN : Counted'[b] = IF b = ok THEN Counted[b] + 1 ELSE Counted[b]
  <2> TAKE b \in BOOLEAN
  <2>1. accepted \in Nat /\ rejected \in Nat
    BY DEF TypeOK
  <2> DEFINE base == IF b THEN accepted ELSE rejected
  <2>2. Counted[b] = base + 0 /\ base \in Nat
    BY <2>1 DEF Counted
  <2>3. Counted'[b] = base + (IF b = ok THEN 1 ELSE 0)
    BY DEF Counted, Callback
  <2> HIDE DEF base
  <2>4. QED BY <2>2, <2>3
<1>2. Counted = [b \in BOOLEAN |-> Counted[b]] /\ Counted' = [b \in BOOLEAN |-> Counted'[b]]
  BY DEF Counted
<1>3. Counted' = [Counted EXCEPT ![ok] = @ + 1]
  BY <1>1, <1>2
<1>4. QED BY <1>1, <1>3

LEMMA RecordKeepsCounted ==
    ASSUME TypeOK, NEW ok \in BOOLEAN, RecordShare(ok)
    PROVE  Counted' = Counted
<1>1. accepted \in Nat /\ rejected \in Nat
  BY DEF TypeOK
<1>2. ASSUME NEW b \in BOOLEAN PROVE Counted'[b] = Counted[b]
  <2> DEFINE base == IF b THEN accepted ELSE rejected
             one  == IF b = ok THEN 1 ELSE 0
  <2>1. Counted[b] = base + one /\ base \in Nat /\ one \in Nat
    BY <1>1 DEF Counted, RecordShare
  <2>2. Counted'[b] = (base + one) + 0
    <3>1. owed' = {} /\ (IF b THEN accepted' ELSE rejected') = base + one
      <4>1. CASE ok = TRUE
        BY <1>1, <4>1 DEF RecordShare
      <4>2. CASE ok = FALSE
        BY <1>1, <4>2 DEF RecordShare
      <4>3. QED BY <4>1, <4>2
    <3> HIDE DEF base, one
    <3>2. QED BY <3>1 DEF Counted
  <2> HIDE DEF base, one
  <2>3. QED BY <2>1, <2>2
<1>3. Counted = [b \in BOOLEAN |-> Counted[b]] /\ Counted' = [b \in BOOLEAN |-> Counted'[b]]
  BY DEF Counted
<1>4. QED BY <1>2, <1>3

\* A step that counts nothing keeps the counts close unless the first share goes ahead
\* of it again.
LEMMA CountInvKept ==
    ASSUME CountInv, FirstShareAhead' => FirstShareAhead,
           UNCHANGED <<accepted, rejected, owed, poolConnected, verdicts>>
    PROVE  CountInv'
<1>1. Counted' = Counted
  BY DEF Counted
<1>2. QED BY <1>1 DEF CountInv

\* The miner starts in the invariant, mining the standby job.
LEMMA InitIInv == Init => IInv
<1> SUFFICES ASSUME Init PROVE IInv
  OBVIOUS
<1>1. TypeOK
  <2>1. {authorized, poolConnected, hasRealJob} \subseteq BOOLEAN
    BY DEF Init
  <2>2. poolState \in [subscribed : BOOLEAN, authorized : BOOLEAN]
    BY DEF Init
  <2>3. work \in [Workers -> [at : {"fetch", "threshold", "batch", "submit"},
                              share : Shares, id : Ids \cup {0}]]
    BY SyntheticType DEF Init
  <2>4. verdicts \in [BOOLEAN -> Nat]
    BY DEF Init
  <2>5. QED BY <2>1, <2>2, <2>3, <2>4, SyntheticType DEF Init, TypeOK
<1>2. RequestInv /\ IdInv
  BY DEF Init, RequestInv, IdInv
<1>3. CountInv
  BY DEF Init, CountInv, Counted
<1>4. ExtranonceInv /\ JobHasItsExtranonce
  BY DEF Init, ExtranonceInv, JobHasItsExtranonce, Synthetic, NoShare
<1>5. ShareIdsAreUnique /\ AuthorizedIsEarned
  BY DEF Init, ShareIdsAreUnique, Submits, AuthorizedIsEarned
<1>6. QED BY <1>1, <1>2, <1>3, <1>4, <1>5 DEF IInv

-----------------------------------------------------------------------------
(* The connection.                                                          *)

LEMMA ConnectIInv ==
    ASSUME IInv, Connect
    PROVE  IInv'
<1>1. \A r \in requests' : /\ r.kind \in {"subscribe", "authorize"}
                           /\ r.kind = "subscribe" => r.id = SubscribeId
                           /\ r.kind = "authorize" => r.id = AuthorizeId
  BY DEF Connect, Request
<1>2. requests' \subseteq [id : Ids \cup {SubscribeId, AuthorizeId},
                           kind : {"subscribe", "authorize", "submit"}, share : Shares]
  BY SyntheticType DEF Connect, Request
<1>3. poolState' \in [subscribed : BOOLEAN, authorized : BOOLEAN] /\ ~poolState'.subscribed
  BY DEF Connect
<1>4. requests = {}
  BY DEF Connect, IInv, RequestInv
<1>5. TypeOK'
  <2>1. made' \in 0 .. MaxConns /\ conn' \in Conns
    BY DEF Connect, IInv, TypeOK
  <2>2. QED BY <1>2, <1>3, <2>1 DEF Connect, IInv, TypeOK, clientVars, mainVars
<1>6. RequestInv' /\ ShareIdsAreUnique' /\ IdInv'
  <2>1. Submits' = {}
    BY <1>1 DEF Submits
  <2>2. conn' # NoConn
    BY DEF Connect, IInv, TypeOK
  <2>3. QED BY <1>1, <2>1, <2>2
           DEF Connect, IInv, RequestInv, IdInv, ShareIdsAreUnique
<1>7. CountInv'
  <2>1. FirstShareAhead' => FirstShareAhead
    BY <1>1 DEF Connect, FirstShareAhead, Submits
  <2>2. QED BY <2>1, CountInvKept DEF Connect, IInv, mainVars
<1>8. ExtranonceInv' /\ JobHasItsExtranonce' /\ AuthorizedIsEarned'
  BY <1>3 DEF Connect, IInv, TypeOK, ExtranonceInv, JobHasItsExtranonce,
              AuthorizedIsEarned, clientVars
<1>9. QED BY <1>5, <1>6, <1>7, <1>8 DEF IInv

LEMMA DisconnectIInv ==
    ASSUME IInv, Disconnect
    PROVE  IInv'
<1>1. TypeOK'
  BY DEF Disconnect, IInv, TypeOK, mainVars
<1>2. Submits' = {}
  BY DEF Disconnect, Submits
<1>3. RequestInv' /\ IdInv' /\ ShareIdsAreUnique'
  BY <1>2 DEF Disconnect, IInv, RequestInv, IdInv, ShareIdsAreUnique
<1>4. CountInv'
  <2>1. FirstShareAhead' => FirstShareAhead
    BY <1>2 DEF Disconnect, FirstShareAhead
  <2>2. QED BY <2>1, CountInvKept DEF Disconnect, IInv, mainVars
<1>5. ExtranonceInv' /\ JobHasItsExtranonce' /\ AuthorizedIsEarned'
  BY DEF Disconnect, IInv, ExtranonceInv, JobHasItsExtranonce, AuthorizedIsEarned
<1>6. QED BY <1>1, <1>3, <1>4, <1>5 DEF IInv

-----------------------------------------------------------------------------
(* What the pool sends.                                                     *)

\* One verdict more, counted (or, the first, not): the counts stay close.
LEMMA CountsStayClose ==
    ASSUME NEW a \in Nat, NEW b \in Nat, NEW t \in Nat, NEW f \in Nat,
           a <= t, b <= f, t + f <= a + b + 1
    PROVE  /\ a + 1 <= t + 1 /\ b + 1 <= f + 1
           /\ (t + 1) + f <= (a + 1) + b + 1 /\ t + (f + 1) <= a + (b + 1) + 1
           /\ a <= t + 1 /\ b <= f + 1
           /\ a = t /\ b = f => (t + 1) + f <= a + b + 1 /\ t + (f + 1) <= a + b + 1
OBVIOUS

LEMMA AnswerIInv ==
    ASSUME IInv, NEW r \in requests, NEW ok \in BOOLEAN, Answer(r, ok)
    PROVE  IInv'
<1>1. /\ conn' = conn /\ conn # NoConn
      /\ requests' = requests \ {r}
      /\ UNCHANGED <<made, nextId, slot, jobs, difficulty, work, hasRealJob>>
      /\ r.kind \in {"subscribe", "authorize", "submit"}
      /\ r.id \in Nat
  BY DEF Answer, IInv, RequestInv, TypeOK
<1>2. /\ r.kind = "subscribe" => r.id = SubscribeId
      /\ r.kind = "authorize" => r.id = AuthorizeId
      /\ r.kind = "submit" => r.id >= AuthorizeId /\ r.id \in Nat
  BY <1>1 DEF IInv, RequestInv, TypeOK
<1>3. HandleResponse(r.id, ok)
  BY DEF Answer
<1>4. poolState' \in [subscribed : BOOLEAN, authorized : BOOLEAN]
  BY <1>1 DEF Answer, IInv, TypeOK
<1>5. verdicts' = IF r.kind = "submit" THEN [verdicts EXCEPT ![ok] = @ + 1] ELSE verdicts
  BY DEF Answer
<1>6. TypeOK'
  <2>1. {authorized', poolConnected', hasRealJob'} \subseteq BOOLEAN
    BY <1>1, <1>3 DEF HandleResponse, Callback, clientVars, mainVars, IInv, TypeOK
  <2>2. verdicts' \in [BOOLEAN -> Nat]
    BY <1>5 DEF IInv, TypeOK
  <2>3. extranonce' \in Conns \cup {NoConn}
    BY <1>3 DEF HandleResponse, Subscribed, clientVars, IInv, TypeOK
  <2>4. accepted' \in Nat /\ rejected' \in Nat /\ owed' \in {{}, {TRUE}, {FALSE}}
    BY <1>3 DEF HandleResponse, Callback, mainVars, IInv, TypeOK
  <2>5. QED BY <1>1, <1>4, <2>1, <2>2, <2>3, <2>4 DEF IInv, TypeOK
<1>7. Submits' = Submits \ {r}
  BY <1>1 DEF Submits
<1>8. RequestInv' /\ IdInv' /\ ShareIdsAreUnique'
  BY <1>1, <1>7 DEF IInv, RequestInv, IdInv, ShareIdsAreUnique
<1>9. CountInv'
  <2> DEFINE a == Counted[TRUE]    b == Counted[FALSE]
             t == verdicts[TRUE]   f == verdicts[FALSE]
             a1 == Counted'[TRUE]  b1 == Counted'[FALSE]
             t1 == verdicts'[TRUE] f1 == verdicts'[FALSE]
  <2>1. /\ a \in Nat /\ b \in Nat /\ t \in Nat /\ f \in Nat
        /\ a <= t /\ b <= f /\ t + f <= a + b + 1
        /\ FirstShareAhead => a = t /\ b = f
    BY CountedType DEF IInv, TypeOK, CountInv
  <2>2. FirstShareAhead' => FirstShareAhead
    BY <1>1, <1>7 DEF FirstShareAhead
  <2>3. CASE r.kind # "submit"
    <3>1. UNCHANGED <<accepted, rejected, owed, poolConnected, verdicts>>
      BY <2>3, <1>1, <1>2, <1>3, <1>5 DEF HandleResponse, mainVars
    <3>2. QED BY <3>1, <2>2, CountInvKept DEF IInv
  <2>4. ASSUME r.kind = "submit"
        PROVE  \/ t1 = t + 1 /\ f1 = f /\ ok = TRUE
               \/ t1 = t /\ f1 = f + 1 /\ ok = FALSE
    <3>1. /\ verdicts' = [verdicts EXCEPT ![ok] = verdicts[ok] + 1]
          /\ verdicts \in [BOOLEAN -> Nat]
      BY <2>4, <1>5 DEF IInv, TypeOK
    <3>2. CASE ok = TRUE
      BY <3>1, <3>2
    <3>3. CASE ok = FALSE
      BY <3>1, <3>3
    <3>4. QED BY <3>2, <3>3
  <2>5. CASE r.kind = "submit" /\ r.id = AuthorizeId
    <3>1. UNCHANGED <<accepted, rejected, owed, poolConnected>>
      BY <2>5, <1>3 DEF HandleResponse, mainVars
    <3>2. a1 = a /\ b1 = b
      BY <3>1 DEF Counted
    <3>3. r \in Submits
      BY <2>5 DEF Submits
    <3>4. FirstShareAhead
      BY <2>5, <3>3 DEF FirstShareAhead
    <3>5. ~FirstShareAhead'
      <4>1. nextId' # 1
        BY <1>1, <2>5 DEF IInv, RequestInv, TypeOK
      <4>2. \A w \in Workers : work[w].at = "submit" => work[w].id # AuthorizeId
        BY <2>5, <3>3 DEF IInv, IdInv
      <4>3. \A s \in Submits' : s.id # AuthorizeId
        BY <1>7, <2>5, <3>3 DEF IInv, ShareIdsAreUnique
      <4>4. QED BY <4>1, <4>2, <4>3, <1>1 DEF FirstShareAhead
    <3>6. a1 <= t1 /\ b1 <= f1 /\ t1 + f1 <= a1 + b1 + 1
      <4>1. (t1 = t + 1 /\ f1 = f) \/ (t1 = t /\ f1 = f + 1)
        BY <2>4, <2>5
      <4> HIDE DEF a, b, t, f, a1, b1, t1, f1
      <4> QED BY <2>1, <3>2, <3>4, <4>1, CountsStayClose
    <3>7. accepted' + rejected' > 0 \/ owed' # {} => poolConnected'
      BY <3>1 DEF IInv, CountInv
    <3>8. QED BY <3>5, <3>6, <3>7 DEF CountInv
  <2>6. CASE r.kind = "submit" /\ r.id # AuthorizeId
    <3>1. Callback(ok)
      BY <2>6, <1>2, <1>3 DEF HandleResponse
    <3>2. Counted'[ok] = Counted[ok] + 1 /\ \A x \in BOOLEAN \ {ok} : Counted'[x] = Counted[x]
      BY <3>1, CallbackCounts DEF Answer, IInv
    <3>3. \/ a1 = a + 1 /\ b1 = b /\ ok = TRUE
          \/ a1 = a /\ b1 = b + 1 /\ ok = FALSE
      <4>1. CASE ok = TRUE
        BY <3>2, <4>1
      <4>2. CASE ok = FALSE
        BY <3>2, <4>2
      <4>3. QED BY <4>1, <4>2
    <3>4. \/ a1 = a + 1 /\ b1 = b /\ t1 = t + 1 /\ f1 = f
          \/ a1 = a /\ b1 = b + 1 /\ t1 = t /\ f1 = f + 1
      BY <2>4, <2>6, <3>3
    <3>5. a1 <= t1 /\ b1 <= f1 /\ t1 + f1 <= a1 + b1 + 1
      <4> HIDE DEF a, b, t, f, a1, b1, t1, f1
      <4> QED BY <2>1, <3>4, CountsStayClose
    <3>6. FirstShareAhead' => a1 = t1 /\ b1 = f1
      <4> HIDE DEF a, b, t, f, a1, b1, t1, f1
      <4> QED BY <2>1, <2>2, <3>4
    <3>7. poolConnected'
      BY <3>1 DEF Callback
    <3>8. QED BY <3>5, <3>6, <3>7 DEF CountInv
  <2>7. QED BY <2>3, <2>5, <2>6
<1>10. ExtranonceInv'
  <2>1. CASE r.kind = "subscribe"
    <3>1. /\ extranonce' = IF ok THEN conn ELSE extranonce
          /\ poolState'.subscribed = ok
      BY <2>1, <1>2, <1>3 DEF Answer, HandleResponse, Subscribed, IInv, TypeOK
    <3>2. QED BY <3>1, <1>1 DEF IInv, ExtranonceInv
  <2>2. CASE r.kind # "subscribe"
    <3>1. extranonce' = extranonce
      BY <2>2, <1>1, <1>2, <1>3 DEF HandleResponse, clientVars
    <3>2. poolState'.subscribed = poolState.subscribed
      BY <2>2, <1>1 DEF Answer, IInv, TypeOK
    <3>3. QED BY <3>1, <3>2, <1>1 DEF IInv, ExtranonceInv
  <2>3. QED BY <2>1, <2>2
<1>11. JobHasItsExtranonce'
  BY <1>1 DEF IInv, JobHasItsExtranonce
<1>12. AuthorizedIsEarned'
  <2>1. verdicts[TRUE] > 0 => verdicts'[TRUE] > 0
    <3> DEFINE n == verdicts[TRUE]  m == verdicts'[TRUE]
    <3>1. m = n \/ m = n + 1
      BY <1>5 DEF IInv, TypeOK
    <3>2. n \in Nat
      BY DEF IInv, TypeOK
    <3> HIDE DEF n, m
    <3>3. n > 0 => m > 0
      BY <3>1, <3>2
    <3>4. QED BY <3>3 DEF n, m
  <2>2. CASE r.id # AuthorizeId
    <3>1. authorized' = authorized
      BY <2>2, <1>3 DEF HandleResponse, clientVars
    <3>2. poolState'.authorized = poolState.authorized
      BY <2>2, <1>2 DEF Answer, IInv, TypeOK
    <3>3. QED BY <3>1, <3>2, <2>1, <1>1 DEF IInv, AuthorizedIsEarned
  <2>3. CASE r.id = AuthorizeId
    <3>1. authorized' = ok
      BY <2>3, <1>3 DEF HandleResponse, SubscribeId, AuthorizeId
    <3>2. CASE r.kind = "authorize"
      <4>1. poolState'.authorized = ok
        BY <3>2 DEF Answer, IInv, TypeOK
      <4>2. QED BY <3>1, <4>1, <1>1 DEF AuthorizedIsEarned
    <3>3. CASE r.kind = "submit"
      <4>1. ok = TRUE => verdicts'[TRUE] = verdicts[TRUE] + 1
        BY <3>3, <1>5 DEF IInv, TypeOK
      <4>2. ok = TRUE => verdicts'[TRUE] > 0
        <5> DEFINE n == verdicts[TRUE]  m == verdicts'[TRUE]
        <5>1. n \in Nat
          BY DEF IInv, TypeOK
        <5>2. ok = TRUE => m = n + 1
          BY <4>1
        <5> HIDE DEF n, m
        <5>3. ok = TRUE => m > 0
          BY <5>1, <5>2
        <5>4. QED BY <5>3 DEF m
      <4>3. ok = TRUE \/ ok = FALSE
        OBVIOUS
      <4>4. QED BY <3>1, <4>2, <4>3, <1>1 DEF AuthorizedIsEarned
    <3>4. QED BY <3>2, <3>3, <2>3, <1>1, <1>2 DEF SubscribeId, AuthorizeId
  <2>4. QED BY <2>2, <2>3
<1>13. QED BY <1>6, <1>8, <1>9, <1>10, <1>11, <1>12 DEF IInv

LEMMA RecordShareIInv ==
    ASSUME IInv, NEW ok \in BOOLEAN, RecordShare(ok)
    PROVE  IInv'
<1>1. UNCHANGED <<conn, made, authorized, extranonce, nextId, requests, slot, jobs, difficulty,
                  work, poolConnected, hasRealJob, poolState, verdicts>>
  BY DEF RecordShare, clientVars
<1>2. accepted' \in Nat /\ rejected' \in Nat /\ owed' = {} /\ owed # {}
  BY DEF RecordShare, IInv, TypeOK
<1>3. TypeOK'
  BY <1>1, <1>2 DEF IInv, TypeOK
<1>4. CountInv'
  <2>1. Counted' = Counted
    BY RecordKeepsCounted DEF IInv
  <2>2. FirstShareAhead' => FirstShareAhead
    BY <1>1 DEF FirstShareAhead, Submits
  <2>3. QED BY <1>1, <1>2, <2>1, <2>2 DEF IInv, CountInv
<1>5. QED BY <1>1, <1>3, <1>4
         DEF IInv, RequestInv, IdInv, Submits, ExtranonceInv, ShareIdsAreUnique,
             JobHasItsExtranonce, AuthorizedIsEarned

LEMMA NotifyIInv ==
    ASSUME IInv, Notify
    PROVE  IInv'
<1>1. /\ slot' \in Jobs /\ jobs' \in 0 .. MaxJobs
      /\ slot'.extranonce = extranonce /\ slot'.conn = conn
      /\ slot'.subscribed = poolState.subscribed /\ conn # NoConn
  BY DEF Notify, Jobs, IInv, TypeOK
<1>2. UNCHANGED <<conn, made, authorized, extranonce, nextId, requests, difficulty,
                  work, accepted, rejected, owed, poolConnected, poolState, verdicts>>
  BY DEF Notify, clientVars, mainVars
<1>3. TypeOK'
  <2>1. hasRealJob' \in BOOLEAN
    BY DEF Notify
  <2>2. QED BY <1>1, <1>2, <2>1 DEF IInv, TypeOK
<1>4. Submits' = Submits
  BY <1>2 DEF Submits
<1>5. RequestInv' /\ IdInv' /\ ShareIdsAreUnique'
  BY <1>2, <1>4 DEF IInv, RequestInv, IdInv, ShareIdsAreUnique
<1>9. CountInv'
  <2>1. FirstShareAhead' => FirstShareAhead
    BY <1>2, <1>4 DEF FirstShareAhead
  <2>2. QED BY <1>2, <2>1, CountInvKept DEF IInv
<1>6. ExtranonceInv'
  BY <1>1, <1>2 DEF Notify, IInv, ExtranonceInv
<1>7. JobHasItsExtranonce' /\ AuthorizedIsEarned'
  BY <1>2 DEF IInv, JobHasItsExtranonce, AuthorizedIsEarned
<1>8. QED BY <1>3, <1>5, <1>6, <1>7, <1>9 DEF IInv

LEMMA SetDifficultyIInv ==
    ASSUME IInv, NEW d \in Diffs, SetDifficulty(d)
    PROVE  IInv'
<1>1. UNCHANGED <<conn, made, authorized, extranonce, nextId, requests, slot, jobs,
                  work, accepted, rejected, owed, poolConnected, hasRealJob, poolState, verdicts>>
  BY DEF SetDifficulty, clientVars, mainVars
<1>2. TypeOK'
  BY <1>1 DEF SetDifficulty, IInv, TypeOK
<1>3. CountInv'
  <2>1. FirstShareAhead' => FirstShareAhead
    BY <1>1 DEF FirstShareAhead, Submits
  <2>2. QED BY <1>1, <2>1, CountInvKept DEF IInv
<1>4. QED BY <1>1, <1>2, <1>3
         DEF IInv, RequestInv, IdInv, Submits, ExtranonceInv, ShareIdsAreUnique,
             JobHasItsExtranonce, AuthorizedIsEarned

-----------------------------------------------------------------------------
(* The workers.                                                             *)

\* The steps of a worker that concern neither ids nor requests.
LEMMA MineIInv ==
    ASSUME IInv, NEW w \in Workers, FetchJob(w) \/ ReadThreshold(w) \/ EndBatch(w)
    PROVE  IInv'
<1>1. UNCHANGED <<conn, made, authorized, extranonce, nextId, requests, slot, jobs, difficulty,
                  accepted, rejected, owed, poolConnected, hasRealJob, poolState, verdicts>>
  BY DEF FetchJob, ReadThreshold, EndBatch, clientVars, mainVars
<1>2. /\ work' \in [Workers -> [at : {"fetch", "threshold", "batch", "submit"},
                                share : Shares, id : Ids \cup {0}]]
      /\ work'[w].at # "submit" /\ work[w].at # "submit"
      /\ work'[w].share.job \in {work[w].share.job, slot}
      /\ \A v \in Workers : v # w => work'[v] = work[v]
  <2> DEFINE At    == {"fetch", "threshold", "batch", "submit"}
             Works == [at : At, share : Shares, id : Ids \cup {0}]
  <2>a. work \in [Workers -> Works] /\ slot \in Jobs /\ difficulty \in Diffs \cup {Standby}
    BY DEF IInv, TypeOK
  <2>b. work[w] \in Works
    BY <2>a
  <2>c. /\ work[w].share \in [job : Jobs, diff : Diffs \cup {Standby}]
        /\ work[w].id \in Ids \cup {0}
    BY <2>b DEF Shares
  <2>1. CASE FetchJob(w)
    <3> DEFINE s == [work[w].share EXCEPT !.job = slot]
               v == [work[w] EXCEPT !.at = "threshold", !.share = s]
    <3>1. work' = [work EXCEPT ![w] = v] /\ work[w].at = "fetch"
      BY <2>1 DEF FetchJob
    <3>2. s \in Shares /\ s.job = slot
      BY <2>a, <2>c DEF Shares
    <3>3. v \in Works /\ v.at = "threshold" /\ v.share = s
      <4> HIDE DEF s
      <4> QED BY <2>b, <3>2
    <3> HIDE DEF Works, v, s
    <3>4. /\ work'[w] = v /\ work' \in [Workers -> Works]
          /\ \A u \in Workers : u # w => work'[u] = work[u]
      BY <2>a, <3>1, <3>3
    <3>5. QED BY <3>1, <3>2, <3>3, <3>4 DEF Works
  <2>2. CASE ReadThreshold(w)
    <3> DEFINE s == [work[w].share EXCEPT !.diff = difficulty]
               v == [work[w] EXCEPT !.at = "batch", !.share = s]
    <3>1. work' = [work EXCEPT ![w] = v] /\ work[w].at = "threshold"
      BY <2>2 DEF ReadThreshold
    <3>2. s \in Shares /\ s.job = work[w].share.job
      BY <2>a, <2>c DEF Shares
    <3>3. v \in Works /\ v.at = "batch" /\ v.share = s
      <4> HIDE DEF s
      <4> QED BY <2>b, <3>2
    <3> HIDE DEF Works, v, s
    <3>4. /\ work'[w] = v /\ work' \in [Workers -> Works]
          /\ \A u \in Workers : u # w => work'[u] = work[u]
      BY <2>a, <3>1, <3>3
    <3>5. QED BY <3>1, <3>2, <3>3, <3>4 DEF Works
  <2>3. CASE EndBatch(w)
    BY <2>3 DEF EndBatch, IInv, TypeOK
  <2>4. QED BY <2>1, <2>2, <2>3
<1>3. TypeOK'
  BY <1>1, <1>2 DEF IInv, TypeOK
<1>4. Submits' = Submits
  BY <1>1 DEF Submits
<1>5. RequestInv' /\ ShareIdsAreUnique' /\ ExtranonceInv' /\ AuthorizedIsEarned'
  BY <1>1, <1>4 DEF IInv, RequestInv, ShareIdsAreUnique, ExtranonceInv,
                    AuthorizedIsEarned
<1>6. IdInv'
  BY <1>1, <1>2, <1>4 DEF IInv, IdInv
<1>7. CountInv'
  <2>1. FirstShareAhead' => FirstShareAhead
    BY <1>1, <1>2, <1>4 DEF FirstShareAhead
  <2>2. QED BY <1>1, <2>1, CountInvKept DEF IInv
<1>8. JobHasItsExtranonce'
  BY <1>2 DEF IInv, JobHasItsExtranonce, ExtranonceInv
<1>9. QED BY <1>3, <1>5, <1>6, <1>7, <1>8 DEF IInv

LEMMA TakeIdIInv ==
    ASSUME IInv, NEW w \in Workers, TakeId(w)
    PROVE  IInv'
<1>1. UNCHANGED <<conn, made, authorized, extranonce, requests, slot, jobs, difficulty,
                  accepted, rejected, owed, poolConnected, hasRealJob, poolState, verdicts>>
  BY DEF TakeId, clientVars, mainVars
<1>2. /\ nextId \in Nat /\ nextId >= 1 /\ nextId <= MaxShares /\ nextId' = nextId + 1
      /\ work' \in [Workers -> [at : {"fetch", "threshold", "batch", "submit"},
                                share : Shares, id : Ids \cup {0}]]
      /\ work[w].at = "batch"
      /\ work'[w].id = nextId + 1 /\ work'[w].at = "submit"
      /\ work'[w].share = work[w].share
      /\ \A v \in Workers : v # w => work'[v] = work[v]
  <2>1. /\ work' = [work EXCEPT ![w].at = "submit", ![w].id = nextId + 1]
        /\ work[w].at = "batch" /\ nextId <= MaxShares /\ nextId' = nextId + 1
    BY DEF TakeId
  <2>2. nextId \in Ids /\ work \in [Workers -> [at : {"fetch", "threshold", "batch", "submit"},
                                             share : Shares, id : Ids \cup {0}]]
    BY DEF IInv, TypeOK
  <2>3. nextId \in Nat /\ nextId >= 1 /\ nextId + 1 \in Ids
    BY <2>1, <2>2, BoundsAssumption DEF Ids
  <2> DEFINE n == nextId + 1
  <2> HIDE DEF n
  <2>4. n \in Ids /\ work' = [work EXCEPT ![w].at = "submit", ![w].id = n]
    BY <2>1, <2>3 DEF n
  <2>5. /\ work' \in [Workers -> [at : {"fetch", "threshold", "batch", "submit"},
                                 share : Shares, id : Ids \cup {0}]]
        /\ work'[w].id = n /\ work'[w].at = "submit"
        /\ work'[w].share = work[w].share
        /\ \A v \in Workers : v # w => work'[v] = work[v]
    BY <2>2, <2>4
  <2>6. QED BY <2>1, <2>3, <2>5 DEF n
<1>3. TypeOK'
  <2>1. nextId' \in Ids
    BY <1>2, BoundsAssumption DEF Ids
  <2> DEFINE Works == [at : {"fetch", "threshold", "batch", "submit"}, share : Shares,
                       id : Ids \cup {0}]
  <2>2. work' \in [Workers -> Works]
    BY <1>2
  <2> HIDE DEF Works
  <2>3. QED BY <1>1, <2>1, <2>2 DEF IInv, TypeOK, Works
<1>4. Submits' = Submits /\ \A r \in Submits : r.id \in AuthorizeId .. nextId
  BY <1>1 DEF Submits, IInv, RequestInv
<1>5. RequestInv'
  BY <1>1, <1>2 DEF IInv, RequestInv
<1>6. IdInv'
  BY <1>1, <1>2, <1>4 DEF IInv, IdInv
<1>7. CountInv'
  <2>1. FirstShareAhead' => FirstShareAhead
    BY <1>1, <1>2, <1>4 DEF FirstShareAhead
  <2>2. QED BY <1>1, <2>1, CountInvKept DEF IInv
<1>8. ShareIdsAreUnique' /\ ExtranonceInv' /\ AuthorizedIsEarned'
  BY <1>1, <1>4 DEF IInv, ShareIdsAreUnique, ExtranonceInv, AuthorizedIsEarned
<1>9. JobHasItsExtranonce'
  BY <1>2 DEF IInv, JobHasItsExtranonce
<1>10. QED BY <1>3, <1>5, <1>6, <1>7, <1>8, <1>9 DEF IInv

LEMMA SubmitIInv ==
    ASSUME IInv, NEW w \in Workers, Submit(w)
    PROVE  IInv'
<1> DEFINE q == Request(work[w].id, "submit", work[w].share)
<1>1. UNCHANGED <<conn, made, authorized, extranonce, nextId, slot, jobs, difficulty,
                  accepted, rejected, owed, poolConnected, hasRealJob, poolState, verdicts>>
  BY DEF Submit, clientVars, mainVars
<1>2. /\ work' \in [Workers -> [at : {"fetch", "threshold", "batch", "submit"},
                                share : Shares, id : Ids \cup {0}]]
      /\ work[w].at = "submit" /\ work'[w].at = "batch"
      /\ work'[w].share = work[w].share
      /\ \A v \in Workers : v # w => work'[v] = work[v]
  BY DEF Submit, IInv, TypeOK
<1>3. requests' = IF conn = NoConn THEN requests ELSE requests \cup {q}
  BY DEF Submit
<1>4. /\ q.id = work[w].id /\ q.kind = "submit" /\ q.share = work[w].share
      /\ q.id \in AuthorizeId .. nextId
      /\ \A r \in Submits : r.id # q.id
  BY <1>2 DEF Request, IInv, IdInv
<1>5. q \in [id : Ids \cup {SubscribeId, AuthorizeId},
             kind : {"subscribe", "authorize", "submit"}, share : Shares]
  <2>1. work[w].id \in Ids /\ work[w].share \in Shares
    BY <1>2 DEF IInv, IdInv, TypeOK
  <2>2. QED BY <2>1 DEF Request
<1> HIDE DEF q
<1>6. TypeOK'
  BY <1>1, <1>2, <1>3, <1>5 DEF IInv, TypeOK
<1>7. Submits' = IF conn = NoConn THEN Submits ELSE Submits \cup {q}
  BY <1>3, <1>4 DEF Submits
<1>8. RequestInv'
  BY <1>1, <1>3, <1>4 DEF IInv, RequestInv
<1>9. ShareIdsAreUnique'
  BY <1>4, <1>7 DEF IInv, ShareIdsAreUnique
<1>10. IdInv'
  BY <1>1, <1>2, <1>4, <1>7 DEF IInv, IdInv
<1>11. CountInv'
  <2>1. FirstShareAhead' => FirstShareAhead
    BY <1>1, <1>2, <1>4, <1>7 DEF FirstShareAhead
  <2>2. QED BY <1>1, <2>1, CountInvKept DEF IInv
<1>12. ExtranonceInv' /\ AuthorizedIsEarned' /\ JobHasItsExtranonce'
  BY <1>1, <1>2 DEF IInv, ExtranonceInv, AuthorizedIsEarned, JobHasItsExtranonce
<1>13. QED BY <1>6, <1>8, <1>9, <1>10, <1>11, <1>12 DEF IInv

-----------------------------------------------------------------------------
LEMMA NextIInv == IInv /\ [Next]_vars => IInv'
<1> SUFFICES ASSUME IInv, [Next]_vars PROVE IInv'
  OBVIOUS
<1>1. CASE Next
  BY <1>1, ConnectIInv, DisconnectIInv, AnswerIInv, RecordShareIInv, NotifyIInv,
     SetDifficultyIInv, MineIInv, TakeIdIInv, SubmitIInv
     DEF Next
<1>2. CASE UNCHANGED vars
  <2>1. UNCHANGED <<conn, made, authorized, extranonce, nextId, requests, slot, jobs, difficulty,
                    work, accepted, rejected, owed, poolConnected, hasRealJob, poolState, verdicts>>
    BY <1>2 DEF vars, clientVars, mainVars
  <2>2. TypeOK'
    BY <2>1 DEF IInv, TypeOK
  <2>3. CountInv'
    <3>1. FirstShareAhead' => FirstShareAhead
      BY <2>1 DEF FirstShareAhead, Submits
    <3>2. QED BY <2>1, <3>1, CountInvKept DEF IInv
  <2>4. QED BY <2>1, <2>2, <2>3
           DEF IInv, RequestInv, IdInv, Submits, ExtranonceInv, ShareIdsAreUnique,
               JobHasItsExtranonce, AuthorizedIsEarned
<1>3. QED BY <1>1, <1>2

LEMMA Invariance == Spec => []IInv
BY InitIInv, NextIInv, PTL DEF Spec

\* Every behaviour is well typed.
THEOREM TypeCorrect == Spec => []TypeOK
<1>1. IInv => TypeOK  BY DEF IInv
<1>2. QED BY <1>1, Invariance, PTL

\* No two shares on the wire ever have the same id, however many workers
\* submit and however often the client reconnects.
THEOREM UniqueShareIds == Spec => []ShareIdsAreUnique
<1>1. IInv => ShareIdsAreUnique  BY DEF IInv
<1>2. QED BY <1>1, Invariance, PTL

\* The share counters never exceed the pool's verdicts, lack at most the one of the
\* first share when no callback runs, and are 0 as long as main() takes the pool for
\* disconnected.
THEOREM CountsCorrect == Spec => []CountsAreVerdicts
<1>1. IInv => CountsAreVerdicts
  <2> SUFFICES ASSUME IInv PROVE CountsAreVerdicts
    OBVIOUS
  <2> DEFINE a == Counted[TRUE]   b == Counted[FALSE]
             t == verdicts[TRUE]  f == verdicts[FALSE]
  <2>1. /\ a \in Nat /\ b \in Nat /\ t \in Nat /\ f \in Nat
        /\ accepted \in Nat /\ rejected \in Nat
        /\ accepted <= a /\ rejected <= b
        /\ owed = {} => a = accepted /\ b = rejected
    BY CountedType DEF IInv, TypeOK
  <2>2. a <= t /\ b <= f /\ t + f <= a + b + 1
    BY DEF IInv, CountInv
  <2>3. /\ accepted <= t /\ rejected <= f
        /\ owed = {} => t + f <= accepted + rejected + 1
    <3> HIDE DEF a, b, t, f
    <3> QED BY <2>1, <2>2
  <2>4. QED BY <2>3 DEF CountsAreVerdicts, IInv, CountInv
<1>2. QED BY <1>1, Invariance, PTL

\* No worker ever mines a job with the extranonce of another connection, if the client
\* had one of the job's own when it was announced.
THEOREM ExtranonceCorrect == Spec => []JobHasItsExtranonce
<1>1. IInv => JobHasItsExtranonce  BY DEF IInv
<1>2. QED BY <1>1, Invariance, PTL

\* The client is never authorized without a connection, nor on the word of an
\* earlier one.
THEOREM AuthorizedEarned == Spec => []AuthorizedIsEarned
<1>1. IInv => AuthorizedIsEarned  BY DEF IInv
<1>2. QED BY <1>1, Invariance, PTL

-----------------------------------------------------------------------------
(* The ledger of the shares.                                                *)

\* A worker that does not come to submit, or to have submitted, leaves the
\* numbered shares as they are.
LEMMA HandKept ==
    ASSUME NEW w \in Workers, \A v \in Workers \ {w} : work'[v] = work[v],
           work[w].at # "submit", work'[w].at # "submit"
    PROVE  Hand' = Hand
<1>1. \A v \in Workers : work'[v].at = "submit" <=> work[v].at = "submit"
  OBVIOUS
<1>2. \A v \in Workers : work[v].at = "submit" => work'[v] = work[v]
  OBVIOUS
<1>3. QED BY <1>1, <1>2 DEF Hand

\* An answer to a share is a verdict, and it is counted if the share's id is its
\* own; other answers are none.
LEMMA AnswerInLedger ==
    ASSUME IInv, NEW r \in requests, NEW ok \in BOOLEAN, Answer(r, ok)
    PROVE  [Ledger!LedgerNext]_(Ledger!ledger)
<1>1. UNCHANGED <<nextId, work>> /\ requests' = requests \ {r} /\ HandleResponse(r.id, ok)
  BY DEF Answer
<1>2. /\ r.kind \in {"subscribe", "authorize", "submit"}
      /\ r.kind = "subscribe" => r.id = SubscribeId
      /\ r.kind = "authorize" => r.id = AuthorizeId
      /\ r.kind = "submit" => r.id \in AuthorizeId .. nextId
  BY DEF IInv, TypeOK, RequestInv
<1>3. nextId \in Nat /\ owed = {} /\ TypeOK
  BY DEF IInv, TypeOK, Answer
<1>4. Hand' = Hand /\ Submits' = Submits \ {r}
  BY <1>1 DEF Hand, Submits
<1>5. CASE r.kind # "submit"
  <2>1. Flight' = Flight /\ verdicts' = verdicts
    BY <1>4, <1>5 DEF Flight, Submits, Answer
  <2>2. UNCHANGED <<accepted, rejected, owed>>
    BY <1>1, <1>2, <1>5 DEF HandleResponse, mainVars
  <2>3. Counted' = Counted
    BY <2>2 DEF Counted
  <2>4. QED BY <1>1, <1>4, <2>1, <2>3 DEF Ledger!ledger
<1>6. CASE r.kind = "submit"
  <2>1. r \in Submits /\ r.id \in Flight
    BY <1>6 DEF Submits, Flight
  <2>2. Flight' = Flight \ {r.id}
    <3>1. \A s \in Submits : s.id = r.id => s = r
      BY <2>1 DEF IInv, ShareIdsAreUnique
    <3>2. QED BY <1>4, <3>1 DEF Flight
  <2>3. verdicts' = [verdicts EXCEPT ![ok] = @ + 1]
    BY <1>6 DEF Answer
  <2>4. Counted' = IF r.id = Ledger!First THEN Counted ELSE [Counted EXCEPT ![ok] = @ + 1]
    <3>1. CASE r.id = AuthorizeId
      <4>1. UNCHANGED <<accepted, rejected, owed>>
        BY <1>1, <3>1 DEF HandleResponse, mainVars
      <4>2. QED BY <3>1, <4>1 DEF Counted, Ledger!First
    <3>2. CASE r.id # AuthorizeId
      <4>1. r.id # SubscribeId
        BY <1>2, <1>3, <1>6
      <4>2. Callback(ok)
        BY <1>1, <3>2, <4>1 DEF HandleResponse
      <4>3. Counted' = [Counted EXCEPT ![ok] = @ + 1]
        BY <1>3, <4>2, CallbackCounts
      <4>4. QED BY <3>2, <4>3 DEF Ledger!First
    <3>3. QED BY <3>1, <3>2
  <2>5. Ledger!Judge(r.id, ok)
    BY <1>1, <1>4, <2>1, <2>2, <2>3, <2>4 DEF Ledger!Judge
  <2>6. QED BY <2>1, <2>5 DEF Ledger!LedgerNext
<1>7. QED BY <1>2, <1>5, <1>6

\* Taking an id numbers a share, ...
LEMMA TakeIdInLedger ==
    ASSUME IInv, NEW w \in Workers, TakeId(w)
    PROVE  Ledger!Find
<1>1. /\ nextId <= MaxShares /\ nextId' = nextId + 1
      /\ UNCHANGED <<requests, verdicts, accepted, rejected, owed>>
  BY DEF TakeId, mainVars
<1>2. /\ work[w].at # "submit"
      /\ work'[w].at = "submit" /\ work'[w].id = nextId + 1
      /\ \A v \in Workers \ {w} : work'[v] = work[v]
  BY DEF TakeId, IInv, TypeOK
<1>3. Hand' = Hand \cup {nextId + 1}
  <2>1. {v \in Workers : work'[v].at = "submit"} =
           {v \in Workers : work[v].at = "submit"} \cup {w}
    BY <1>2
  <2>2. \A v \in Workers : work[v].at = "submit" => work'[v].id = work[v].id
    BY <1>2
  <2>3. QED BY <1>2, <2>1, <2>2 DEF Hand
<1>4. Flight' = Flight /\ Counted' = Counted
  BY <1>1 DEF Flight, Submits, Counted
<1>5. QED BY <1>1, <1>3, <1>4 DEF Ledger!Find

\* ... and submitting sends it once, or drops it.
LEMMA SubmitInLedger ==
    ASSUME IInv, NEW w \in Workers, Submit(w)
    PROVE  Ledger!LedgerNext
<1> DEFINE n == work[w].id
           q == Request(n, "submit", work[w].share)
<1>1. UNCHANGED <<nextId, verdicts, accepted, rejected, owed>> /\ work[w].at = "submit"
  BY DEF Submit, mainVars
<1>2. work'[w].at # "submit" /\ \A v \in Workers \ {w} : work'[v] = work[v]
  BY DEF Submit, IInv, TypeOK
<1>3. n \in Hand
  BY <1>1 DEF Hand
<1>4. Hand' = Hand \ {n}
  <2>1. \A v \in Workers : work[v].at = "submit" /\ work[v].id = n => v = w
    BY <1>1 DEF IInv, IdInv
  <2>2. \A v \in Workers : work'[v].at = "submit" <=> work[v].at = "submit" /\ v # w
    BY <1>2
  <2>3. \A v \in Workers : v # w => work'[v].id = work[v].id
    BY <1>2
  <2>4. QED BY <1>1, <2>1, <2>2, <2>3 DEF Hand
<1>5. Counted' = Counted
  BY <1>1 DEF Counted
<1>6. CASE conn = NoConn
  <2>1. Flight' = Flight
    BY <1>6 DEF Submit, Flight, Submits
  <2>2. Ledger!Drop(n)
    BY <1>1, <1>3, <1>4, <1>5, <2>1 DEF Ledger!Drop
  <2>3. QED BY <1>3, <2>2 DEF Ledger!LedgerNext
<1>7. CASE conn # NoConn
  <2>1. requests' = requests \cup {q} /\ q.kind = "submit" /\ q.id = n
    BY <1>7 DEF Submit, Request
  <2> HIDE DEF q
  <2>2. Submits' = Submits \cup {q}
    BY <2>1 DEF Submits
  <2>3. Flight' = Flight \cup {n}
    BY <2>1, <2>2 DEF Flight
  <2>4. Ledger!Send(n)
    BY <1>1, <1>3, <1>4, <1>5, <2>3 DEF Ledger!Send
  <2>5. QED BY <1>3, <2>4 DEF Ledger!LedgerNext
<1>8. QED BY <1>6, <1>7

\* Recording a verdict that is counted already changes nothing in the ledger.
LEMMA RecordShareInLedger ==
    ASSUME IInv, NEW ok \in BOOLEAN, RecordShare(ok)
    PROVE  UNCHANGED Ledger!ledger
<1>1. UNCHANGED <<nextId, verdicts, work, requests>>
  BY DEF RecordShare
<1>2. Counted' = Counted
  BY RecordKeepsCounted DEF IInv
<1>3. QED BY <1>1, <1>2 DEF Hand, Flight, Submits, Ledger!ledger

\* A lost connection takes the shares on the wire with it; nothing else touches
\* the shares.
LEMMA OtherStepsInLedger ==
    ASSUME IInv,
           \/ Connect \/ Disconnect
           \/ Notify
           \/ \E d \in Diffs : SetDifficulty(d)
           \/ \E w \in Workers : FetchJob(w) \/ ReadThreshold(w) \/ EndBatch(w)
           \/ UNCHANGED vars
    PROVE  [Ledger!LedgerNext]_(Ledger!ledger)
<1>1. UNCHANGED <<nextId, verdicts, accepted, rejected, owed>>
  BY DEF Connect, Disconnect, Notify, SetDifficulty, FetchJob, ReadThreshold, EndBatch, vars,
         mainVars
<1>2. Counted' = Counted
  BY <1>1 DEF Counted
<1>3. Hand' = Hand
  <2>1. ASSUME NEW w \in Workers, FetchJob(w) \/ ReadThreshold(w) \/ EndBatch(w)
        PROVE  Hand' = Hand
    <3>1. /\ work[w].at # "submit" /\ work'[w].at # "submit"
          /\ \A v \in Workers \ {w} : work'[v] = work[v]
      BY <2>1 DEF FetchJob, ReadThreshold, EndBatch, IInv, TypeOK
    <3>2. QED BY <3>1, HandKept
  <2>2. ASSUME UNCHANGED work PROVE Hand' = Hand
    BY <2>2 DEF Hand
  <2>3. QED BY <2>1, <2>2 DEF Connect, Disconnect, Notify, SetDifficulty, vars
<1>4. Flight' = Flight \/ Flight' = {}
  <2>1. CASE Connect \/ Disconnect
    BY <2>1 DEF Connect, Disconnect, Flight, Submits, Request
  <2>2. CASE ~(Connect \/ Disconnect)
    <3>1. requests' = requests
      BY <2>2 DEF Notify, SetDifficulty, FetchJob, ReadThreshold, EndBatch, vars
    <3>2. QED BY <3>1 DEF Flight, Submits
  <2>3. QED BY <2>1, <2>2
<1>5. QED BY <1>1, <1>2, <1>3, <1>4 DEF Ledger!LedgerNext, Ledger!Lose, Ledger!ledger

\* The miner and the pool keep the ledger: a share has a number of its own, goes
\* out once at most and is judged once at most, and its verdict is counted once
\* unless it is the first one (StratumClient.cpp:238-254, 353-409).
THEOREM Refinement == Spec => ImplementsLedger
<1>1. Init => Ledger!LedgerInit
  <2> SUFFICES ASSUME Init PROVE Ledger!LedgerInit
    OBVIOUS
  <2>1. Hand = {} /\ Flight = {}
    BY DEF Init, Hand, Flight, Submits
  <2>2. Counted = [ok \in BOOLEAN |-> 0]
    BY DEF Init, Counted
  <2>3. QED BY <2>1, <2>2 DEF Init, Ledger!LedgerInit, Ledger!First
<1>2. IInv /\ [Next]_vars => [Ledger!LedgerNext]_(Ledger!ledger)
  <2> SUFFICES ASSUME IInv, [Next]_vars PROVE [Ledger!LedgerNext]_(Ledger!ledger)
    OBVIOUS
  <2>1. ASSUME NEW w \in Workers, TakeId(w) PROVE Ledger!LedgerNext
    BY <2>1, TakeIdInLedger DEF Ledger!LedgerNext
  <2>2. ASSUME NEW w \in Workers, Submit(w) PROVE Ledger!LedgerNext
    BY <2>2, SubmitInLedger
  <2>3. ASSUME NEW r \in requests, NEW ok \in BOOLEAN, Answer(r, ok)
        PROVE  [Ledger!LedgerNext]_(Ledger!ledger)
    BY <2>3, AnswerInLedger
  <2>4. ASSUME NEW ok \in BOOLEAN, RecordShare(ok) PROVE UNCHANGED Ledger!ledger
    BY <2>4, RecordShareInLedger
  <2>5. QED BY <2>1, <2>2, <2>3, <2>4, OtherStepsInLedger DEF Next
<1>3. QED BY <1>1, <1>2, Invariance, PTL DEF Spec, ImplementsLedger, Ledger!LedgerSpec
=============================================================================
