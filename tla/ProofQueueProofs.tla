-------------------------- MODULE ProofQueueProofs --------------------------
(***************************************************************************)
(* Theorems about a proof request and its claims, for any number of        *)
(* workers, claims, inserts, submissions and calls left running, and for   *)
(* every setting of the retry budgets.                                     *)
(***************************************************************************)
EXTENDS ProofQueue, FiniteSetTheorems, WellFoundedInduction, TLAPS

(* The heads a request, a proof or a cluster request can have. *)
Heads == Bound.heads \cup {NoHead}

(* The claim `lock` holds the job, and its lease is live: Classify authorises it. *)
Authorised(lock) == row.job = "CLAIMED" /\ row.lock = lock /\ row.lease = "live"

(* The rows over a set of heads. *)
Rows(heads) ==
  [job : {"ABSENT", "PENDING", "CLAIMED", "SUCCEEDED", "FAILED"}, lock : Nat,
   lease : {"none", "live", "over"}, attempt : Nat, retries : Nat, cancelled : BOOLEAN,
   head : heads, result : heads, by : Nat]

(* The row: the lock is one that was issued, a claim that is live counted as an
   attempt, a queued job has an attempt left, and only a stored proof has an author. *)
RowInv ==
  /\ row \in Rows(Heads)
  /\ claims \in Nat /\ row.lock <= claims
  /\ row.job # "CLAIMED" => row.lease = "none" \/ Ended(row)
  /\ row.job = "CLAIMED" /\ row.lease = "live" => row.attempt >= 1
  /\ row.attempt <= MaxAttempts /\ row.retries <= MaxRetries
  /\ row.job = "PENDING" => row.attempt < MaxAttempts
  /\ row.by # 0 => row.job = "SUCCEEDED" /\ row.lock = row.by

(* The cluster's requests of a stage are made one after the other, each when all
   before it have failed; a recorded session is one of them. *)
ClusterInv ==
  /\ cluster \in Seq(Seq([st : {"pending", "done", "failed"}, head : Heads]))
  /\ sess \in [1 .. Stages -> [id : Nat, st : {"none", "submitting", "running"},
                               ended : SUBSET (1 .. MaxSubmits)]]
  /\ \A k \in 1 .. Stages :
       /\ Len(cluster[k]) <= MaxSubmits
       /\ \A i \in 1 .. (Len(cluster[k]) - 1) : cluster[k][i].st = "failed"
       /\ sess[k].id <= Len(cluster[k])
       /\ sess[k].st # "none" => sess[k].id >= 1

(* Where a worker's generator is busy with a stage, and with a request of it. *)
Staged == {"get", "submit", "create", "record", "poll", "mark", "stop"}
Posted == {"record", "poll", "mark"}

(* What a generator g works on exists among the cluster's requests c, and the request
   it is about to create comes after requests that have failed. *)
Placed(g, c) ==
  /\ g.pc \in Staged => g.stage \in 1 .. Len(c)
  /\ g.pc \in Posted => g.id \in 1 .. Len(c[g.stage])
  /\ g.pc = "create" =>
       /\ g.id \in 1 .. MaxSubmits
       /\ \A j \in 1 .. (g.id - 1) : j <= Len(c[g.stage]) /\ c[g.stage][j].st = "failed"

(* The states of a generator. *)
Generators ==
  [pc : {"idle", "prove", "proved", "abandon"} \cup Staged, lock : Nat, head : Heads,
   stage : Nat, id : Nat, proof : Heads, beats : BOOLEAN]

(* The workers: one that is not idle has a claim. *)
WorkersInv ==
  /\ worker \in [Workers -> Generators]
  /\ \A w \in Workers :
       /\ worker[w].pc = "idle" <=> worker[w] = Idle
       /\ worker[w].pc # "idle" => worker[w].lock \in 1 .. claims
       /\ Placed(worker[w], cluster)

(* The states of a submission. *)
Submissions ==
  [lock : Nat, proof : Heads, cur : Calling \cup {"accepted", "rejected", "dead"},
   old : Calling \cup {"none"}]

(* A claim is in one hand: one worker or one submission has it, and a worker that
   has it has not submitted a proof for it. *)
HandsInv ==
  /\ subs \subseteq Submissions
  /\ \A s \in subs : s.lock \in 1 .. claims
  /\ \A s, t \in subs : s.lock = t.lock => s = t
  /\ \A v, w \in Workers : worker[w].pc # "idle" /\ worker[v].lock = worker[w].lock => v = w
  /\ \A w \in Workers : worker[w].pc # "idle" =>
       /\ row.by # worker[w].lock
       /\ \A s \in subs : s.lock # worker[w].lock

(* A submission that was refused, or whose update missed, has lost its claim for
   good; the stored proof is that of the submission with the lock. *)
AnswersInv ==
  \A s \in subs :
    /\ s.cur \in {"reread", "rejected"} => ~Authorised(s.lock)
    /\ s.cur = "rejected" => row.by # s.lock
    /\ row.by = s.lock => row.result = s.proof

(* A TEE proof is for the head of the request as long as its claim holds the job. *)
HeadsInv ==
  Stages = 0 =>
    /\ \A w \in Workers : worker[w].pc # "idle" =>
         /\ Authorised(worker[w].lock) => worker[w].head = row.head
         /\ worker[w].pc = "proved" => worker[w].proof = worker[w].head
    /\ \A s \in subs : Authorised(s.lock) => s.proof = row.head
    /\ row.job = "SUCCEEDED" => row.result = row.head

(* Neither an absent request nor one that has not been claimed has a session. *)
SessionsInv ==
  row.job = "ABSENT" \/ (row.job = "PENDING" /\ row.attempt = 0)
    => \A k \in 1 .. Stages : sess[k].st = "none"

(* The inductive invariant. *)
QueueInv ==
  RowInv /\ ClusterInv /\ WorkersInv /\ HandsInv /\ AnswersInv /\ HeadsInv /\ SessionsInv


-----------------------------------------------------------------------------
(* The rows that the requester and the migration make. *)
LEMMA RowsMade ==
    ASSUME NEW heads, NoHead \in heads, NEW h \in heads
    PROVE  /\ NoRow \in Rows(heads) /\ Queued(h) \in Rows(heads) /\ Parked(h) \in Rows(heads)
           /\ Queued(h).job = "PENDING" /\ Parked(h).job = "CLAIMED"
           /\ Queued(h).lock = 0 /\ Queued(h).lease = "none" /\ Queued(h).attempt = 0
           /\ Queued(h).retries = 0 /\ ~Queued(h).cancelled /\ Queued(h).by = 0
           /\ Parked(h).lock = 0 /\ Parked(h).lease = "none" /\ Parked(h).attempt = 0
           /\ Parked(h).retries = 0 /\ Parked(h).by = 0
  <1>1. NoRow \in Rows(heads)
    BY DEF NoRow, Rows
  <1>2. Queued(h) \in Rows(heads)
    BY <1>1, Zenon DEF Queued, Rows
  <1>3. Parked(h) \in Rows(heads)
    BY <1>2 DEF Parked, Rows
  <1>4. /\ Queued(h).job = "PENDING" /\ Queued(h).lock = 0 /\ Queued(h).lease = "none"
        /\ Queued(h).attempt = 0 /\ Queued(h).retries = 0 /\ ~Queued(h).cancelled
        /\ Queued(h).by = 0
    BY <1>1 DEF Queued, NoRow, Rows
  <1> QED
    BY <1>1, <1>2, <1>3, <1>4 DEF Parked, Rows

(* What the statements of the repository make of a row. *)
LEMMA RowsChanged ==
    ASSUME NEW heads, NEW r \in Rows(heads), NEW h \in heads, NEW lock \in Nat, NoHead \in heads
    PROVE  /\ Requeue(r, h) \in Rows(heads) /\ Cancel(r) \in Rows(heads)
           /\ Claim(r, lock) \in Rows(heads) /\ Abandon(r) \in Rows(heads)
           /\ Complete(r, lock, h) \in Rows(heads) /\ Reap(r) \in Rows(heads)
           /\ Unlocked([r EXCEPT !.job = "FAILED"]) \in Rows(heads)
           /\ [r EXCEPT !.lease = "over"] \in Rows(heads)
  <1>1. r.retries + 1 \in Nat /\ r.attempt + 1 \in Nat
    BY DEF Rows
  <1>2. Requeue(r, h) \in Rows(heads)
    BY <1>1, RowsMade DEF Requeue, Rows
  <1>3. Cancel(r) \in Rows(heads)
    BY Zenon DEF Cancel, Unlocked, Rows
  <1>4. Claim(r, lock) \in Rows(heads)
    BY <1>1, Zenon DEF Claim, Rows
  <1>5. Abandon(r) \in Rows(heads)
    BY Zenon DEF Abandon, Unlocked, Rows
  <1>6. Complete(r, lock, h) \in Rows(heads)
    BY Zenon DEF Complete, Rows
  <1>7. Reap(r) \in Rows(heads) /\ [r EXCEPT !.lease = "over"] \in Rows(heads)
    BY DEF Reap, Rows
  <1>8. Unlocked([r EXCEPT !.job = "FAILED"]) \in Rows(heads)
    BY Zenon DEF Unlocked, Rows
  <1> QED
    BY <1>2, <1>3, <1>4, <1>5, <1>6, <1>7, <1>8

(* The table starts empty or with a parked row, and nothing else has happened. *)
LEMMA QueueInit ==
    ASSUME Init
    PROVE  QueueInv
  <1>1. PICK n \in Kinds : cluster = [k \in 1 .. n |-> <<>>]
    BY DEF Init
  <1>2. n \in Nat /\ cluster \in Seq(Seq([st : {"pending", "done", "failed"}, head : Heads]))
        /\ Len(cluster) = n /\ \A k \in 1 .. n : Len(cluster[k]) = 0
    BY <1>1, QueueAssumption
  <1>3. row = NoRow \/ \E h \in Bound.heads : row = Parked(h)
    BY DEF Init
  <1>4. RowInv
    <2>1. CASE row = NoRow
      <3>1. NoHead \in Heads /\ NoRow \in Rows(Heads)
        BY RowsMade DEF Heads
      <3> QED
        BY <2>1, <3>1, BudgetAssumption DEF Init, RowInv, NoRow, Ended
    <2>2. ASSUME NEW h \in Bound.heads, row = Parked(h)
          PROVE  RowInv
      BY <2>2, RowsMade, BudgetAssumption DEF Init, RowInv, Heads, Ended
    <2> QED
      BY <1>3, <2>1, <2>2
  <1>5. ClusterInv /\ SessionsInv
    BY <1>2, QueueAssumption DEF Init, ClusterInv, SessionsInv, NoSessions, NoSession, Stages
  <1>6. WorkersInv /\ HandsInv /\ AnswersInv
    BY DEF Init, WorkersInv, HandsInv, AnswersInv, Idle, Heads, Generators, Placed, Staged, Posted
  <1>7. HeadsInv
    <2>1. row.job # "SUCCEEDED"
      <3>1. ASSUME NEW h \in Bound.heads PROVE Parked(h).job # "SUCCEEDED"
        BY DEF Parked, Queued, NoRow
      <3> QED
        BY <1>3, <3>1 DEF NoRow
    <2> QED
      BY <2>1 DEF Init, HeadsInv, Idle
  <1> QED
    BY <1>4, <1>5, <1>6, <1>7 DEF QueueInv

(* What the requester, the poller, the passing of time and a worker that gives the job
   back do to the claims of a request: they end claims and delete stored proofs, and
   make neither. *)
RowStep ==
  /\ \A l \in 1 .. claims : Authorised(l)' => Authorised(l) /\ row'.head = row.head
  /\ row'.by = 0 \/ (row'.by = row.by /\ row'.result = row.result)
  /\ row'.job = "SUCCEEDED" =>
       row.job = "SUCCEEDED" /\ row'.result = row.result /\ row'.head = row.head
  /\ UNCHANGED <<cluster, subs, claims>>
  /\ worker' = worker \/ \E w \in Workers : Leaves(w)

(* A step that only ends claims keeps the books of the workers and the submissions. *)
LEMMA RowStepKeeps ==
    ASSUME QueueInv, RowStep
    PROVE  WorkersInv' /\ HandsInv' /\ AnswersInv' /\ HeadsInv'
  <1>1. Heads' = Heads /\ Stages' = Stages
    BY DEF RowStep, Heads, Bound, Stages
  <1>0. Idle.pc = "idle" /\ Idle.lock = 0 /\ Idle \in Generators /\ Placed(Idle, cluster)
    BY DEF Idle, Generators, Heads, Placed, Staged, Posted
  <1>6. /\ worker' \in [Workers -> Generators]
        /\ \A v \in Workers : worker'[v] = worker[v] \/ worker'[v] = Idle
    BY <1>0 DEF RowStep, Leaves, QueueInv, WorkersInv
  <1>2. WorkersInv'
    <2>1. Generators' = Generators /\ cluster' = cluster /\ claims' = claims
      BY <1>1 DEF RowStep, Generators
    <2> QED
      BY <1>0, <1>6, <2>1 DEF QueueInv, WorkersInv
  <1>3. HandsInv'
    BY <1>0, <1>1, <1>6 DEF RowStep, QueueInv, WorkersInv, HandsInv, Submissions
  <1>4. AnswersInv'
    BY <1>1 DEF RowStep, QueueInv, HandsInv, AnswersInv
  <1>5. HeadsInv'
    BY <1>0, <1>1, <1>6 DEF RowStep, QueueInv, WorkersInv, HandsInv, HeadsInv
  <1> QED
    BY <1>2, <1>3, <1>4, <1>5

(* Ending the active sessions leaves none, and forgets no id that was used. *)
LEMMA FailSessionsEnds ==
    ASSUME QueueInv, cluster' = cluster,
           sess' = FailSessions(sess) \/ sess' = NoSessions
    PROVE  ClusterInv' /\ SessionsInv'
  <1>1. Heads' = Heads /\ Stages' = Stages
    BY DEF Heads, Bound, Stages
  <1>2. ASSUME NEW k \in 1 .. Stages
        PROVE  /\ sess'[k] \in [id : Nat, st : {"none", "submitting", "running"},
                                 ended : SUBSET (1 .. MaxSubmits)]
               /\ sess'[k].st = "none" /\ sess'[k].id <= Len(cluster[k])
    <2> DEFINE S == [id : Nat, st : {"none", "submitting", "running"},
                     ended : SUBSET (1 .. MaxSubmits)]
    <2>1. /\ sess[k] \in S /\ sess[k].id <= Len(cluster[k]) /\ Len(cluster[k]) \in Nat
          /\ Len(cluster[k]) <= MaxSubmits
          /\ sess[k].st # "none" => sess[k].id >= 1
      BY <1>2 DEF QueueInv, ClusterInv, Stages
    <2>2. sess[k].st = "none" => sess'[k] = sess[k] \/ sess'[k] = NoSession
      BY <1>2, Zenon DEF QueueInv, ClusterInv, FailSessions, NoSessions
    <2>3. sess[k].st # "none" =>
            \/ sess'[k] = [NoSession EXCEPT !.ended = sess[k].ended \cup {sess[k].id}]
            \/ sess'[k] = NoSession
      BY <1>2, Zenon DEF QueueInv, ClusterInv, FailSessions, NoSessions
    <2>4. NoSession \in S /\ NoSession.st = "none" /\ NoSession.id = 0
      BY DEF NoSession
    <2> QED
      BY <2>1, <2>2, <2>3, <2>4, QueueAssumption
  <1>3. sess' = [k \in 1 .. Stages |-> sess'[k]]
    BY Zenon DEF QueueInv, ClusterInv, FailSessions, NoSessions
  <1>4. ClusterInv'
    BY <1>1, <1>2, <1>3 DEF QueueInv, ClusterInv
  <1> QED
    BY <1>1, <1>2, <1>4 DEF SessionsInv

-----------------------------------------------------------------------------
(* The requester: a request is inserted, or started again with no session left. *)
LEMMA ProveBlockRangeInv ==
    ASSUME QueueInv, NEW h \in Bound.heads, ProveBlockRange(h)
    PROVE  QueueInv'
  <1>1. Heads' = Heads /\ Stages' = Stages /\ h \in Heads /\ NoHead \in Heads
    BY DEF ProveBlockRange, Heads, Bound, Stages
  <1>2. row \in Rows(Heads) /\ claims \in Nat
    BY DEF QueueInv, RowInv
  <1>3. /\ row' \in Rows(Heads) /\ row'.job = "PENDING" /\ row'.lock = 0 /\ row'.lease = "none"
        /\ row'.attempt = 0 /\ row'.by = 0 /\ row'.retries <= MaxRetries
    <2>1. CASE row' = Queued(h)
      BY <2>1, <1>1, RowsMade, BudgetAssumption
    <2>2. CASE Requeueable(row) /\ row' = Requeue(row, h)
      <3>1. Queued(h) \in Rows(Heads)
        BY <1>1, RowsMade
      <3>2. /\ row'.job = Queued(h).job /\ row'.lock = Queued(h).lock
            /\ row'.lease = Queued(h).lease /\ row'.attempt = Queued(h).attempt
            /\ row'.by = Queued(h).by /\ row'.retries = row.retries + 1
        BY <2>2, <3>1 DEF Requeue, Rows
      <3>3. row.retries + 1 <= MaxRetries
        BY <2>2, <1>2, BudgetAssumption DEF Requeueable, Rows
      <3> QED
        BY <2>2, <3>2, <3>3, <1>1, <1>2, RowsMade, RowsChanged, ZenonT(30)
    <2> QED
      BY <2>1, <2>2 DEF ProveBlockRange
  <1>4. RowInv'
    BY <1>1, <1>2, <1>3, BudgetAssumption DEF RowInv, ProveBlockRange, Ended
  <1>5. RowStep
    BY <1>3 DEF RowStep, ProveBlockRange, Authorised
  <1>6. ClusterInv' /\ SessionsInv'
    <2>1. CASE row.job = "ABSENT" /\ sess' = sess
      BY <2>1, <1>1 DEF ProveBlockRange, QueueInv, ClusterInv, SessionsInv
    <2>2. CASE sess' = FailSessions(sess)
      BY <2>2, FailSessionsEnds DEF ProveBlockRange
    <2> QED
      BY <2>1, <2>2 DEF ProveBlockRange
  <1> QED
    BY <1>4, <1>5, <1>6, RowStepKeeps DEF QueueInv

(* The requester's cancel ends the claim and leaves the sessions. *)
LEMMA CancelInv ==
    ASSUME QueueInv, CancelProofRequest
    PROVE  QueueInv'
  <1>1. Heads' = Heads /\ Stages' = Stages /\ NoHead \in Heads
    BY DEF CancelProofRequest, Heads, Bound, Stages
  <1>2. row \in Rows(Heads) /\ claims \in Nat
    BY DEF QueueInv, RowInv
  <1>3. /\ row' \in Rows(Heads) /\ row'.job = "FAILED" /\ row'.lock = 0 /\ row'.lease = "none"
        /\ row'.attempt = row.attempt /\ row'.by = row.by /\ row'.retries = row.retries
    <2>1. row' \in Rows(Heads)
      BY <1>1, <1>2, RowsChanged, Zenon DEF CancelProofRequest
    <2> QED
      BY <1>2, <2>1 DEF CancelProofRequest, Cancel, Unlocked, Rows
  <1>4. row.by = 0
    BY DEF QueueInv, RowInv, CancelProofRequest
  <1>5. RowInv'
    BY <1>1, <1>2, <1>3, <1>4 DEF RowInv, QueueInv, CancelProofRequest, Ended
  <1>6. RowStep
    BY <1>3, <1>4 DEF RowStep, CancelProofRequest, Authorised
  <1>7. UNCHANGED <<sess, cluster, worker>> /\ ClusterInv /\ SessionsInv
    BY DEF CancelProofRequest, QueueInv
  <1>8. ClusterInv'
    BY <1>1, <1>7 DEF ClusterInv
  <1>9. SessionsInv'
    BY <1>1, <1>3, <1>7 DEF SessionsInv
  <1> QED
    BY <1>5, <1>6, <1>8, <1>9, RowStepKeeps DEF QueueInv

(* Deleting an ended request takes its sessions with it. *)
LEMMA DeleteInv ==
    ASSUME QueueInv, DeleteProofRequest
    PROVE  QueueInv'
  <1>1. Heads' = Heads /\ Stages' = Stages /\ NoHead \in Heads
    BY DEF DeleteProofRequest, Heads, Bound, Stages
  <1>2. /\ row' \in Rows(Heads) /\ row'.job = "ABSENT" /\ row'.lock = 0 /\ row'.lease = "none"
        /\ row'.attempt = 0 /\ row'.by = 0 /\ row'.retries = 0
    BY <1>1, RowsMade, Zenon DEF DeleteProofRequest, NoRow
  <1>3. RowInv'
    BY <1>1, <1>2, BudgetAssumption DEF RowInv, QueueInv, DeleteProofRequest
  <1>4. RowStep
    BY <1>2 DEF RowStep, DeleteProofRequest, Authorised
  <1>5. ClusterInv' /\ SessionsInv'
    BY FailSessionsEnds DEF DeleteProofRequest
  <1> QED
    BY <1>3, <1>4, <1>5, RowStepKeeps DEF QueueInv

(* The poller ends or starts again only jobs that no live claim holds. *)
LEMMA PollInv ==
    ASSUME QueueInv, Poll
    PROVE  QueueInv'
  <1>1. Heads' = Heads /\ Stages' = Stages /\ NoHead \in Heads
    BY DEF Poll, Heads, Bound, Stages
  <1>2. row \in Rows(Heads) /\ claims \in Nat /\ row.head \in Heads
    BY DEF QueueInv, RowInv, Rows
  <1>3. row.job = "CLAIMED" /\ row.lease # "live" /\ row.by = 0
    BY DEF Poll, Stuck, Reapable, QueueInv, RowInv
  <1>4. CASE /\ Stuck(row) /\ row' = RetryOrFail(row) /\ sess' = FailSessions(sess)
             /\ UNCHANGED <<cluster, worker, subs, claims>>
    <2>1. CASE row.retries >= MaxRetries
      <3>1. row' = Unlocked([row EXCEPT !.job = "FAILED"])
        BY <1>4, <2>1 DEF RetryOrFail
      <3>2. row' \in Rows(Heads)
        BY <1>1, <1>2, <3>1, RowsChanged, Zenon
      <3>3. /\ row'.job = "FAILED" /\ row'.lock = 0 /\ row'.lease = "none"
            /\ row'.attempt = row.attempt /\ row'.by = 0 /\ row'.retries = row.retries
        BY <1>2, <1>3, <3>1 DEF Unlocked, Rows
      <3>4. RowInv'
        BY <1>1, <1>2, <1>4, <3>2, <3>3 DEF RowInv, QueueInv, Ended
      <3>5. RowStep
        BY <1>4, <3>3 DEF RowStep, Authorised
      <3> QED
        BY <1>4, <3>4, <3>5, RowStepKeeps, FailSessionsEnds DEF QueueInv
    <2>2. CASE ~(row.retries >= MaxRetries)
      <3>1. row' = Requeue(row, row.head) /\ row.retries + 1 <= MaxRetries
        BY <1>2, <1>4, <2>2, BudgetAssumption DEF RetryOrFail, Rows
      <3>2. row' \in Rows(Heads) /\ Queued(row.head) \in Rows(Heads)
        BY <1>1, <1>2, <3>1, RowsChanged, RowsMade, Zenon
      <3>3. /\ row'.job = Queued(row.head).job /\ row'.lock = Queued(row.head).lock
            /\ row'.lease = Queued(row.head).lease /\ row'.attempt = Queued(row.head).attempt
            /\ row'.by = Queued(row.head).by /\ row'.retries = row.retries + 1
        BY <3>1, <3>2 DEF Requeue, Rows
      <3>4. /\ row'.job = "PENDING" /\ row'.lock = 0 /\ row'.lease = "none"
            /\ row'.attempt = 0 /\ row'.by = 0
        BY <3>3, <1>1, <1>2, RowsMade
      <3>5. RowInv'
        BY <1>1, <1>2, <1>4, <3>1, <3>2, <3>3, <3>4, BudgetAssumption DEF RowInv, Ended
      <3>6. RowStep
        BY <1>4, <3>4 DEF RowStep, Authorised
      <3> QED
        BY <1>4, <3>5, <3>6, RowStepKeeps, FailSessionsEnds DEF QueueInv
    <2> QED
      BY <2>1, <2>2
  <1>5. CASE row' = Reap(row) /\ UNCHANGED <<sess, cluster, worker, subs, claims>>
    <2>1. row' \in Rows(Heads)
      BY <1>1, <1>2, <1>5, RowsChanged, Zenon
    <2>2. /\ row'.job = "FAILED" /\ row'.lock = row.lock /\ row'.lease = row.lease
          /\ row'.attempt = row.attempt /\ row'.by = 0 /\ row'.retries = row.retries
      BY <1>2, <1>3, <1>5 DEF Reap, Rows
    <2>3. RowInv'
      BY <1>1, <1>2, <1>5, <2>1, <2>2 DEF RowInv, QueueInv, Ended
    <2>4. RowStep
      BY <1>5, <2>2 DEF RowStep, Authorised
    <2>5. ClusterInv' /\ SessionsInv'
      BY <1>1, <1>5, <2>2 DEF QueueInv, ClusterInv, SessionsInv
    <2> QED
      BY <2>3, <2>4, <2>5, RowStepKeeps DEF QueueInv
  <1> QED
    BY <1>4, <1>5 DEF Poll

(* A lease runs out. *)
LEMMA LeaseEndsInv ==
    ASSUME QueueInv, LeaseEnds
    PROVE  QueueInv'
  <1>1. Heads' = Heads /\ Stages' = Stages /\ NoHead \in Heads
    BY DEF LeaseEnds, Heads, Bound, Stages
  <1>2. row \in Rows(Heads) /\ claims \in Nat
    BY DEF QueueInv, RowInv
  <1>3. row' \in Rows(Heads)
    BY <1>1, <1>2, RowsChanged, Zenon DEF LeaseEnds
  <1>4. /\ row'.job = row.job /\ row'.lock = row.lock /\ row'.lease = "over" /\ row'.by = row.by
        /\ row'.attempt = row.attempt /\ row'.retries = row.retries /\ row'.result = row.result
    BY <1>2 DEF LeaseEnds, Rows
  <1>5. RowInv'
    BY <1>1, <1>2, <1>3, <1>4 DEF RowInv, QueueInv, LeaseEnds, Ended
  <1>6. RowStep
    BY <1>4 DEF RowStep, LeaseEnds, Authorised
  <1>7. ClusterInv' /\ SessionsInv'
    BY <1>1, <1>4 DEF LeaseEnds, QueueInv, ClusterInv, SessionsInv
  <1> QED
    BY <1>5, <1>6, <1>7, RowStepKeeps DEF QueueInv

-----------------------------------------------------------------------------
(* Steps of a worker that only touch its own generator: it goes on with the claim
   it has, or leaves it. *)
MovesTo(w, g) ==
  /\ worker' = [worker EXCEPT ![w] = g]
  /\ UNCHANGED <<row, subs, claims>>

(* A generator that goes on has the claim and the job it had. *)
SameClaim(w, g) ==
  /\ g \in Generators
  /\ g = Idle \/ ( /\ worker[w].pc # "idle" /\ g.pc # "idle"
                   /\ g.lock = worker[w].lock /\ g.head = worker[w].head
                   /\ Stages = 0 /\ g.pc = "proved" => g.proof = g.head)

(* Such a step keeps each claim in one hand, and with it what the submissions know. *)
LEMMA MoveKeeps ==
    ASSUME QueueInv, NEW w \in Workers, NEW g, SameClaim(w, g), MovesTo(w, g),
           Len(cluster') = Len(cluster)
    PROVE  RowInv' /\ HandsInv' /\ AnswersInv' /\ HeadsInv'
  <1>1. Heads' = Heads /\ Stages' = Stages
    BY DEF Heads, Bound, Stages
  <1>2. RowInv'
    BY <1>1 DEF QueueInv, RowInv, MovesTo
  <1>3. /\ \A v \in Workers : v # w => worker'[v] = worker[v]
        /\ worker'[w] = g
        /\ g = Idle \/ (g.pc # "idle" /\ worker[w].pc # "idle" /\ g.lock = worker[w].lock)
    BY DEF QueueInv, WorkersInv, MovesTo, SameClaim
  <1>4. /\ Idle.pc = "idle" /\ Idle.lock = 0
        /\ \A v \in Workers : worker[v].pc # "idle" => worker[v].lock # 0
    BY DEF Idle, QueueInv, WorkersInv
  <1>5. HandsInv'
    BY <1>1, <1>3, <1>4 DEF QueueInv, WorkersInv, HandsInv, Submissions, MovesTo
  <1>6. AnswersInv'
    BY DEF QueueInv, AnswersInv, Authorised, MovesTo
  <1>7. HeadsInv'
    BY <1>1, <1>3, <1>4 DEF QueueInv, HeadsInv, Authorised, MovesTo, SameClaim
  <1> QED
    BY <1>2, <1>5, <1>6, <1>7

(* The cluster only gains requests, and a failed one stays failed. *)
ClusterGrows ==
  /\ Len(cluster') = Len(cluster)
  /\ \A k \in 1 .. Stages :
       /\ Len(cluster[k]) \in Nat /\ Len(cluster'[k]) \in Nat
       /\ Len(cluster[k]) <= Len(cluster'[k])
       /\ \A i \in 1 .. Len(cluster[k]) :
            cluster[k][i].st = "failed" => cluster'[k][i].st = "failed"

(* The other generators keep their places. *)
LEMMA GrowthKeepsPlaces ==
    ASSUME ClusterGrows, NEW g, g.id \in Nat, Placed(g, cluster)
    PROVE  Placed(g, cluster')
  <1>2. g.pc \in Staged => g.stage \in 1 .. Len(cluster')
    BY DEF Placed, ClusterGrows
  <1>3. ASSUME g.pc \in Posted PROVE g.id \in 1 .. Len(cluster'[g.stage])
    BY <1>3 DEF Placed, Posted, Staged, ClusterGrows, Stages
  <1>4. ASSUME g.pc = "create", NEW j \in 1 .. (g.id - 1)
        PROVE  j <= Len(cluster'[g.stage]) /\ cluster'[g.stage][j].st = "failed"
    <2>1. g.stage \in 1 .. Stages /\ j <= Len(cluster[g.stage]) /\ cluster[g.stage][j].st = "failed"
      BY <1>4 DEF Placed, Staged, Stages
    <2> QED
      BY <2>1 DEF ClusterGrows
  <1> QED
    BY <1>2, <1>3, <1>4 DEF Placed

(* A step of one generator keeps the workers' invariant when its own place is right. *)
LEMMA MoveKeepsWorkers ==
    ASSUME QueueInv, NEW w \in Workers, NEW g, SameClaim(w, g), MovesTo(w, g), ClusterGrows,
           Placed(g, cluster')
    PROVE  WorkersInv'
  <1>1. Heads' = Heads
    BY DEF Heads, Bound, Stages, ClusterGrows
  <1>2. /\ \A v \in Workers : v # w => worker'[v] = worker[v]
        /\ worker'[w] = g
        /\ g = Idle \/ (g.pc # "idle" /\ worker[w].pc # "idle" /\ g.lock = worker[w].lock)
    BY DEF QueueInv, WorkersInv, MovesTo, SameClaim
  <1>3. ASSUME NEW v \in Workers PROVE Placed(worker'[v], cluster')
    <2>1. CASE v = w
      BY <2>1, <1>2 DEF Placed
    <2>2. CASE v # w
      <3>1. worker[v].id \in Nat /\ Placed(worker[v], cluster) /\ worker'[v] = worker[v]
        BY <1>2, <2>2 DEF QueueInv, WorkersInv, Generators
      <3> QED
        BY <3>1, GrowthKeepsPlaces, Zenon DEF Placed
    <2> QED
      BY <2>1, <2>2
  <1>4. worker' \in [Workers -> Generators]
    BY DEF QueueInv, WorkersInv, MovesTo, SameClaim
  <1>5. Idle.pc = "idle"
    BY DEF Idle
  <1>6. \A v \in Workers : /\ worker'[v].pc = "idle" <=> worker'[v] = Idle
                           /\ worker'[v].pc # "idle" => worker'[v].lock \in 1 .. claims
    BY <1>2, <1>5 DEF QueueInv, WorkersInv
  <1> QED
    BY <1>1, <1>3, <1>4, <1>6 DEF WorkersInv, Generators, MovesTo

(* A step of one generator, with what it does to the cluster and the sessions. *)
LEMMA GeneratorStepInv ==
    ASSUME QueueInv, NEW w \in Workers, NEW g, SameClaim(w, g), MovesTo(w, g), ClusterGrows,
           Placed(g, cluster'), ClusterInv', SessionsInv'
    PROVE  QueueInv'
  <1>1. Len(cluster') = Len(cluster)
    BY DEF ClusterGrows
  <1> QED
    BY <1>1, MoveKeeps, MoveKeepsWorkers DEF QueueInv

(* A step of one generator that reads the rest. *)
LEMMA QuietStepInv ==
    ASSUME QueueInv, NEW w \in Workers, NEW g, SameClaim(w, g), MovesTo(w, g), Placed(g, cluster),
           UNCHANGED <<cluster, sess>>
    PROVE  QueueInv'
  <1>1. ClusterGrows
    BY DEF ClusterGrows, QueueInv, ClusterInv, Stages
  <1>2. Placed(g, cluster')
    BY DEF Placed, Stages
  <1>3. Heads' = Heads /\ Stages' = Stages
    BY DEF Heads, Bound, Stages
  <1>4. ClusterInv' /\ SessionsInv'
    BY <1>3 DEF QueueInv, ClusterInv, SessionsInv, MovesTo
  <1> QED
    BY <1>1, <1>2, <1>4, GeneratorStepInv

(* Leaving is such a step for any generator. *)
LEMMA IdleFits ==
    ASSUME NEW w \in Workers
    PROVE  SameClaim(w, Idle) /\ Placed(Idle, cluster) /\ Placed(Idle, cluster')
  <1>1. Idle \in Generators /\ Idle.pc = "idle"
    BY DEF Idle, Generators, Heads
  <1> QED
    BY <1>1 DEF SameClaim, Placed, Staged, Posted

(* The generation stops, or only its heartbeat does. *)
LEMMA StopsInv ==
    ASSUME QueueInv, NEW w \in Workers, GenerationStops(w) \/ HeartbeatFails(w)
    PROVE  QueueInv'
  <1>1. CASE GenerationStops(w)
    <2>1. MovesTo(w, Idle) /\ UNCHANGED <<cluster, sess>>
      BY <1>1 DEF GenerationStops, Leaves, MovesTo
    <2> QED
      BY <2>1, IdleFits, QuietStepInv
  <1>2. CASE HeartbeatFails(w)
    <2> DEFINE g == [worker[w] EXCEPT !.beats = FALSE]
    <2>1. MovesTo(w, g) /\ UNCHANGED <<cluster, sess>>
      BY <1>2 DEF HeartbeatFails, MovesTo, QueueInv, WorkersInv
    <2>2. worker[w].pc # "idle" /\ worker[w] \in Generators
      BY <1>2 DEF HeartbeatFails, QueueInv, WorkersInv, Idle
    <2>3. /\ g \in Generators /\ g.pc = worker[w].pc /\ g.lock = worker[w].lock
          /\ g.head = worker[w].head /\ g.proof = worker[w].proof
          /\ g.stage = worker[w].stage /\ g.id = worker[w].id
      BY <2>2, Zenon DEF Generators
    <2>4. SameClaim(w, g) /\ Placed(g, cluster)
      BY <2>2, <2>3 DEF SameClaim, Placed, QueueInv, WorkersInv, HeadsInv
    <2> QED
      BY <2>1, <2>4, QuietStepInv
  <1> QED
    BY <1>1, <1>2

(* The heartbeat learns of the cancel: the recorded sessions are to be stopped. *)
LEMMA HeartbeatCancelledInv ==
    ASSUME QueueInv, NEW w \in Workers, HeartbeatCancelled(w)
    PROVE  QueueInv'
  <1> DEFINE g == [worker[w] EXCEPT !.pc = "stop", !.stage = 1, !.beats = FALSE]
  <1>1. MovesTo(w, g) /\ UNCHANGED <<cluster, sess>>
    BY Zenon DEF HeartbeatCancelled, MovesTo, QueueInv, WorkersInv
  <1>2. worker[w].pc # "idle" /\ worker[w] \in Generators /\ Stages \in Nat /\ Stages > 0
    BY DEF HeartbeatCancelled, QueueInv, WorkersInv, ClusterInv, Stages, Idle
  <1>3. /\ g \in Generators /\ g.pc = "stop" /\ g.lock = worker[w].lock
        /\ g.head = worker[w].head /\ g.stage = 1
    BY <1>2, Zenon DEF Generators, Staged
  <1>4. SameClaim(w, g) /\ Placed(g, cluster)
    BY <1>2, <1>3 DEF SameClaim, Placed, Posted, Stages
  <1> QED
    BY <1>1, <1>4, QuietStepInv

-----------------------------------------------------------------------------
(* The cluster's requests. *)
Requests == [st : {"pending", "done", "failed"}, head : Heads]

(* Replacing one element of a sequence. *)
LEMMA ElementReplaced ==
    ASSUME NEW S, NEW q \in Seq(S), NEW k \in 1 .. Len(q), NEW x \in S
    PROVE  /\ [q EXCEPT ![k] = x] \in Seq(S) /\ Len([q EXCEPT ![k] = x]) = Len(q)
           /\ [q EXCEPT ![k] = x][k] = x
           /\ \A j \in 1 .. Len(q) : j # k => [q EXCEPT ![k] = x][j] = q[j]
  OBVIOUS

(* The requests of a stage are replaced by as many, of which the failed ones are the
   same. *)
LEMMA RequestsReplaced ==
    ASSUME QueueInv, NEW k \in 1 .. Stages, NEW q \in Seq(Requests), Len(q) = Len(cluster[k]),
           \A j \in 1 .. Len(cluster[k]) : cluster[k][j].st = "failed" => q[j].st = "failed",
           cluster' = [cluster EXCEPT ![k] = q], sess' = sess
    PROVE  ClusterGrows /\ ClusterInv'
  <1>1. /\ cluster \in Seq(Seq(Requests)) /\ k \in 1 .. Len(cluster)
        /\ cluster[k] \in Seq(Requests) /\ Len(cluster[k]) \in Nat
    BY DEF QueueInv, ClusterInv, Stages, Requests
  <1>2. cluster' \in Seq(Seq(Requests)) /\ Len(cluster') = Len(cluster)
        /\ cluster'[k] = q /\ \A j \in 1 .. Len(cluster) : j # k => cluster'[j] = cluster[j]
    BY <1>1, ElementReplaced
  <1>3. Heads' = Heads /\ Stages' = Stages /\ Requests' = Requests
    BY <1>2, Zenon DEF Heads, Bound, Stages, Requests
  <1>4. \A j \in 1 .. Stages : /\ Len(cluster[j]) \in Nat /\ Len(cluster'[j]) = Len(cluster[j])
                               /\ \A n \in 1 .. Len(cluster[j]) : cluster[j][n].st = "failed"
                                     => cluster'[j][n].st = "failed"
    BY <1>1, <1>2 DEF Stages
  <1>5. ClusterGrows
    BY <1>2, <1>4 DEF ClusterGrows
  <1> QED
    BY <1>2, <1>3, <1>4, <1>5 DEF QueueInv, ClusterInv, Requests

(* A pending request of the cluster ends. *)
LEMMA RequestEnds ==
    ASSUME QueueInv, NEW k \in 1 .. Stages, NEW i \in 1 .. Len(cluster[k]),
           cluster[k][i].st = "pending", NEW st \in {"done", "failed"},
           cluster' = [cluster EXCEPT ![k][i].st = st], sess' = sess
    PROVE  ClusterGrows /\ ClusterInv'
  <1> DEFINE r == [cluster[k][i] EXCEPT !.st = st]
             q == [cluster[k] EXCEPT ![i] = r]
  <1>1. /\ cluster \in Seq(Seq(Requests)) /\ k \in 1 .. Len(cluster)
        /\ cluster[k] \in Seq(Requests) /\ Len(cluster[k]) \in Nat
    BY DEF QueueInv, ClusterInv, Stages, Requests
  <1>2. cluster[k][i] \in Requests
    BY <1>1
  <1>3. r \in Requests
    BY <1>2 DEF Requests
  <1>4. q \in Seq(Requests) /\ Len(q) = Len(cluster[k])
        /\ \A j \in 1 .. Len(cluster[k]) : j # i => q[j] = cluster[k][j]
    BY <1>1, <1>3
  <1>5. cluster' = [cluster EXCEPT ![k] = q]
    BY <1>1
  <1> HIDE DEF q, r
  <1> QED
    BY <1>4, <1>5, RequestsReplaced, Zenon

(* A request is created when all of its stage have failed. *)
LEMMA RequestAdded ==
    ASSUME QueueInv, NEW k \in 1 .. Stages, NEW r \in Requests, Len(cluster[k]) < MaxSubmits,
           \A j \in 1 .. Len(cluster[k]) : cluster[k][j].st = "failed",
           cluster' = [cluster EXCEPT ![k] = Append(cluster[k], r)], sess' = sess
    PROVE  ClusterGrows /\ ClusterInv' /\ Len(cluster'[k]) = Len(cluster[k]) + 1
  <1> DEFINE q == Append(cluster[k], r)
  <1>1. /\ cluster \in Seq(Seq(Requests)) /\ k \in 1 .. Len(cluster)
        /\ cluster[k] \in Seq(Requests) /\ Len(cluster[k]) \in Nat
    BY DEF QueueInv, ClusterInv, Stages, Requests
  <1>2. q \in Seq(Requests) /\ Len(q) = Len(cluster[k]) + 1
        /\ \A j \in 1 .. Len(cluster[k]) : q[j] = cluster[k][j]
    BY <1>1
  <1> HIDE DEF q
  <1>3. cluster' = [cluster EXCEPT ![k] = q]
    BY DEF q
  <1>4. cluster' \in Seq(Seq(Requests)) /\ Len(cluster') = Len(cluster)
        /\ cluster'[k] = q /\ \A j \in 1 .. Len(cluster) : j # k => cluster'[j] = cluster[j]
    BY <1>1, <1>2, <1>3, ElementReplaced
  <1>5. Heads' = Heads /\ Stages' = Stages /\ Requests' = Requests
    BY <1>4, Zenon DEF Heads, Bound, Stages, Requests
  <1>6. \A j \in 1 .. Stages : /\ Len(cluster[j]) \in Nat /\ Len(cluster'[j]) \in Nat
                               /\ Len(cluster[j]) <= Len(cluster'[j])
                               /\ \A n \in 1 .. Len(cluster[j]) : cluster'[j][n] = cluster[j][n]
    BY <1>1, <1>2, <1>4 DEF Stages
  <1>7. ClusterGrows
    BY <1>4, <1>6 DEF ClusterGrows
  <1>8. ASSUME NEW j \in 1 .. Stages
        PROVE  /\ Len(cluster'[j]) <= MaxSubmits
               /\ \A i \in 1 .. (Len(cluster'[j]) - 1) : cluster'[j][i].st = "failed"
    <2>1. CASE j = k
      BY <2>1, <1>1, <1>2, <1>4, QueueAssumption
    <2>2. CASE j # k
      BY <2>2, <1>4 DEF QueueInv, ClusterInv, Stages
    <2> QED
      BY <2>1, <2>2
  <1>9. ASSUME NEW j \in 1 .. Stages
        PROVE  sess[j].id <= Len(cluster'[j]) /\ (sess[j].st # "none" => sess[j].id >= 1)
    <2>1. sess[j].id \in Nat /\ sess[j].id <= Len(cluster[j])
      BY Zenon DEF QueueInv, ClusterInv
    <2> QED
      BY <2>1, <1>6 DEF QueueInv, ClusterInv
  <1> QED
    BY <1>2, <1>4, <1>5, <1>7, <1>8, <1>9 DEF QueueInv, ClusterInv, Requests

(* A cancel of a request of the cluster ends it if it is pending. *)
LEMMA CancelClusterKeeps ==
    ASSUME QueueInv, NEW k \in 1 .. Stages, NEW i \in 1 .. Len(cluster[k]),
           cluster' = CancelCluster(k, i) \/ cluster' = cluster, sess' = sess
    PROVE  ClusterGrows /\ ClusterInv'
  <1>1. CASE cluster' = cluster
    <2>1. Heads' = Heads /\ Stages' = Stages
      BY <1>1 DEF Heads, Bound, Stages
    <2> QED
      BY <1>1, <2>1 DEF ClusterGrows, QueueInv, ClusterInv, Stages
  <1>2. CASE cluster[k][i].st = "pending" /\ cluster' = [cluster EXCEPT ![k][i].st = "failed"]
    BY <1>2, RequestEnds, Zenon
  <1> QED
    BY <1>1, <1>2 DEF CancelCluster

-----------------------------------------------------------------------------
(* A generator that is busy goes on with its claim when only these fields change. *)
LEMMA GoesOn ==
    ASSUME QueueInv, NEW w \in Workers, worker[w].pc # "idle", NEW g \in Generators,
           g.pc # "idle", g.lock = worker[w].lock, g.head = worker[w].head,
           Stages = 0 /\ g.pc = "proved" => g.proof = g.head
    PROVE  SameClaim(w, g)
  BY DEF SameClaim

(* What a worker that is not idle knows of itself. *)
LEMMA Busy ==
    ASSUME QueueInv, NEW w \in Workers
    PROVE  worker \in [Workers -> Generators] /\ worker[w] \in Generators /\ Placed(worker[w], cluster)
  BY DEF QueueInv, WorkersInv

(* The sessions of a cancelled request are stopped one stage after the other. *)
LEMMA StopSessionInv ==
    ASSUME QueueInv, NEW w \in Workers, StopSession(w)
    PROVE  QueueInv'
  <1> DEFINE k == worker[w].stage
             h == [worker[w] EXCEPT !.stage = k + 1]
             g == IF k < Stages THEN h ELSE Idle
  <1>1. worker[w] \in Generators /\ k \in 1 .. Stages /\ worker[w].pc = "stop"
    BY Busy DEF StopSession, Placed, Staged, Stages
  <1>2. MovesTo(w, g) /\ sess' = sess /\ Stages \in Nat
    BY <1>1, Busy DEF StopSession, MovesTo, Leaves, QueueInv, ClusterInv, Stages
  <1>3. ClusterGrows /\ ClusterInv'
    <2>1. CASE sess[k].st = "running"
      <3>1. sess[k].id \in 1 .. Len(cluster[k])
        BY <1>1, <2>1 DEF QueueInv, ClusterInv
      <3> QED
        BY <1>1, <1>2, <2>1, <3>1, CancelClusterKeeps DEF StopSession
    <2>2. CASE sess[k].st # "running"
      <3>1. cluster' = cluster
        BY <2>2 DEF StopSession
      <3>2. Heads' = Heads /\ Stages' = Stages
        BY <3>1 DEF Heads, Bound, Stages
      <3> QED
        BY <1>2, <3>1, <3>2 DEF ClusterGrows, QueueInv, ClusterInv, Stages
    <2> QED
      BY <2>1, <2>2
  <1>4. Stages' = Stages
    BY <1>3 DEF ClusterGrows, Stages
  <1>5. SameClaim(w, g) /\ Placed(g, cluster')
    <2>1. CASE k < Stages
      <3>1. /\ h \in Generators /\ h.pc = "stop" /\ h.lock = worker[w].lock
            /\ h.head = worker[w].head /\ h.stage = k + 1
        BY <1>1 DEF Generators
      <3>2. k + 1 \in 1 .. Stages
        BY <1>1, <1>2, <2>1
      <3>3. SameClaim(w, h) /\ Placed(h, cluster')
        BY <1>1, <1>4, <3>1, <3>2, GoesOn, Zenon DEF Placed, Posted, Stages
      <3> QED
        BY <2>1, <3>3
    <2>2. CASE ~(k < Stages)
      BY <2>2, IdleFits
    <2> QED
      BY <2>1, <2>2
  <1>6. SessionsInv'
    BY <1>2, <1>4 DEF QueueInv, SessionsInv, MovesTo
  <1> HIDE DEF g
  <1> QED
    BY <1>2, <1>3, <1>5, <1>6, GeneratorStepInv

(* A running session is resumed. *)
LEMMA GetSessionInv ==
    ASSUME QueueInv, NEW w \in Workers, GetSession(w)
    PROVE  QueueInv'
  <1> DEFINE k == worker[w].stage
             p == IF sess[k].st = "running" THEN "poll" ELSE "submit"
             n == IF sess[k].st = "running" THEN sess[k].id ELSE 0
             g == [worker[w] EXCEPT !.pc = p, !.id = n]
  <1>1. worker[w] \in Generators /\ k \in 1 .. Stages /\ worker[w].pc = "get"
    BY Busy DEF GetSession, Placed, Staged, Stages
  <1>2. MovesTo(w, g) /\ UNCHANGED <<cluster, sess>>
    BY Busy, Zenon DEF GetSession, MovesTo
  <1>3. n \in Nat /\ (p = "poll" => n \in 1 .. Len(cluster[k])) /\ p \in {"poll", "submit"}
    BY <1>1 DEF QueueInv, ClusterInv
  <1> HIDE DEF p, n
  <1>4. /\ g \in Generators /\ g.pc = p /\ g.lock = worker[w].lock
        /\ g.head = worker[w].head /\ g.stage = k /\ g.id = n
    BY <1>1, <1>3, Zenon DEF Generators, Staged
  <1> HIDE DEF g
  <1>5. SameClaim(w, g) /\ Placed(g, cluster)
    BY <1>1, <1>3, <1>4, GoesOn DEF Placed, Posted, Stages
  <1> QED
    BY <1>2, <1>5, QuietStepInv

(* A nonempty set of naturals has a least element: the first usable request. *)
LEMMA LeastOfNats ==
    ASSUME NEW S, S \subseteq Nat, S # {}
    PROVE  \E x \in S : \A y \in S : x <= y
  <1> DEFINE R == {p \in Nat \X Nat : p[1] < p[2]}
  <1>1. IsWellFoundedOn(R, Nat)
    BY NatLessThanWellFounded, Zenon DEF OpToRel
  <1>2. PICK x \in S : \A y \in S : ~(<<y, x>> \in R)
    <2> HIDE DEF R
    <2> QED
      BY <1>1, WFMin, Zenon
  <1>3. ASSUME NEW a \in Nat, NEW b \in Nat, a < b
        PROVE  <<a, b>> \in R
    BY <1>3
  <1> HIDE DEF R
  <1>4. ASSUME NEW y \in S PROVE x <= y
    <2>1. x \in Nat /\ y \in Nat
      OBVIOUS
    <2>2. ~(y < x)
      BY <1>2, <1>3, <2>1, Zenon
    <2> QED
      BY <2>1, <2>2
  <1> QED
    BY <1>4

(* The request to reuse, or the one to create: all before it have failed. *)
LEMMA FindProofIdInv ==
    ASSUME QueueInv, NEW w \in Workers, FindProofId(w)
    PROVE  QueueInv'
  <1> DEFINE k == worker[w].stage
             usable == Usable(k)
             i == CHOOSE n \in usable : \A j \in usable : n <= j
             g == [worker[w] EXCEPT !.pc = "record", !.id = i]
             h == [worker[w] EXCEPT !.pc = "create", !.id = Len(cluster[k]) + 1]
  <1>1. worker[w] \in Generators /\ k \in 1 .. Stages /\ worker[w].pc = "submit"
    BY Busy DEF FindProofId, Placed, Staged, Stages
  <1>2. UNCHANGED <<row, sess, cluster, subs, claims>> /\ Len(cluster[k]) \in Nat
    BY <1>1 DEF FindProofId, QueueInv, ClusterInv, Stages
  <1>3. CASE usable # {}
    <2>1. MovesTo(w, g)
      BY <1>2, <1>3, Busy, Zenon DEF FindProofId, MovesTo
    <2>2. \E n \in usable : \A j \in usable : n <= j
      <3>1. usable \subseteq Nat
        BY <1>2 DEF Usable
      <3> HIDE DEF usable
      <3> QED
        BY <1>3, <3>1, LeastOfNats, Zenon
    <2>3. i \in 1 .. Len(cluster[k]) /\ i \in Nat
      BY <1>2, <2>2, SMTT(30) DEF Usable
    <2> HIDE DEF i
    <2>4. /\ g \in Generators /\ g.pc = "record" /\ g.lock = worker[w].lock
          /\ g.head = worker[w].head /\ g.stage = k /\ g.id = i
      BY <1>1, <1>2, <2>3, Zenon DEF Generators, Staged
    <2> HIDE DEF g
    <2>5. SameClaim(w, g) /\ Placed(g, cluster)
      BY <1>1, <2>3, <2>4, GoesOn DEF Placed, Posted, Stages
    <2> QED
      BY <1>2, <2>1, <2>5, QuietStepInv
  <1>4. CASE usable = {} /\ Len(cluster[k]) < MaxSubmits
    <2>1. MovesTo(w, h)
      BY <1>2, <1>4, Busy, Zenon DEF FindProofId, MovesTo
    <2>2. \A j \in 1 .. Len(cluster[k]) : cluster[k][j].st = "failed"
      BY <1>4 DEF Usable
    <2>3. Len(cluster[k]) + 1 \in Nat
      BY <1>2
    <2>4. /\ h \in Generators /\ h.pc = "create" /\ h.lock = worker[w].lock
          /\ h.head = worker[w].head /\ h.stage = k /\ h.id = Len(cluster[k]) + 1
      BY <1>1, <2>3, Zenon DEF Generators, Staged
    <2> HIDE DEF h
    <2>5. SameClaim(w, h) /\ Placed(h, cluster)
      BY <1>1, <1>2, <1>4, <2>2, <2>4, QueueAssumption, GoesOn, SMTT(30) DEF Placed, Posted, Stages
    <2> QED
      BY <1>2, <2>1, <2>5, QuietStepInv
  <1>5. CASE usable = {} /\ ~(Len(cluster[k]) < MaxSubmits)
    <2>1. MovesTo(w, Idle)
      BY <1>2, <1>5 DEF FindProofId, Leaves, MovesTo
    <2> QED
      BY <1>2, <2>1, IdleFits, QuietStepInv
  <1> QED
    BY <1>3, <1>4, <1>5

(* The request is created after failed ones only, or another worker's is taken. *)
LEMMA CreateClusterRequestInv ==
    ASSUME QueueInv, NEW w \in Workers, CreateClusterRequest(w)
    PROVE  QueueInv'
  <1> DEFINE k == worker[w].stage
             i == worker[w].id
             r == [st |-> "pending", head |-> IF k = 1 THEN worker[w].head ELSE worker[w].proof]
             g == [worker[w] EXCEPT !.pc = "record"]
  <1>1. worker[w] \in Generators /\ k \in 1 .. Stages /\ worker[w].pc = "create"
        /\ i \in 1 .. MaxSubmits
    BY Busy DEF CreateClusterRequest, Placed, Staged, Stages
  <1>2. UNCHANGED <<row, sess, subs, claims>> /\ Len(cluster[k]) \in Nat /\ i \in Nat
    BY <1>1, QueueAssumption DEF CreateClusterRequest, QueueInv, ClusterInv, Stages
  <1>3. /\ g \in Generators /\ g.pc = "record" /\ g.lock = worker[w].lock
        /\ g.head = worker[w].head /\ g.stage = k /\ g.id = i
    BY <1>1 DEF Generators, Staged
  <1>4. Goes(w, "record") => MovesTo(w, g)
    BY <1>2, Busy DEF Goes, MovesTo
  <1>5. SameClaim(w, g)
    BY <1>1, <1>3, GoesOn, Zenon
  <1>6. CASE Len(cluster[k]) >= i
    <2>1. cluster' = cluster
      BY <1>6 DEF CreateClusterRequest
    <2>2. CASE Goes(w, "record")
      <3>1. Placed(g, cluster)
        BY <1>1, <1>2, <1>3, <1>6 DEF Placed, Stages
      <3> HIDE DEF g
      <3> QED
        BY <1>2, <1>4, <1>5, <2>1, <2>2, <3>1, QuietStepInv
    <2>3. CASE Leaves(w)
      <3>1. MovesTo(w, Idle)
        BY <1>2, <2>3 DEF Leaves, MovesTo
      <3> QED
        BY <1>2, <2>1, <3>1, IdleFits, QuietStepInv
    <2> QED
      BY <1>6, <2>2, <2>3 DEF CreateClusterRequest
  <1>7. CASE ~(Len(cluster[k]) >= i)
    <2>1. cluster' = [cluster EXCEPT ![k] = Append(cluster[k], r)] /\ Goes(w, "record")
      BY <1>7 DEF CreateClusterRequest
    <2>2. r \in Requests
      BY <1>1 DEF Requests, Generators
    <2>3. \A j \in 1 .. (i - 1) : j <= Len(cluster[k]) /\ cluster[k][j].st = "failed"
      BY <1>1, Busy DEF Placed
    <2>4. /\ Len(cluster[k]) = i - 1 /\ Len(cluster[k]) < MaxSubmits
          /\ \A j \in 1 .. Len(cluster[k]) : cluster[k][j].st = "failed"
      <3>1. Len(cluster[k]) = i - 1
        <4>1. CASE i = 1
          BY <4>1, <1>2, <1>7
        <4>2. CASE i > 1
          <5>1. i - 1 \in 1 .. (i - 1)
            BY <4>2, <1>2
          <5>2. i - 1 <= Len(cluster[k])
            BY <2>3, <5>1
          <5> QED
            BY <5>2, <1>2, <1>7
        <4> QED
          BY <4>1, <4>2, <1>1, QueueAssumption
      <3> QED
        BY <1>1, <1>2, <2>3, <3>1, QueueAssumption
    <2> HIDE DEF r
    <2>5. ClusterGrows /\ ClusterInv' /\ Len(cluster'[k]) = Len(cluster[k]) + 1
      BY <1>1, <1>2, <2>1, <2>2, <2>4, RequestAdded, Zenon
    <2>6. Placed(g, cluster')
      <3>1. i \in 1 .. Len(cluster'[k])
        BY <1>1, <1>2, <2>4, <2>5, QueueAssumption
      <3>2. k \in 1 .. Len(cluster')
        BY <1>1, <2>5 DEF ClusterGrows, Stages
      <3> QED
        BY <1>3, <3>1, <3>2 DEF Placed
    <2>7. SessionsInv'
      BY <1>2, <2>5, Zenon DEF QueueInv, SessionsInv, ClusterGrows, Stages
    <2> HIDE DEF g
    <2> QED
      BY <1>4, <1>5, <2>1, <2>5, <2>6, <2>7, GeneratorStepInv, Zenon
  <1> QED
    BY <1>6, <1>7

(* A session is recorded for a stage: one the cluster has. *)
LEMMA RecordedKeeps ==
    ASSUME QueueInv, NEW k \in 1 .. Stages, NEW i \in 1 .. Len(cluster[k]),
           NEW st \in {"submitting", "running"}, sess' = Recorded(sess, k, i, st),
           UNCHANGED <<row, cluster>>, row.job = "CLAIMED"
    PROVE  ClusterInv' /\ SessionsInv'
  <1>1. Heads' = Heads /\ Stages' = Stages /\ SessionsInv'
    BY DEF Heads, Bound, Stages, SessionsInv
  <1>2. CASE i \in sess[k].ended
    <2>1. sess' = sess
      BY <1>2 DEF Recorded
    <2> QED
      BY <1>1, <2>1 DEF QueueInv, ClusterInv
  <1>3. CASE i \notin sess[k].ended
    <2> DEFINE S == [id : Nat, st : {"none", "submitting", "running"},
                     ended : SUBSET (1 .. MaxSubmits)]
               x == [sess[k] EXCEPT !.id = i, !.st = st]
    <2>1. sess \in [1 .. Stages -> S] /\ sess[k] \in S /\ i \in Nat
      <3>1. sess \in [1 .. Stages -> S]
        BY DEF QueueInv, ClusterInv
      <3>2. Len(cluster[k]) \in Nat
        BY DEF QueueInv, ClusterInv, Stages
      <3> QED
        BY <3>1, <3>2
    <2>2. sess' = [sess EXCEPT ![k] = x]
      BY <1>3, <2>1, Zenon DEF Recorded
    <2>3. x \in S /\ x.id = i /\ x.st = st
      BY <2>1, Zenon
    <2> HIDE DEF x
    <2>4. sess' \in [1 .. Stages -> S] /\ sess'[k] = x
          /\ \A j \in 1 .. Stages : j # k => sess'[j] = sess[j]
      BY <2>1, <2>2, <2>3
    <2>5. ASSUME NEW j \in 1 .. Stages
          PROVE  sess'[j].id <= Len(cluster[j]) /\ (sess'[j].st # "none" => sess'[j].id >= 1)
      <3>1. CASE j = k
        BY <3>1, <2>3, <2>4
      <3>2. CASE j # k
        BY <3>2, <2>4 DEF QueueInv, ClusterInv
      <3> QED
        BY <3>1, <3>2
    <2> QED
      BY <1>1, <2>4, <2>5 DEF QueueInv, ClusterInv
  <1> QED
    BY <1>2, <1>3

(* Only a claim of a claimed job may record a session. *)
LEMMA RecordAuthClaimed ==
    ASSUME NEW w \in Workers, "authorized" \in RecordAuth(w)
    PROVE  row.job = "CLAIMED"
  BY DEF RecordAuth, Classify, Ended

(* The submitted request is recorded as running, or left to its end. *)
LEMMA RecordRunningInv ==
    ASSUME QueueInv, NEW w \in Workers, RecordRunning(w)
    PROVE  QueueInv'
  <1> DEFINE k == worker[w].stage
             i == worker[w].id
             g == [worker[w] EXCEPT !.pc = "poll"]
  <1>1. /\ worker[w] \in Generators /\ k \in 1 .. Stages /\ worker[w].pc = "record"
        /\ i \in 1 .. Len(cluster[k]) /\ UNCHANGED <<row, subs, claims>>
    BY Busy DEF RecordRunning, Placed, Staged, Posted, Stages
  <1>2. CASE /\ "authorized" \in RecordAuth(w) /\ sess' = Recorded(sess, k, i, "running")
             /\ Goes(w, "poll") /\ cluster' = cluster
    <2>1. /\ g \in Generators /\ g.pc = "poll" /\ g.lock = worker[w].lock
          /\ g.head = worker[w].head /\ g.stage = k /\ g.id = i
      BY <1>1 DEF Generators, Staged
    <2>2. SameClaim(w, g) /\ MovesTo(w, g) /\ Placed(g, cluster')
      <3>1. MovesTo(w, g)
        BY <1>1, <1>2, Busy DEF Goes, MovesTo
      <3>2. Placed(g, cluster')
        BY <1>1, <1>2, <2>1 DEF Placed, Stages
      <3> QED
        BY <1>1, <2>1, <3>1, <3>2, GoesOn, Zenon
    <2>3. ClusterInv' /\ SessionsInv'
      BY <1>1, <1>2, RecordAuthClaimed, RecordedKeeps
    <2>4. ClusterGrows
      BY <1>2 DEF ClusterGrows, QueueInv, ClusterInv, Stages
    <2> HIDE DEF g
    <2> QED
      BY <2>2, <2>3, <2>4, GeneratorStepInv
  <1>3. CASE /\ cluster' = CancelCluster(k, i) \/ cluster' = cluster
             /\ Leaves(w) /\ sess' = sess
    <2>1. ClusterGrows /\ ClusterInv'
      BY <1>1, <1>3, CancelClusterKeeps
    <2>2. SessionsInv'
      BY <1>1, <1>3, <2>1 DEF QueueInv, SessionsInv, ClusterGrows, Stages
    <2>3. MovesTo(w, Idle)
      BY <1>1, <1>3, SMTT(30) DEF Leaves, MovesTo
    <2> QED
      BY <2>1, <2>2, <2>3, IdleFits, GeneratorStepInv
  <1> QED
    BY <1>2, <1>3 DEF RecordRunning

(* A request of the cluster that has ended leads on. *)
LEMMA PollSessionInv ==
    ASSUME QueueInv, NEW w \in Workers, PollSession(w)
    PROVE  QueueInv'
  <1> DEFINE k == worker[w].stage
             i == worker[w].id
             p == IF k < Stages THEN "get" ELSE "proved"
             n == IF k < Stages THEN k + 1 ELSE k
             h == [worker[w] EXCEPT !.pc = "mark"]
             g == [worker[w] EXCEPT !.pc = p, !.proof = cluster[k][i].head, !.stage = n]
  <1>1. /\ worker[w] \in Generators /\ k \in 1 .. Stages /\ worker[w].pc = "poll"
        /\ i \in 1 .. Len(cluster[k]) /\ UNCHANGED <<row, sess, cluster, subs, claims>>
    BY Busy DEF PollSession, Placed, Staged, Posted, Stages
  <1>2. CASE Goes(w, "mark")
    <2>1. /\ h \in Generators /\ h.pc = "mark" /\ h.lock = worker[w].lock
          /\ h.head = worker[w].head /\ h.stage = k /\ h.id = i
      BY <1>1 DEF Generators, Staged
    <2>2. MovesTo(w, h)
      BY <1>1, <1>2, Busy DEF Goes, MovesTo
    <2>3. Placed(h, cluster)
      BY <1>1, <2>1 DEF Placed, Stages
    <2>4. SameClaim(w, h)
      BY <1>1, <2>1, GoesOn, Zenon
    <2> HIDE DEF h
    <2> QED
      BY <1>1, <2>2, <2>3, <2>4, QuietStepInv
  <1>3. CASE worker' = [worker EXCEPT ![w].pc = p, ![w].proof = cluster[k][i].head,
                                      ![w].stage = n]
    <2>1. MovesTo(w, g)
      BY <1>1, <1>3, Busy, Zenon DEF MovesTo
    <2>2. /\ cluster[k][i].head \in Heads /\ n \in 1 .. Stages /\ n \in Nat /\ Stages # 0
          /\ p \in {"get", "proved"}
      <3>1. cluster[k] \in Seq(Requests) /\ Stages \in Nat
        BY <1>1 DEF QueueInv, ClusterInv, Stages, Requests
      <3>2. cluster[k][i] \in Requests
        BY <1>1, <3>1, SMTT(30)
      <3> QED
        BY <1>1, <3>1, <3>2 DEF Requests
    <2> HIDE DEF p, n
    <2>3. /\ g \in Generators /\ g.pc = p /\ g.lock = worker[w].lock
          /\ g.head = worker[w].head /\ g.stage = n
      BY <1>1, <2>2, Zenon DEF Generators, Staged
    <2> HIDE DEF g
    <2>4. SameClaim(w, g) /\ Placed(g, cluster)
      BY <1>1, <2>2, <2>3, GoesOn DEF Placed, Staged, Posted, Stages
    <2> QED
      BY <1>1, <2>1, <2>4, QuietStepInv
  <1> QED
    BY <1>2, <1>3, SMTT(30) DEF PollSession

(* A failed generation gives the job back or leaves. *)
LEMMA GivesBackMoves ==
    ASSUME QueueInv, NEW w \in Workers, worker[w].pc # "idle", GivesBack(w),
           UNCHANGED <<row, subs, claims>>
    PROVE  \E g : SameClaim(w, g) /\ MovesTo(w, g) /\ Placed(g, cluster)
  <1>1. CASE Leaves(w)
    <2>1. MovesTo(w, Idle)
      BY <1>1 DEF Leaves, MovesTo
    <2> QED
      BY <2>1, IdleFits
  <1>2. CASE worker' = [worker EXCEPT ![w].pc = "abandon", ![w].beats = FALSE]
    <2> DEFINE g == [worker[w] EXCEPT !.pc = "abandon", !.beats = FALSE]
    <2>1. MovesTo(w, g)
      BY <1>2, Busy, Zenon DEF MovesTo
    <2>2. /\ g \in Generators /\ g.pc = "abandon" /\ g.lock = worker[w].lock
          /\ g.head = worker[w].head
      BY Busy, Zenon DEF Generators
    <2>3. SameClaim(w, g) /\ Placed(g, cluster)
      BY <2>2, GoesOn, Zenon DEF Placed, Staged, Posted
    <2> HIDE DEF g
    <2> QED
      BY <2>1, <2>3
  <1> QED
    BY <1>1, <1>2 DEF GivesBack

(* A stage that failed is recorded for resubmission, and the job given back. *)
LEMMA MarkSubmittingInv ==
    ASSUME QueueInv, NEW w \in Workers, MarkSubmitting(w)
    PROVE  QueueInv'
  <1> DEFINE k == worker[w].stage
             i == worker[w].id
  <1>1. /\ worker[w] \in Generators /\ k \in 1 .. Stages /\ worker[w].pc = "mark"
        /\ i \in 1 .. Len(cluster[k]) /\ UNCHANGED <<row, cluster, subs, claims>>
    BY Busy DEF MarkSubmitting, Placed, Staged, Posted, Stages
  <1>2. PICK g : SameClaim(w, g) /\ MovesTo(w, g) /\ Placed(g, cluster)
    BY <1>1, GivesBackMoves DEF MarkSubmitting
  <1>3. CASE sess' = sess
    BY <1>1, <1>2, <1>3, QuietStepInv
  <1>4. CASE "authorized" \in RecordAuth(w) /\ sess' = Recorded(sess, k, i, "submitting")
    <2>1. ClusterInv' /\ SessionsInv'
      BY <1>1, <1>4, RecordAuthClaimed, RecordedKeeps
    <2>2. ClusterGrows
      BY <1>1 DEF ClusterGrows, QueueInv, ClusterInv, Stages
    <2>3. Placed(g, cluster')
      BY <1>1, <1>2
    <2> QED
      BY <1>2, <2>1, <2>2, <2>3, GeneratorStepInv
  <1> QED
    BY <1>3, <1>4 DEF MarkSubmitting

(* The enclaves prove for the head in the claimed job. *)
LEMMA ProveInEnclaveInv ==
    ASSUME QueueInv, NEW w \in Workers, ProveInEnclave(w)
    PROVE  QueueInv'
  <1> DEFINE g == [worker[w] EXCEPT !.pc = "proved", !.proof = worker[w].head]
  <1>1. worker[w] \in Generators /\ worker[w].pc = "prove"
        /\ UNCHANGED <<row, sess, cluster, subs, claims>>
    BY Busy DEF ProveInEnclave
  <1>2. CASE GivesBack(w)
    BY <1>1, <1>2, GivesBackMoves, QuietStepInv
  <1>3. CASE worker' = [worker EXCEPT ![w].pc = "proved", ![w].proof = worker[w].head]
    <2>1. MovesTo(w, g)
      BY <1>1, <1>3, Busy, Zenon DEF MovesTo
    <2>2. /\ g \in Generators /\ g.pc = "proved" /\ g.lock = worker[w].lock
          /\ g.head = worker[w].head /\ g.proof = worker[w].head
      BY <1>1, Zenon DEF Generators
    <2>3. SameClaim(w, g) /\ Placed(g, cluster)
      BY <1>1, <2>2, GoesOn, Zenon DEF Placed, Staged, Posted
    <2> HIDE DEF g
    <2> QED
      BY <1>1, <2>1, <2>3, QuietStepInv
  <1> QED
    BY <1>2, <1>3 DEF ProveInEnclave

(* The job is given back by the claim that holds it: it is queued again with an
   attempt left and its sessions, or fails without. *)
LEMMA AbandonProofInv ==
    ASSUME QueueInv, NEW w \in Workers, AbandonProof(w)
    PROVE  QueueInv'
  <1>1. Leaves(w) /\ UNCHANGED <<cluster, subs, claims>>
    BY DEF AbandonProof
  <1>2. CASE UNCHANGED <<row, sess>>
    <2>1. MovesTo(w, Idle)
      BY <1>1, <1>2 DEF Leaves, MovesTo
    <2> QED
      BY <1>1, <1>2, <2>1, IdleFits, QuietStepInv
  <1>3. CASE /\ Classify(row, worker[w].lock) = "authorized" /\ row' = Abandon(row)
             /\ sess' = IF Exhausted(row) THEN FailSessions(sess) ELSE sess
    <2>1. Heads' = Heads /\ Stages' = Stages /\ NoHead \in Heads
      BY <1>1 DEF Heads, Bound, Stages
    <2>2. row \in Rows(Heads) /\ claims \in Nat /\ row.head \in Heads
      BY DEF QueueInv, RowInv, Rows
    <2>3. row.job = "CLAIMED" /\ row.lease = "live" /\ row.by = 0 /\ row.attempt >= 1
      BY <1>3 DEF Classify, QueueInv, RowInv
    <2>4. row' \in Rows(Heads)
      BY <1>3, <2>1, <2>2, RowsChanged, Zenon
    <2>5. /\ row'.lock = 0 /\ row'.lease = "none" /\ row'.attempt = row.attempt
          /\ row'.by = 0 /\ row'.retries = row.retries
          /\ row'.job = IF Exhausted(row) THEN "FAILED" ELSE "PENDING"
      BY <1>3, <2>2, <2>3 DEF Abandon, Unlocked, Rows
    <2>6. RowInv'
      BY <1>1, <2>1, <2>2, <2>3, <2>4, <2>5, BudgetAssumption
         DEF RowInv, QueueInv, Ended, Exhausted, Rows
    <2>7. RowStep
      BY <1>1, <2>5 DEF RowStep, Authorised
    <2>8. ClusterInv' /\ SessionsInv'
      <3>1. CASE Exhausted(row)
        BY <3>1, <1>1, <1>3, FailSessionsEnds, SMTT(30)
      <3>2. CASE ~Exhausted(row)
        BY <3>2, <1>1, <1>3, <2>1, <2>2, <2>3, <2>5
           DEF QueueInv, ClusterInv, SessionsInv, Rows
      <3> QED
        BY <3>1, <3>2
    <2> QED
      BY <2>6, <2>7, <2>8, RowStepKeeps DEF QueueInv
  <1> QED
    BY <1>2, <1>3 DEF AbandonProof

(* A generated proof goes from the worker to a submission, and its claim with it. *)
LEMMA SpawnSubmissionInv ==
    ASSUME QueueInv, NEW w \in Workers, SpawnSubmission(w)
    PROVE  QueueInv'
  <1>1. Leaves(w) /\ UNCHANGED <<row, sess, cluster, claims>> /\ worker[w].pc = "proved"
    BY DEF SpawnSubmission
  <1>2. CASE subs' = subs
    <2>1. MovesTo(w, Idle)
      BY <1>1, <1>2 DEF Leaves, MovesTo
    <2> QED
      BY <1>1, <1>2, <2>1, IdleFits, QuietStepInv
  <1>3. CASE subs' = subs \cup {Submission(worker[w].lock, worker[w].proof)}
    <2> DEFINE t == Submission(worker[w].lock, worker[w].proof)
    <2>1. Heads' = Heads /\ Stages' = Stages /\ Generators' = Generators
      BY <1>1 DEF Heads, Bound, Stages, Generators
    <2>2. RowInv' /\ ClusterInv' /\ SessionsInv'
      BY <1>1, <2>1 DEF QueueInv, RowInv, ClusterInv, SessionsInv, Ended
    <2>3. Idle.pc = "idle" /\ Idle.lock = 0 /\ Idle \in Generators /\ Placed(Idle, cluster)
      BY DEF Idle, Generators, Heads, Placed, Staged, Posted
    <2>4. /\ worker' \in [Workers -> Generators] /\ worker'[w] = Idle
          /\ \A v \in Workers : v # w => worker'[v] = worker[v]
      BY <1>1, <2>3, Busy DEF Leaves
    <2>5. WorkersInv'
      BY <1>1, <2>1, <2>3, <2>4, SMTT(30) DEF QueueInv, WorkersInv
    <2>6. /\ t.lock = worker[w].lock /\ t.proof = worker[w].proof /\ t.cur = "read"
          /\ t.old = "none" /\ t.lock \in 1 .. claims /\ t.proof \in Heads /\ t.lock \in Nat
      BY <1>1, Busy DEF Submission, QueueInv, WorkersInv, RowInv, Generators
    <2>7. t \in Submissions /\ Submissions' = Submissions
      BY <2>1, <2>6, SMTT(30) DEF Submission, Submissions, Calling
    <2>8. /\ \A s \in subs : s.lock # t.lock
          /\ \A v \in Workers : worker'[v].pc # "idle" => worker'[v].lock # t.lock
          /\ row.by # t.lock
      BY <1>1, <2>3, <2>4, <2>6 DEF QueueInv, HandsInv
    <2> HIDE DEF t
    <2>9. subs' = subs \cup {t}
      BY <1>3, SMTT(30) DEF t
    <2>10. HandsInv'
      <3>1. \A v \in Workers : worker'[v].pc # "idle" => v # w
        BY <2>3, <2>4
      <3>2. (\A v, u \in Workers :
               worker[u].pc # "idle" /\ worker[v].lock = worker[u].lock => v = u)'
        <4>1. \A u \in Workers : worker[u].pc # "idle" => worker[u].lock # 0
          BY DEF QueueInv, WorkersInv
        <4> QED
          BY <2>3, <2>4, <4>1 DEF QueueInv, HandsInv
      <3>3. \A s, u \in subs' : s.lock = u.lock => s = u
        BY <2>8, <2>9 DEF QueueInv, HandsInv
      <3>4. \A s \in subs' : s.lock \in 1 .. claims
        BY <2>6, <2>9 DEF QueueInv, HandsInv
      <3>5. \A v \in Workers : worker'[v].pc # "idle" =>
              row.by # worker'[v].lock /\ \A s \in subs' : s.lock # worker'[v].lock
        BY <2>4, <2>8, <2>9, <3>1 DEF QueueInv, HandsInv
      <3>6. subs' \subseteq Submissions
        BY <2>7, <2>9 DEF QueueInv, HandsInv
      <3> QED
        BY <1>1, <2>7, <3>2, <3>3, <3>4, <3>5, <3>6 DEF HandsInv
    <2>11. AnswersInv'
      BY <1>1, <2>6, <2>8, <2>9, SMTT(30) DEF QueueInv, AnswersInv, Authorised
    <2>12. HeadsInv'
      BY <1>1, <2>1, <2>3, <2>4, <2>6, <2>9 DEF QueueInv, HeadsInv, Authorised
    <2> QED
      BY <2>2, <2>5, <2>10, <2>11, <2>12 DEF QueueInv
  <1> QED
    BY <1>2, <1>3 DEF SpawnSubmission

(* A claim takes a lock nobody had, so it authorises no one who had one. *)
LEMMA ClaimOnceInv ==
    ASSUME QueueInv, NEW w \in Workers, ClaimOnce(w)
    PROVE  QueueInv'
  <1> DEFINE p == IF Stages = 0 THEN "prove" ELSE "get"
             k == IF Stages = 0 THEN 0 ELSE 1
             g == [Idle EXCEPT !.pc = p, !.lock = row'.lock, !.head = row.head,
                               !.stage = k, !.beats = TRUE]
  <1>1. /\ worker[w].pc = "idle" /\ Claimable(row) /\ claims' = claims + 1
        /\ row' = Claim(row, claims') /\ UNCHANGED <<sess, cluster, subs>>
        /\ worker' = worker \/ worker' = [worker EXCEPT ![w] = g]
    BY DEF ClaimOnce
  <1>2. /\ Heads' = Heads /\ Stages' = Stages /\ Generators' = Generators
        /\ Submissions' = Submissions /\ NoHead \in Heads
    BY <1>1 DEF Heads, Bound, Stages, Generators, Submissions
  <1>3. /\ row \in Rows(Heads) /\ claims \in Nat /\ row.head \in Heads /\ claims' \in Nat
        /\ row.attempt \in Nat
    BY <1>1 DEF QueueInv, RowInv, Rows
  <1>4. row.job \in {"PENDING", "CLAIMED"} /\ row.attempt < MaxAttempts /\ row.by = 0
    BY <1>1 DEF Claimable, QueueInv, RowInv
  <1>5. row' \in Rows(Heads)
    BY <1>1, <1>2, <1>3, RowsChanged, Zenon
  <1>6. /\ row'.job = "CLAIMED" /\ row'.lock = claims + 1 /\ row'.lease = "live"
        /\ row'.attempt = row.attempt + 1 /\ row'.by = 0 /\ row'.retries = row.retries
        /\ row'.head = row.head
    BY <1>1, <1>3, <1>4 DEF Claim, Rows
  <1>7. RowInv'
    BY <1>1, <1>2, <1>3, <1>4, <1>5, <1>6, BudgetAssumption DEF RowInv, QueueInv, Ended
  <1>8. ClusterInv' /\ SessionsInv'
    BY <1>1, <1>2, <1>6 DEF QueueInv, ClusterInv, SessionsInv
  <1>9. Idle \in Generators /\ Idle.lock = 0 /\ Idle.pc = "idle"
    BY DEF Idle, Generators, Heads
  <1>10. /\ g \in Generators /\ g.lock = claims + 1 /\ g.head = row.head
         /\ g.pc = p /\ p = (IF Stages = 0 THEN "prove" ELSE "get")
         /\ g.stage = k /\ k = (IF Stages = 0 THEN 0 ELSE 1)
    <2>1. p \in {"prove", "get"} /\ k \in Nat /\ row'.lock \in Nat
      BY <1>3, <1>6
    <2>2. p = (IF Stages = 0 THEN "prove" ELSE "get") /\ k = (IF Stages = 0 THEN 0 ELSE 1)
      OBVIOUS
    <2> HIDE DEF p, k
    <2>3. g \in Generators /\ g.pc = p /\ g.stage = k /\ g.head = row.head /\ g.lock = row'.lock
      BY <1>3, <1>9, <2>1, Zenon DEF Generators, Staged
    <2> QED
      BY <1>6, <2>2, <2>3
  <1> HIDE DEF g, p, k
  <1>11. Placed(g, cluster)
    <2>1. Stages \in Nat
      BY DEF QueueInv, ClusterInv, Stages
    <2> QED
      BY <1>10, <2>1 DEF Placed, Staged, Posted, Stages
  <1>12. /\ worker' \in [Workers -> Generators]
         /\ \A v \in Workers : worker'[v] = worker[v] \/ (v = w /\ worker'[v] = g)
    BY <1>1, <1>10, Busy
  <1>13. \A v \in Workers : worker[v].pc # "idle" => worker[v].lock \in 1 .. claims
    BY DEF QueueInv, WorkersInv
  <1>14. \A s \in subs : s.lock \in 1 .. claims
    BY DEF QueueInv, HandsInv
  <1>15. \A v \in Workers : worker'[v].pc = "idle" <=> worker'[v] = Idle
    BY <1>9, <1>10, <1>12 DEF QueueInv, WorkersInv
  <1>16. \A v \in Workers : worker'[v].pc # "idle" => worker'[v].lock \in 1 .. claims'
    BY <1>1, <1>3, <1>10, <1>12, <1>13
  <1>17. \A v \in Workers : Placed(worker'[v], cluster)
    BY <1>11, <1>12, Busy
  <1>18. WorkersInv'
    BY <1>1, <1>2, <1>12, <1>15, <1>16, <1>17 DEF WorkersInv
  <1>19. \A v \in Workers : worker[v].lock <= claims /\ worker[v].lock \in Nat
    <2>1. \A v \in Workers : worker[v].pc = "idle" => worker[v].lock = 0
      BY <1>9 DEF QueueInv, WorkersInv
    <2> QED
      BY <1>3, <1>13, <2>1
  <1>20. HandsInv'
    <2>1. \A u, v \in Workers : worker'[v].pc # "idle" /\ worker'[u].lock = worker'[v].lock => u = v
      BY <1>3, <1>10, <1>12, <1>19, SMTT(30) DEF QueueInv, HandsInv
    <2>2. \A v \in Workers : worker'[v].pc # "idle" =>
            row'.by # worker'[v].lock /\ \A s \in subs : s.lock # worker'[v].lock
      BY <1>3, <1>6, <1>10, <1>12, <1>13, <1>14 DEF QueueInv, HandsInv
    <2>3. \A s \in subs : s.lock \in 1 .. claims'
      BY <1>1, <1>3, <1>14
    <2> QED
      BY <1>1, <1>2, <2>1, <2>2, <2>3, SMTT(30) DEF QueueInv, HandsInv
  <1>21. AnswersInv'
    BY <1>1, <1>3, <1>6, <1>14, SMTT(30) DEF QueueInv, AnswersInv, Authorised
  <1>22. HeadsInv'
    <2>1. \A v \in Workers : worker'[v].pc # "idle" /\ worker'[v].lock = row'.lock => worker'[v] = g
      BY <1>3, <1>6, <1>12, <1>13
    <2>2. \A s \in subs : s.lock # row'.lock
      BY <1>3, <1>6, <1>14
    <2>3. g.pc # "proved" /\ \A v \in Workers : worker'[v].pc = "proved" => worker'[v] = worker[v]
      BY <1>10, <1>12
    <2> QED
      BY <1>1, <1>2, <1>6, <1>10, <2>1, <2>2, <2>3, SMTT(30) DEF QueueInv, HeadsInv, Authorised
  <1> QED
    BY <1>7, <1>8, <1>18, <1>20, <1>21, <1>22 DEF QueueInv

-----------------------------------------------------------------------------
(* A submission takes a step: the row stays, or stores its proof under its claim;
   and what it was told is right. *)
SubmissionStep(s, t) ==
  /\ t \in Submissions /\ t.lock = s.lock /\ t.proof = s.proof
  /\ Replaces(s, t)
  /\ row' = row \/ (Authorised(s.lock) /\ row' = Complete(row, s.lock, s.proof))
  /\ t.cur \in {"reread", "rejected"} => ~Authorised(s.lock)'
  /\ t.cur = "rejected" => row'.by # s.lock
  /\ UNCHANGED <<sess, cluster, worker, claims>>

(* The claim that stores a proof is the one that has the job. *)
LEMMA SubmissionStepInv ==
    ASSUME QueueInv, NEW s \in subs, NEW t, SubmissionStep(s, t)
    PROVE  QueueInv'
  <1>1. /\ Heads' = Heads /\ Stages' = Stages /\ Generators' = Generators
        /\ Submissions' = Submissions /\ NoHead \in Heads
    BY Zenon DEF SubmissionStep, Heads, Bound, Stages, Generators, Submissions
  <1>2. /\ row \in Rows(Heads) /\ claims \in Nat /\ s \in Submissions /\ s.proof \in Heads
        /\ s.lock \in 1 .. claims /\ s.lock \in Nat
    BY SMTT(30) DEF QueueInv, RowInv, HandsInv, Submissions
  <1>3. \/ row' = row
        \/ /\ row.job = "CLAIMED" /\ row.lock = s.lock /\ row.lease = "live" /\ row.by = 0
           /\ row' \in Rows(Heads) /\ row'.job = "SUCCEEDED" /\ row'.lock = s.lock
           /\ row'.lease = "live" /\ row'.attempt = row.attempt /\ row'.retries = row.retries
           /\ row'.head = row.head /\ row'.result = s.proof /\ row'.by = s.lock
    <2>1. CASE row' = row
      BY <2>1
    <2>2. CASE Authorised(s.lock) /\ row' = Complete(row, s.lock, s.proof)
      <3>1. row' \in Rows(Heads)
        BY <1>1, <1>2, <2>2, RowsChanged, Zenon
      <3>2. row.job = "CLAIMED" /\ row.lock = s.lock /\ row.lease = "live" /\ row.by = 0
        BY <2>2 DEF Authorised, QueueInv, RowInv
      <3>3. /\ row'.job = "SUCCEEDED" /\ row'.lock = row.lock /\ row'.lease = row.lease
            /\ row'.attempt = row.attempt /\ row'.retries = row.retries
            /\ row'.head = row.head /\ row'.result = s.proof /\ row'.by = s.lock
        BY <1>2, <2>2 DEF Complete, Rows
      <3> QED
        BY <3>1, <3>2, <3>3
    <2> QED
      BY <2>1, <2>2 DEF SubmissionStep
  <1>4. RowInv'
    BY <1>1, <1>2, <1>3 DEF QueueInv, RowInv, Ended, SubmissionStep
  <1>5. ClusterInv' /\ SessionsInv' /\ WorkersInv'
    <2>1. UNCHANGED <<sess, cluster, worker, claims>>
      BY DEF SubmissionStep
    <2>2. ClusterInv' /\ SessionsInv'
      BY <1>1, <1>3, <2>1 DEF QueueInv, ClusterInv, SessionsInv
    <2> QED
      BY <1>1, <2>1, <2>2 DEF QueueInv, WorkersInv
  <1>6. /\ \A u \in subs' : u \in subs \/ u = t
        /\ \A u \in subs' : u # t => u.lock # s.lock
        /\ t \in subs'
    BY SMTT(30) DEF SubmissionStep, Replaces, QueueInv, HandsInv
  <1>7. HandsInv'
    <2>1. \A u, v \in subs' : u.lock = v.lock => u = v
      BY <1>6, SMTT(30) DEF SubmissionStep, QueueInv, HandsInv
    <2>2. \A w \in Workers : worker[w].pc # "idle" =>
             row'.by # worker[w].lock /\ \A u \in subs' : u.lock # worker[w].lock
      BY <1>3, <1>6, SMTT(30) DEF SubmissionStep, QueueInv, HandsInv
    <2>3. subs' \subseteq Submissions /\ \A u \in subs' : u.lock \in 1 .. claims
      BY <1>2, <1>6 DEF SubmissionStep, QueueInv, HandsInv
    <2> QED
      BY <1>1, <2>1, <2>2, <2>3, Zenon DEF SubmissionStep, QueueInv, HandsInv
  <1>8. AnswersInv'
    <2>1. ASSUME NEW u \in subs'
          PROVE  /\ u.cur \in {"reread", "rejected"} => ~Authorised(u.lock)'
                 /\ u.cur = "rejected" => row'.by # u.lock
                 /\ row'.by = u.lock => row'.result = u.proof
      <3>1. CASE u = t
        BY <3>1, <1>3 DEF SubmissionStep, QueueInv, AnswersInv
      <3>2. CASE u # t
        <4>1. u \in subs /\ u.lock # s.lock
          BY <3>2, <1>6
        <4> QED
          BY <4>1, <1>3 DEF QueueInv, AnswersInv, Authorised
      <3> QED
        BY <3>1, <3>2, SMTT(30)
    <2> QED
      BY <2>1 DEF AnswersInv, Authorised
  <1>9. HeadsInv'
    <2>1. \A u \in subs' : \E v \in subs : u.lock = v.lock /\ u.proof = v.proof
      BY <1>6 DEF SubmissionStep
    <2>2. \A l : Authorised(l)' => Authorised(l) /\ row'.head = row.head
      BY <1>3 DEF Authorised
    <2>3. Stages = 0 /\ row'.job = "SUCCEEDED" => row'.result = row'.head
      <3>1. CASE row' = row
        BY <3>1 DEF QueueInv, HeadsInv
      <3>2. CASE row' # row
        BY <3>2, <1>3, SMTT(30) DEF QueueInv, HeadsInv, Authorised
      <3> QED
        BY <3>1, <3>2
    <2>4. ASSUME Stages = 0, NEW w \in Workers, worker[w].pc # "idle"
          PROVE  /\ Authorised(worker[w].lock)' => worker[w].head = row'.head
                 /\ worker[w].pc = "proved" => worker[w].proof = worker[w].head
      BY <2>4, <1>3 DEF SubmissionStep, QueueInv, HeadsInv, Authorised
    <2>5. ASSUME Stages = 0, NEW u \in subs', Authorised(u.lock)'
          PROVE  u.proof = row'.head
      BY <2>1, <2>2, <2>5 DEF QueueInv, HeadsInv
    <2> QED
      BY <1>1, <2>3, <2>4, <2>5 DEF SubmissionStep, HeadsInv
  <1> QED
    BY <1>4, <1>5, <1>7, <1>8, <1>9, SMTT(30) DEF QueueInv

(* classify authorises the claim that holds the job with a live lease, and no other. *)
LEMMA ClassifyAuthorises ==
    ASSUME QueueInv, NEW lock
    PROVE  Classify(row, lock) = "authorized" <=> Authorised(lock)
  BY DEF QueueInv, RowInv, Rows, Classify, Authorised, Ended

(* The step of a call: it stores the proof only under a claim that holds the job, and
   refuses only what is not stored and can no longer be. *)
LEMMA CallStepRight ==
    ASSUME QueueInv, NEW s \in subs, NEW pc \in Calling
    PROVE  LET c == CallStep(s, pc) IN
           /\ c.to \in {"accepted", "rejected", "update", "reread"}
           /\ c.row = row \/ (Authorised(s.lock) /\ c.row = Complete(row, s.lock, s.proof))
           /\ c.to = "reread" => c.row = row /\ ~Authorised(s.lock)
           /\ c.to = "rejected" /\ (pc = "reread" => ~Authorised(s.lock))
                => c.row = row /\ ~Authorised(s.lock) /\ row.by # s.lock
  <1>1. Classify(row, s.lock) = "authorized" <=> Authorised(s.lock)
    BY ClassifyAuthorises
  <1>2. Guard(s) <=> Authorised(s.lock)
    BY <1>1 DEF Guard
  <1>3. /\ Answer(s) \in {"accepted", "rejected", "update"}
        /\ Answer(s) = "update" => Authorised(s.lock)
        /\ Answer(s) = "rejected" => ~Authorised(s.lock) /\ row.by # s.lock
    <2>1. row.by = s.lock => row.job = "SUCCEEDED" /\ row.lock = s.lock /\ row.result = s.proof
      BY DEF QueueInv, RowInv, HandsInv, AnswersInv
    <2>2. Authorised(s.lock) => row.job # "SUCCEEDED"
      BY DEF Authorised
    <2> QED
      BY <1>1, <2>1, <2>2 DEF Answer
  <1>4. CASE pc = "update"
    BY <1>2, <1>4 DEF CallStep
  <1>5. CASE pc # "update"
    <2> DEFINE to == IF pc = "reread" /\ Answer(s) = "update" THEN "rejected" ELSE Answer(s)
    <2>1. CallStep(s, pc) = [to |-> to, row |-> row]
      BY <1>5 DEF CallStep
    <2>2. to = "rejected" /\ (pc = "reread" => ~Authorised(s.lock)) => Answer(s) = "rejected"
      BY <1>3
    <2>3. to \in {"accepted", "rejected", "update"}
      BY <1>3
    <2> HIDE DEF to
    <2> QED
      BY <1>3, <2>1, <2>2, <2>3
  <1> QED
    BY <1>4, <1>5

(* The steps of the calls of a submission, waited for or not. *)
LEMMA SubmitStepInv ==
    ASSUME QueueInv, NEW s \in subs, SubmitStep(s)
    PROVE  QueueInv'
  <1> DEFINE c == CallStep(s, s.cur)
  <1>1. s \in Submissions /\ s.cur \in Calling
    BY DEF SubmitStep, QueueInv, HandsInv
  <1>2. s.cur = "reread" => ~Authorised(s.lock)
    BY DEF QueueInv, AnswersInv
  <1>3. /\ c.to \in {"accepted", "rejected", "update", "reread"}
        /\ c.row = row \/ (Authorised(s.lock) /\ c.row = Complete(row, s.lock, s.proof))
        /\ c.to = "reread" => c.row = row /\ ~Authorised(s.lock)
        /\ c.to = "rejected" => c.row = row /\ ~Authorised(s.lock) /\ row.by # s.lock
    BY <1>1, <1>2, CallStepRight
  <1>4. /\ row' = c.row /\ UNCHANGED <<sess, cluster, worker, claims>>
        /\ Replaces(s, [s EXCEPT !.cur = c.to]) \/ Replaces(s, [s EXCEPT !.cur = "read"])
    BY DEF SubmitStep
  <1> HIDE DEF c
  <1>5. ASSUME NEW to \in {c.to, "read"}, Replaces(s, [s EXCEPT !.cur = to])
        PROVE  QueueInv'
    <2> DEFINE t == [s EXCEPT !.cur = to]
    <2>1. to \in Calling \cup {"accepted", "rejected", "dead"}
      BY <1>3, <1>5 DEF Calling
    <2>2. t \in Submissions /\ t.lock = s.lock /\ t.proof = s.proof /\ t.cur = to
      BY <1>1, <2>1 DEF Submissions
    <2>3. to \in {"reread", "rejected"} => to = c.to
      BY <1>5
    <2>4. to \in {"reread", "rejected"} => ~Authorised(s.lock)'
      BY <1>3, <1>4, <2>3 DEF Authorised
    <2>5. to = "rejected" => row'.by # s.lock
      BY <1>3, <1>4, <2>3
    <2>6. Replaces(s, t)
      BY <1>5
    <2> HIDE DEF t
    <2>7. SubmissionStep(s, t)
      BY <1>3, <1>4, <2>2, <2>4, <2>5, <2>6 DEF SubmissionStep
    <2> QED
      BY <2>7, SubmissionStepInv
  <1> QED
    BY <1>4, <1>5

(* A call left running may store the proof, but only under a claim that still holds. *)
LEMMA ForgottenStepInv ==
    ASSUME QueueInv, NEW s \in subs, ForgottenStep(s)
    PROVE  QueueInv'
  <1> DEFINE c == CallStep(s, s.old)
             to == IF c.to \in Calling THEN c.to ELSE "none"
             t == [s EXCEPT !.old = to]
  <1>1. s \in Submissions /\ s.old \in Calling
    BY DEF ForgottenStep, QueueInv, HandsInv
  <1>2. c.row = row \/ (Authorised(s.lock) /\ c.row = Complete(row, s.lock, s.proof))
    BY <1>1, CallStepRight
  <1>3. row' = c.row /\ UNCHANGED <<sess, cluster, worker, claims>> /\ Replaces(s, t)
    BY DEF ForgottenStep
  <1>4. to \in Calling \cup {"none"}
    OBVIOUS
  <1> HIDE DEF c, to
  <1>5. t \in Submissions /\ t.lock = s.lock /\ t.proof = s.proof /\ t.cur = s.cur
    BY <1>1, <1>4 DEF Submissions
  <1> HIDE DEF t
  <1>6. s.cur \in {"reread", "rejected"} => row' = row /\ ~Authorised(s.lock)
    BY <1>2, <1>3 DEF QueueInv, AnswersInv
  <1>7. s.cur = "rejected" => row.by # s.lock
    BY DEF QueueInv, AnswersInv
  <1>8. s.cur \in {"reread", "rejected"} => ~Authorised(s.lock)'
    BY <1>6, SMTT(30) DEF Authorised
  <1>9. SubmissionStep(s, t)
    BY <1>2, <1>3, <1>5, <1>6, <1>7, <1>8 DEF SubmissionStep
  <1> QED
    BY <1>9, SubmissionStepInv

(* A task that stops waiting calls again or ends; the call goes on. *)
LEMMA SubmitTimesOutInv ==
    ASSUME QueueInv, NEW s \in subs, SubmitTimesOut(s)
    PROVE  QueueInv'
  <1>1. s \in Submissions /\ s.cur \in Calling
    BY DEF SubmitTimesOut, QueueInv, HandsInv
  <1>2. PICK pc \in {"read", "dead"} : Replaces(s, [s EXCEPT !.cur = pc, !.old = s.cur])
    BY Zenon DEF SubmitTimesOut
  <1> DEFINE t == [s EXCEPT !.cur = pc, !.old = s.cur]
  <1>3. t \in Submissions /\ t.lock = s.lock /\ t.proof = s.proof /\ t.cur = pc
    BY <1>1, Zenon DEF Submissions, Calling
  <1>4. SubmissionStep(s, t)
    BY <1>2, <1>3 DEF SubmissionStep, SubmitTimesOut
  <1> HIDE DEF t
  <1> QED
    BY <1>4, SubmissionStepInv

(* A task that is done is forgotten. *)
LEMMA SubmissionEndsInv ==
    ASSUME QueueInv, NEW s \in subs, SubmissionEnds(s)
    PROVE  QueueInv'
  <1>1. /\ Heads' = Heads /\ Stages' = Stages /\ Generators' = Generators
        /\ Submissions' = Submissions
    BY DEF SubmissionEnds, Heads, Bound, Stages, Generators, Submissions
  <1>2. subs' \subseteq subs /\ UNCHANGED <<row, sess, cluster, worker, claims>>
    BY DEF SubmissionEnds
  <1>3. RowInv' /\ ClusterInv' /\ SessionsInv' /\ WorkersInv'
    BY <1>1, <1>2, SMTT(30) DEF QueueInv, RowInv, ClusterInv, SessionsInv, WorkersInv, Ended
  <1>4. HandsInv' /\ AnswersInv' /\ HeadsInv'
    BY <1>1, <1>2 DEF QueueInv, HandsInv, AnswersInv, HeadsInv, Authorised
  <1> QED
    BY <1>3, <1>4 DEF QueueInv

(* A request of the cluster ends by itself. *)
LEMMA ClusterEndsInv ==
    ASSUME QueueInv, NEW k \in 1 .. Stages, NEW i \in 1 .. MaxSubmits, ClusterEnds(k, i)
    PROVE  QueueInv'
  <1>1. PICK st \in {"done", "failed"} : cluster' = [cluster EXCEPT ![k][i].st = st]
    BY Zenon DEF ClusterEnds
  <1>2. /\ i \in 1 .. Len(cluster[k]) /\ cluster[k][i].st = "pending"
        /\ UNCHANGED <<row, sess, worker, subs, claims>>
    <2>1. Len(cluster[k]) \in Nat
      BY DEF QueueInv, ClusterInv, Stages
    <2> QED
      BY <2>1, QueueAssumption DEF ClusterEnds
  <1>3. ClusterGrows /\ ClusterInv'
    BY <1>1, <1>2, RequestEnds, Zenon
  <1>4. /\ Heads' = Heads /\ Stages' = Stages /\ Generators' = Generators
        /\ Submissions' = Submissions
    BY <1>3 DEF ClusterGrows, Heads, Bound, Stages, Generators, Submissions
  <1>5. RowInv' /\ SessionsInv'
    BY <1>2, <1>4 DEF QueueInv, RowInv, SessionsInv, Ended
  <1>6. \A w \in Workers : Placed(worker[w], cluster')
    BY <1>3, GrowthKeepsPlaces DEF QueueInv, WorkersInv, Generators
  <1>7. WorkersInv'
    BY <1>2, <1>4, <1>6, SMTT(30) DEF QueueInv, WorkersInv
  <1>8. HandsInv' /\ AnswersInv' /\ HeadsInv'
    BY <1>2, <1>4 DEF QueueInv, HandsInv, AnswersInv, HeadsInv, Authorised
  <1> QED
    BY <1>3, <1>5, <1>7, <1>8 DEF QueueInv

(* Nothing happens. *)
LEMMA QueueStutters ==
    ASSUME QueueInv, UNCHANGED vars
    PROVE  QueueInv'
  <1>1. /\ Heads' = Heads /\ Stages' = Stages /\ Generators' = Generators
        /\ Submissions' = Submissions
    BY SMTT(30) DEF vars, Heads, Bound, Stages, Generators, Submissions
  <1>2. RowInv' /\ ClusterInv' /\ SessionsInv' /\ WorkersInv'
    <2>1. RowInv'
      BY <1>1 DEF vars, QueueInv, RowInv, Ended
    <2>2. ClusterInv'
      BY <1>1 DEF vars, QueueInv, ClusterInv
    <2>3. SessionsInv'
      BY <1>1 DEF vars, QueueInv, SessionsInv
    <2>4. WorkersInv'
      BY <1>1 DEF vars, QueueInv, WorkersInv
    <2> QED
      BY <2>1, <2>2, <2>3, <2>4
  <1>3. HandsInv' /\ AnswersInv' /\ HeadsInv'
    BY <1>1 DEF vars, QueueInv, HandsInv, AnswersInv, HeadsInv, Authorised
  <1> QED
    BY <1>2, <1>3 DEF QueueInv

(* Every step keeps the inductive invariant. *)
LEMMA QueueStep ==
    ASSUME QueueInv, [Next]_vars
    PROVE  QueueInv'
  <1>1. CASE \E h \in Bound.heads : ProveBlockRange(h)
    BY <1>1, ProveBlockRangeInv
  <1>2. CASE CancelProofRequest \/ DeleteProofRequest \/ Poll \/ LeaseEnds
    BY <1>2, CancelInv, DeleteInv, PollInv, LeaseEndsInv
  <1>3. ASSUME NEW w \in Workers, GenerationStep(w)
        PROVE  QueueInv'
    BY <1>3, GetSessionInv, FindProofIdInv, CreateClusterRequestInv, RecordRunningInv,
       PollSessionInv, MarkSubmittingInv, ProveInEnclaveInv, AbandonProofInv,
       SpawnSubmissionInv, StopSessionInv DEF GenerationStep
  <1>4. ASSUME NEW w \in Workers, ClaimOnce(w) \/ GenerationStops(w) \/ HeartbeatFails(w)
                                  \/ HeartbeatCancelled(w)
        PROVE  QueueInv'
    BY <1>4, ClaimOnceInv, StopsInv, HeartbeatCancelledInv
  <1>5. CASE Submitting \/ \E s \in subs : SubmitTimesOut(s)
    BY <1>5, SubmitStepInv, ForgottenStepInv, SubmissionEndsInv, SubmitTimesOutInv DEF Submitting
  <1>6. CASE \E k \in 1 .. Stages : \E i \in 1 .. MaxSubmits : ClusterEnds(k, i)
    BY <1>6, ClusterEndsInv
  <1> QED
    BY <1>1, <1>2, <1>3, <1>4, <1>5, <1>6, QueueStutters DEF Next

(* The invariant of the queue holds in every reachable state. *)
THEOREM QueueInvariant == Spec => []QueueInv
  BY QueueInit, QueueStep, PTL DEF Spec

(* At most one request of a stage is pending: the last. *)
LEMMA OnePending ==
    ASSUME QueueInv
    PROVE  OneClusterRequest
  <1>1. ASSUME NEW k \in 1 .. Stages
        PROVE  Cardinality({i \in 1 .. Len(cluster[k]) : cluster[k][i].st = "pending"}) <= 1
    <2> DEFINE P == {i \in 1 .. Len(cluster[k]) : cluster[k][i].st = "pending"}
    <2>1. Len(cluster[k]) \in Nat
      BY DEF QueueInv, ClusterInv, Stages
    <2>2. P \subseteq {Len(cluster[k])}
      BY <2>1 DEF QueueInv, ClusterInv
    <2> HIDE DEF P
    <2>3. IsFiniteSet({Len(cluster[k])}) /\ Cardinality({Len(cluster[k])}) = 1
      BY FS_Singleton, Zenon
    <2>4. Cardinality(P) <= 1
      BY <2>2, <2>3, FS_Subset
    <2> QED
      BY <2>4 DEF P
  <1> QED
    BY <1>1 DEF OneClusterRequest

(* The work spent on a request is bounded for every budget, however claims are lost,
   taken over, abandoned and retried: no job is claimed more often than
   reclaim_attempts or requeued more often than max_proof_retries, and no two requests
   of a stage run on the cluster. *)
THEOREM WorkIsBounded == Spec => []WorkBounded
  <1>1. QueueInv => TypeOK
    <2> SUFFICES ASSUME QueueInv PROVE TypeOK
      OBVIOUS
    <2>1. /\ row.job \in {"ABSENT", "PENDING", "CLAIMED", "SUCCEEDED", "FAILED"}
          /\ row.lock \in 0 .. claims /\ row.by \in 0 .. claims
          /\ row.lease \in {"none", "live", "over"}
          /\ row.job # "CLAIMED" => row.lease = "none" \/ Ended(row)
          /\ row.head \in Bound.heads \cup {NoHead} /\ row.result \in Bound.heads \cup {NoHead}
      BY DEF QueueInv, RowInv, Rows, Heads
    <2>2. ASSUME NEW k \in 1 .. Stages
          PROVE  /\ sess[k].st \in {"none", "submitting", "running"}
                 /\ sess[k].ended \subseteq 1 .. MaxSubmits
                 /\ sess[k].id \in 0 .. Len(cluster[k])
                 /\ Len(cluster[k]) <= MaxSubmits
      <3>1. Len(cluster[k]) \in Nat
        BY DEF QueueInv, ClusterInv, Stages
      <3>2. sess[k] \in [id : Nat, st : {"none", "submitting", "running"},
                         ended : SUBSET (1 .. MaxSubmits)]
        BY DEF QueueInv, ClusterInv
      <3>3. sess[k].id <= Len(cluster[k]) /\ Len(cluster[k]) <= MaxSubmits
        BY DEF QueueInv, ClusterInv
      <3> QED
        BY <3>1, <3>2, <3>3
    <2>3. ASSUME NEW w \in Workers
          PROVE  worker[w].lock \in 0 .. claims /\ (worker[w].pc = "idle" <=> worker[w] = Idle)
      <3>1. Idle.lock = 0 /\ claims \in Nat
        BY DEF Idle, QueueInv, RowInv
      <3> QED
        BY <3>1 DEF QueueInv, WorkersInv
    <2>4. \A s \in subs : s.cur \in Calling \cup {"accepted", "rejected", "dead"}
                           /\ s.old \in Calling \cup {"none"}
      BY DEF QueueInv, HandsInv, Submissions
    <2> QED
      BY <2>1, <2>2, <2>3, <2>4 DEF TypeOK
  <1>2. QueueInv => BudgetsKept
    BY DEF QueueInv, RowInv, BudgetsKept
  <1>3. QueueInv => WorkBounded
    BY <1>1, <1>2, OnePending DEF WorkBounded
  <1> QED
    BY <1>3, QueueInvariant, PTL

(* What is stored is what was asked for and what the worker was told, for any number
   of workers, submissions, lost answers and calls left running: no refused proof is
   stored, no TEE proof for another head, and no run resumes a session of an earlier
   one. *)
THEOREM StoredIsRight == Spec => []StoredRight
  <1>1. QueueInv => RefusedNotStored /\ ResultFitsRequest /\ StartsWithoutSessions
    BY DEF QueueInv, AnswersInv, HeadsInv, SessionsInv, RefusedNotStored, ResultFitsRequest,
       StartsWithoutSessions
  <1> QED
    BY <1>1, QueueInvariant, PTL DEF StoredRight

(* What a step may do to an ended request and to a live claim. *)
Respects ==
  /\ Ended(row) => \/ row' = NoRow
                   \/ row.job = "FAILED" /\ ~row.cancelled /\ row'.job = "PENDING"
  /\ row.job = "CLAIMED" /\ row.lease = "live" /\ (row'.lock # row.lock \/ Ended(row'))
       => \/ row'.cancelled
          \/ row'.job = "SUCCEEDED" /\ row'.by = row.lock
          \/ \E w \in Workers : worker[w].pc = "abandon" /\ worker[w].lock = row.lock

(* No step of anyone ends a claim that is live, but for its own worker and the
   requester's cancel, nor changes an ended request, but for a delete and a requeue of a
   failed one that was not cancelled. *)
THEOREM ClaimsAreRespected == Spec => ClaimsRespected
  <1>1. ASSUME QueueInv, [Next]_vars
        PROVE  [Respects]_row
    <2>1. ASSUME NEW h \in Bound.heads, ProveBlockRange(h) PROVE Respects
      <3>1. Requeue(row, h).job = "PENDING"
        BY DEF Requeue, Queued, NoRow
      <3> QED
        BY <2>1, <3>1 DEF ProveBlockRange, Requeueable, Respects, Ended
    <2>2. CASE CancelProofRequest
      <3>1. row'.cancelled
        BY <2>2 DEF CancelProofRequest, Cancel, Unlocked, QueueInv, RowInv, Rows
      <3> QED
        BY <1>1, <2>2, <3>1 DEF CancelProofRequest, Respects, Ended
    <2>3. CASE DeleteProofRequest
      BY <2>3 DEF DeleteProofRequest, Respects, Ended
    <2>4. CASE Poll
      BY <2>4 DEF Poll, Stuck, Reapable, Respects, Ended
    <2>5. CASE LeaseEnds
      <3>1. row'.lock = row.lock /\ row'.job = row.job
        BY <1>1, <2>5 DEF LeaseEnds, QueueInv, RowInv, Rows
      <3> QED
        BY <2>5, <3>1 DEF LeaseEnds, Respects, Ended
    <2>6. ASSUME NEW w \in Workers, ClaimOnce(w) PROVE Respects
      BY <1>1, <2>6 DEF ClaimOnce, Claimable, Respects, Ended, QueueInv, RowInv
    <2>7. ASSUME NEW w \in Workers, AbandonProof(w) PROVE [Respects]_row
      <3>1. CASE Classify(row, worker[w].lock) = "authorized"
        <4>1. Authorised(worker[w].lock)
          BY <1>1, <3>1, ClassifyAuthorises
        <4> QED
          BY <2>7, <4>1 DEF AbandonProof, Authorised, Respects, Ended
      <3>2. CASE Classify(row, worker[w].lock) # "authorized"
        BY <2>7, <3>2 DEF AbandonProof
      <3> QED
        BY <3>1, <3>2, SMTT(30)
    <2>8. ASSUME NEW s \in subs, NEW pc \in Calling, row' = CallStep(s, pc).row
          PROVE  [Respects]_row
      <3>1. row' = row \/ (Authorised(s.lock) /\ row' = Complete(row, s.lock, s.proof))
        BY <1>1, <2>8, CallStepRight, SMTT(30)
      <3>2. ASSUME Authorised(s.lock), row' = Complete(row, s.lock, s.proof) PROVE Respects
        <4>1. row'.job = "SUCCEEDED" /\ row'.by = s.lock
          BY <1>1, <3>2 DEF Complete, QueueInv, RowInv, Rows
        <4> QED
          BY <3>2, <4>1 DEF Authorised, Respects, Ended
      <3> QED
        BY <3>1, <3>2
    <2>9. ASSUME NEW s \in subs, SubmitStep(s) \/ ForgottenStep(s) PROVE [Respects]_row
      BY <2>8, <2>9 DEF SubmitStep, ForgottenStep
    <2>10. ASSUME NEW s \in subs, SubmissionEnds(s) \/ SubmitTimesOut(s) PROVE row' = row
      BY <2>10, SMTT(30) DEF SubmissionEnds, SubmitTimesOut
    <2>11. ASSUME NEW w \in Workers, GenerationStep(w), ~AbandonProof(w) PROVE row' = row
      BY <2>11, Zenon DEF GenerationStep, GetSession, FindProofId, CreateClusterRequest, RecordRunning,
         PollSession, MarkSubmitting, ProveInEnclave, SpawnSubmission, StopSession
    <2>12. ASSUME NEW w \in Workers, GenerationStops(w) \/ HeartbeatFails(w) \/ HeartbeatCancelled(w)
           PROVE  row' = row
      BY <2>12 DEF GenerationStops, HeartbeatFails, HeartbeatCancelled
    <2>13. ASSUME NEW k \in 1 .. Stages, NEW i \in 1 .. MaxSubmits, ClusterEnds(k, i)
           PROVE  row' = row
      BY <2>13 DEF ClusterEnds
    <2>14. CASE UNCHANGED vars
      BY <2>14 DEF vars
    <2> QED
      BY <1>1, <2>1, <2>2, <2>3, <2>4, <2>5, <2>6, <2>7, <2>9, <2>10, <2>11, <2>12, <2>13, <2>14, SMTT(30)
        DEF Next, Submitting
  <1> QED
    BY <1>1, QueueInvariant, PTL DEF Spec, ClaimsRespected, Respects

=============================================================================
