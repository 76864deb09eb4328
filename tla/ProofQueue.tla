----------------------------- MODULE ProofQueue -----------------------------
(***************************************************************************)
(* One proof request of the prover service, the workers that claim it, the *)
(* service's status poller and the requester (crates/proof/prover-service, *)
(* crates/proof/worker, the ProofGenerator of crates/proof/zk/host and of  *)
(* crates/proof/tee/nitro-host, the SP1 cluster prover of                  *)
(* crates/proof/zk/backend).                                               *)
(*                                                                         *)
(* A TEE request, proved by the worker's enclaves, has no stages; a        *)
(* compressed request has one and a SNARK request two, which run on the    *)
(* cluster (external) as requests with ids made from the session id and a  *)
(* retry number: the k-th request of a stage is cluster[stage][k].  Every  *)
(* call to the service and to the cluster is a step of its own; the        *)
(* submission of a proof is the three statements it runs.                  *)
(***************************************************************************)
EXTENDS ProofRow, Sequences, FiniteSets

CONSTANTS
  Workers,       \* generator permits of the workers
  Kinds,         \* the stages a request may have: among 0, 1 and 2
  Bounds,        \* Bounds[n], for a request of n stages, a record of
                 \*   heads      the L1 heads it may be asked for with
                 \*   claims     bound on its claims
                 \*   forgotten  bound on the calls of submissions left running
  MaxSubmits,    \* MAX_SUBMIT_ATTEMPTS of the cluster prover
  MaxCreates     \* bound on the requester's inserts

ASSUME QueueAssumption == Kinds \subseteq Nat /\ MaxSubmits \in Nat

VARIABLES
  row,           \* the request (see ProofRow)
  sess,          \* its backend sessions, by stage
  cluster,       \* the cluster's requests, by stage: [st, head]
  worker,        \* what each worker is doing with which claim
  subs,          \* the submission tasks and their calls
  claims,        \* locks issued
  creates        \* rows inserted

vars == <<row, sess, cluster, worker, subs, claims, creates>>

(* The stages of the request: its kind, which never changes. *)
Stages == Len(cluster)
Bound == Bounds[Stages]

(* A worker: where its generator is, its claim, the head in the job it was given,
   the stage and the cluster request it works on, the head of the proof so far,
   and whether its heartbeat still runs. *)
Idle == [pc |-> "idle", lock |-> 0, head |-> NoHead, stage |-> 0, id |-> 0,
         proof |-> NoHead, beats |-> FALSE]

(* A submission: its claim and proof, where its current call is, and where a
   call is that it stopped waiting for. *)
Submission(lock, proof) == [lock |-> lock, proof |-> proof, cur |-> "read", old |-> "none"]

Calling == {"read", "update", "reread"}
NoSessions == [k \in 1 .. Stages |-> NoSession]

TypeOK ==
  /\ row.job \in {"ABSENT", "PENDING", "CLAIMED", "SUCCEEDED", "FAILED"}
  /\ row.lock \in 0 .. claims /\ row.by \in 0 .. claims
  /\ row.lease \in {"none", "live", "over"}
  /\ row.job # "CLAIMED" => row.lease = "none" \/ Ended(row)
  /\ row.head \in Bound.heads \cup {NoHead} /\ row.result \in Bound.heads \cup {NoHead}
  /\ \A k \in 1 .. Stages :
       /\ sess[k].st \in {"none", "submitting", "running"}
       /\ sess[k].ended \subseteq 1 .. MaxSubmits
       /\ sess[k].id \in 0 .. Len(cluster[k])
       /\ Len(cluster[k]) <= MaxSubmits
  /\ \A w \in Workers : /\ worker[w].lock \in 0 .. claims
                        /\ worker[w].pc = "idle" <=> worker[w] = Idle
  /\ \A s \in subs : s.cur \in Calling \cup {"accepted", "rejected", "dead"}
                     /\ s.old \in Calling \cup {"none"}

(* The table starts empty or with a row the migration parked. *)
Init ==
  /\ \E n \in Kinds : cluster = [k \in 1 .. n |-> <<>>]
  /\ \/ row = NoRow /\ creates = 0
     \/ creates = 1 /\ \E h \in Bound.heads : row = Parked(h)
  /\ sess = NoSessions
  /\ worker = [w \in Workers |-> Idle]
  /\ subs = {} /\ claims = 0

-----------------------------------------------------------------------------
(* The requester. *)

(* Mutant: a request that is asked for again takes the new head, claimed or not. *)
ProveBlockRangeReplaces(head) ==
  \/ /\ row.job = "ABSENT" /\ creates < MaxCreates
     /\ row' = Queued(head) /\ creates' = creates + 1
     /\ UNCHANGED <<sess, cluster, worker, subs, claims>>
  \/ /\ row.job \in {"PENDING", "CLAIMED"}
     /\ row' = [row EXCEPT !.head = head]
     /\ UNCHANGED <<sess, cluster, worker, subs, claims, creates>>

(* Calls that are refused or replayed change nothing. *)
ProveBlockRange(head) ==
  \/ /\ row.job = "ABSENT" /\ creates < MaxCreates
     /\ row' = Queued(head) /\ creates' = creates + 1
     /\ UNCHANGED <<sess, cluster, worker, subs, claims>>
  \/ /\ Requeueable(row)
     /\ row' = Requeue(row, head)
     /\ sess' = FailSessions(sess)
     /\ UNCHANGED <<cluster, worker, subs, claims, creates>>

(* TEE requests cannot be cancelled.  The sessions are left to the worker. *)
CancelProofRequest ==
  /\ Stages > 0 /\ row.job \in {"PENDING", "CLAIMED"}
  /\ row' = Cancel(row)
  /\ UNCHANGED <<sess, cluster, worker, subs, claims, creates>>

DeleteProofRequest ==
  /\ Ended(row)
  /\ row' = NoRow /\ sess' = NoSessions
  /\ UNCHANGED <<cluster, worker, subs, claims, creates>>

(* The status poller: poll_once takes the stuck rows, then the expired claims. *)
Poll ==
  \/ /\ Stuck(row)
     /\ row' = RetryOrFail(row) /\ sess' = FailSessions(sess)
     /\ UNCHANGED <<cluster, worker, subs, claims, creates>>
  \/ /\ Reapable(row)
     /\ row' = Reap(row)
     /\ UNCHANGED <<sess, cluster, worker, subs, claims, creates>>

(* lock_expires_at passes. *)
LeaseEnds ==
  /\ row.job = "CLAIMED" /\ row.lease = "live"
  /\ row' = [row EXCEPT !.lease = "over"]
  /\ UNCHANGED <<sess, cluster, worker, subs, claims, creates>>

-----------------------------------------------------------------------------
(* The worker's job discovery: getNextProof, whose answer may be lost. *)
ClaimOnce(w) ==
  /\ worker[w].pc = "idle" /\ Claimable(row) /\ claims < Bound.claims
  /\ claims' = claims + 1
  /\ row' = Claim(row, claims')
  /\ \/ UNCHANGED worker
     \/ worker' = [worker EXCEPT ![w] =
                     [Idle EXCEPT !.pc = IF Stages = 0 THEN "prove" ELSE "get",
                                  !.lock = row'.lock, !.head = row.head,
                                  !.stage = IF Stages = 0 THEN 0 ELSE 1, !.beats = TRUE]]
  /\ UNCHANGED <<sess, cluster, subs, creates>>

Goes(w, pc) == worker' = [worker EXCEPT ![w].pc = pc]
Leaves(w)   == worker' = [worker EXCEPT ![w] = Idle]

(* The generation ends without a proof and without giving the job back: a crash,
   a failed call, a witness that cannot be made, a drain that takes too long. *)
GenerationStops(w) ==
  /\ worker[w].pc # "idle"
  /\ Leaves(w)
  /\ UNCHANGED <<row, sess, cluster, subs, claims, creates>>

(* WorkerHeartbeat::until_failure gives up: rejected, five failures in a row or
   the lease budget spent.  The generation is drained, its proof discarded. *)
HeartbeatFails(w) ==
  /\ worker[w].beats
  /\ worker' = [worker EXCEPT ![w].beats = FALSE]
  /\ UNCHANGED <<row, sess, cluster, subs, claims, creates>>

(* The heartbeat is told that the request was cancelled: the generation is
   dropped where it is, and the recorded backend sessions are stopped. *)
HeartbeatCancelled(w) ==
  /\ worker[w].beats /\ Stages > 0
  /\ Ended(row) /\ row.cancelled
  /\ worker' = [worker EXCEPT ![w].pc = "stop", ![w].stage = 1, ![w].beats = FALSE]
  /\ UNCHANGED <<row, sess, cluster, subs, claims, creates>>

(* EXTERNAL: a cluster request still pending is cancelled; it ends as failed. *)
CancelCluster(stage, id) ==
  IF cluster[stage][id].st = "pending"
  THEN [cluster EXCEPT ![stage][id].st = "failed"] ELSE cluster

(* cancel_active_backend_sessions, one stage after the other. *)
StopSession(w) ==
  LET k == worker[w].stage IN
  /\ worker[w].pc = "stop"
  /\ cluster' = IF sess[k].st = "running" THEN CancelCluster(k, sess[k].id) ELSE cluster
  /\ IF k < Stages THEN worker' = [worker EXCEPT ![w].stage = k + 1] ELSE Leaves(w)
  /\ UNCHANGED <<row, sess, subs, claims, creates>>

-----------------------------------------------------------------------------
(* drive_stage: a session recorded as running is resumed. *)
GetSession(w) ==
  LET s == sess[worker[w].stage] IN
  /\ worker[w].pc = "get"
  /\ worker' = [worker EXCEPT ![w].pc = IF s.st = "running" THEN "poll" ELSE "submit",
                              ![w].id = IF s.st = "running" THEN s.id ELSE 0]
  /\ UNCHANGED <<row, sess, cluster, subs, claims, creates>>

(* Mutant: a request that is pending is passed over as well. *)
UsableDone(stage) == {i \in 1 .. Len(cluster[stage]) : cluster[stage][i].st = "done"}

(* The cluster requests of a stage that can be reused. *)
Usable(stage) == {i \in 1 .. Len(cluster[stage]) : cluster[stage][i].st # "failed"}

(* find_available_proof_id: the first request that has not failed, else the next
   free id, else an error. *)
FindProofId(w) ==
  LET k == worker[w].stage
      usable == Usable(k)
  IN
  /\ worker[w].pc = "submit"
  /\ IF usable # {}
     THEN worker' = [worker EXCEPT ![w].pc = "record",
                                   ![w].id = CHOOSE i \in usable : \A j \in usable : i <= j]
     ELSE IF Len(cluster[k]) < MaxSubmits
     THEN worker' = [worker EXCEPT ![w].pc = "create", ![w].id = Len(cluster[k]) + 1]
     ELSE Leaves(w)
  /\ UNCHANGED <<row, sess, cluster, subs, claims, creates>>

(* The witness is made, for the head of the claimed job or from the proof of the
   first stage, and the request created, unless another worker did so first. *)
CreateClusterRequest(w) ==
  LET k == worker[w].stage
      i == worker[w].id
  IN
  /\ worker[w].pc = "create"
  /\ IF Len(cluster[k]) >= i
     THEN /\ IF cluster[k][i].st = "failed" THEN Leaves(w) ELSE Goes(w, "record")
          /\ UNCHANGED cluster
     ELSE /\ cluster' = [cluster EXCEPT ![k] =
               Append(@, [st |-> "pending",
                          head |-> IF k = 1 THEN worker[w].head ELSE worker[w].proof])]
          /\ Goes(w, "record")
  /\ UNCHANGED <<row, sess, subs, claims, creates>>

(* record_worker_proof_session takes the time before it waits for the row, so a
   claim that has just run out may still be taken for live. *)
RecordAuth(w) ==
  LET a == Classify(row, worker[w].lock)
  IN  {a} \cup (IF a = "expired" THEN {"authorized"} ELSE {})

RecordRunning(w) ==
  LET k == worker[w].stage IN
  /\ worker[w].pc = "record"
  /\ \E a \in RecordAuth(w) :
       IF a = "authorized"
       THEN /\ sess' = Recorded(sess, k, worker[w].id, "running")
            /\ Goes(w, "poll") /\ UNCHANGED cluster
       ELSE /\ cluster' = IF a = "terminal" /\ row.cancelled
                          THEN CancelCluster(k, worker[w].id) ELSE cluster
            /\ Leaves(w) /\ UNCHANGED sess
  /\ UNCHANGED <<row, subs, claims, creates>>

(* poll_to_completion.  A finished stage leads to the next or to the download. *)
PollSession(w) ==
  LET k == worker[w].stage
      r == cluster[k][worker[w].id]
  IN
  /\ worker[w].pc = "poll" /\ r.st # "pending"
  /\ IF r.st = "failed" THEN Goes(w, "mark")
     ELSE worker' = [worker EXCEPT ![w].pc = IF k < Stages THEN "get" ELSE "proved",
                                   ![w].proof = r.head,
                                   ![w].stage = IF k < Stages THEN k + 1 ELSE k]
  /\ UNCHANGED <<row, sess, cluster, subs, claims, creates>>

(* A failed generation gives the job back, unless the heartbeat has failed before;
   the heartbeat ends with the generation. *)
GivesBack(w) ==
  IF worker[w].beats
  THEN worker' = [worker EXCEPT ![w].pc = "abandon", ![w].beats = FALSE] ELSE Leaves(w)

(* record_backend_resubmission, then BackendSessionFailed. *)
MarkSubmitting(w) ==
  /\ worker[w].pc = "mark"
  /\ \E a \in RecordAuth(w) :
       sess' = IF a = "authorized"
               THEN Recorded(sess, worker[w].stage, worker[w].id, "submitting") ELSE sess
  /\ GivesBack(w)
  /\ UNCHANGED <<row, cluster, subs, claims, creates>>

(* Stages = 0: the enclaves prove the claimed job, or fail. *)
ProveInEnclave(w) ==
  /\ worker[w].pc = "prove"
  /\ \/ worker' = [worker EXCEPT ![w].pc = "proved", ![w].proof = worker[w].head]
     \/ GivesBack(w)
  /\ UNCHANGED <<row, sess, cluster, subs, claims, creates>>

(* Mutant: the job is given back whoever holds it. *)
AbandonProofUnfenced(w) ==
  /\ worker[w].pc = "abandon"
  /\ IF row.job = "CLAIMED"
     THEN /\ row' = Abandon(row)
          /\ sess' = IF Exhausted(row) THEN FailSessions(sess) ELSE sess
     ELSE UNCHANGED <<row, sess>>
  /\ Leaves(w)
  /\ UNCHANGED <<cluster, subs, claims, creates>>

AbandonProof(w) ==
  /\ worker[w].pc = "abandon"
  /\ IF Classify(row, worker[w].lock) = "authorized"
     THEN /\ row' = Abandon(row)
          /\ sess' = IF Exhausted(row) THEN FailSessions(sess) ELSE sess
     ELSE UNCHANGED <<row, sess>>
  /\ Leaves(w)
  /\ UNCHANGED <<cluster, subs, claims, creates>>

(* The proof is generated: a task is spawned that submits it, or it is discarded
   because the heartbeat has failed. *)
SpawnSubmission(w) ==
  /\ worker[w].pc = "proved"
  /\ subs' = IF worker[w].beats THEN subs \cup {Submission(worker[w].lock, worker[w].proof)}
             ELSE subs
  /\ Leaves(w)
  /\ UNCHANGED <<row, sess, cluster, claims, creates>>

-----------------------------------------------------------------------------
(* complete_claimed_proof_job.  Its three statements are steps: the read that
   classifies, the guarded update, and the read that explains why it missed. *)

(* Mutant: a submission that was stored before is not recognised. *)
AnswerTerminal(s) ==
  LET a == Classify(row, s.lock) IN IF a = "authorized" THEN "update" ELSE "rejected"

(* What a read of the row makes of the submission s. *)
Answer(s) ==
  LET a == Classify(row, s.lock)
  IN  IF row.job = "SUCCEEDED" /\ row.lock = s.lock
      THEN IF row.result = s.proof THEN "accepted" ELSE "rejected"
      ELSE IF a = "authorized" THEN "update" ELSE "rejected"

(* The WHERE clause of the update. *)
Guard(s) == Classify(row, s.lock) = "authorized"

(* The step of a call of s that is at pc: where it is next, and the row. *)
CallStep(s, pc) ==
  IF pc = "update"
  THEN IF Guard(s) THEN [to |-> "accepted", row |-> Complete(row, s.lock, s.proof)]
       ELSE [to |-> "reread", row |-> row]
  ELSE [to |-> IF pc = "reread" /\ Answer(s) = "update" THEN "rejected" ELSE Answer(s),
        row |-> row]

Replaces(s, t) == subs' = (subs \ {s}) \cup {t}

(* The call a task waits for takes a step; its answer may be lost, and the task
   then calls again. *)
SubmitStep(s) ==
  LET c == CallStep(s, s.cur) IN
  /\ s.cur \in Calling
  /\ row' = c.row
  /\ \/ Replaces(s, [s EXCEPT !.cur = c.to])
     \/ c.to \notin Calling /\ Replaces(s, [s EXCEPT !.cur = "read"])
  /\ UNCHANGED <<sess, cluster, worker, claims, creates>>

(* The task stops waiting for a call, which goes on, and calls again; or it is
   cancelled, or its worker dies. *)
SubmitTimesOut(s) ==
  /\ s.cur \in Calling /\ s.old = "none"
  /\ Cardinality({t \in subs : t.old # "none"}) < Bound.forgotten
  /\ \E pc \in {"read", "dead"} : Replaces(s, [s EXCEPT !.cur = pc, !.old = s.cur])
  /\ UNCHANGED <<row, sess, cluster, worker, claims, creates>>

ForgottenStep(s) ==
  LET c == CallStep(s, s.old) IN
  /\ s.old \in Calling
  /\ row' = c.row
  /\ Replaces(s, [s EXCEPT !.old = IF c.to \in Calling THEN c.to ELSE "none"])
  /\ UNCHANGED <<sess, cluster, worker, claims, creates>>

(* The task is done, and so is every call of it. *)
SubmissionEnds(s) ==
  /\ s.cur \notin Calling /\ s.old = "none"
  /\ subs' = subs \ {s}
  /\ UNCHANGED <<row, sess, cluster, worker, claims, creates>>

(* EXTERNAL: a cluster request ends; a pending one past its deadline counts as
   failed. *)
ClusterEnds(stage, i) ==
  /\ i <= Len(cluster[stage]) /\ cluster[stage][i].st = "pending"
  /\ \E st \in {"done", "failed"} : cluster' = [cluster EXCEPT ![stage][i].st = st]
  /\ UNCHANGED <<row, sess, worker, subs, claims, creates>>

-----------------------------------------------------------------------------
GenerationStep(w) ==
  \/ GetSession(w) \/ FindProofId(w) \/ CreateClusterRequest(w) \/ RecordRunning(w)
  \/ PollSession(w) \/ MarkSubmitting(w) \/ ProveInEnclave(w) \/ AbandonProof(w)
  \/ SpawnSubmission(w) \/ StopSession(w)

Submitting == \E s \in subs : SubmitStep(s) \/ ForgottenStep(s) \/ SubmissionEnds(s)

Next ==
  \/ \E h \in Bound.heads : ProveBlockRange(h)
  \/ CancelProofRequest \/ DeleteProofRequest \/ Poll \/ LeaseEnds
  \/ \E w \in Workers : \/ ClaimOnce(w) \/ GenerationStep(w) \/ GenerationStops(w)
                        \/ HeartbeatFails(w) \/ HeartbeatCancelled(w)
  \/ Submitting \/ \E s \in subs : SubmitTimesOut(s)
  \/ \E k \in 1 .. Stages : \E i \in 1 .. MaxSubmits : ClusterEnds(k, i)

Spec == Init /\ [][Next]_vars

(* Fairness: a worker goes on with its loop and its generation, a submission with
   its calls, the poller with its polls; a lease nobody renews runs out, and the
   cluster ends its requests, at the latest by their deadline. *)
Renewed == \E w \in Workers : worker[w].lock = row.lock /\ worker[w].beats

LiveSpec ==
  /\ Spec
  /\ \A w \in Workers : WF_vars(ClaimOnce(w) \/ GenerationStep(w))
  /\ WF_vars(Submitting) /\ WF_vars(Poll) /\ WF_vars(LeaseEnds /\ ~Renewed)
  /\ WF_vars(\E k \in 1 .. Stages : \E i \in 1 .. MaxSubmits : ClusterEnds(k, i))

-----------------------------------------------------------------------------
(* No job is claimed more often than reclaim_attempts, nor requeued more often
   than max_proof_retries, whatever mix of lost claims, reclaims and abandons it
   goes through: the claim of a queued job counts an attempt but checks none. *)
BudgetsKept == row.attempt <= MaxAttempts /\ row.retries <= MaxRetries

(* At most one request of a stage runs on the cluster at a time, though a worker
   that lost its claim goes on beside the one that took it over, and sessions may
   go unrecorded (what migration 009 is about). *)
OneClusterRequest ==
  \A k \in 1 .. Stages :
    Cardinality({i \in 1 .. Len(cluster[k]) : cluster[k][i].st = "pending"}) <= 1

(* A submission that was told it is refused has not been stored: a call that is
   repeated because its answer was lost, or runs beside an earlier one, is
   answered like the one that stored the proof. *)
RefusedNotStored == \A s \in subs : s.cur = "rejected" => row.by # s.lock

(* A request that starts over has no active backend session of its last run to
   resume: that would prove for the head asked for then. *)
StartsWithoutSessions ==
  row.job = "PENDING" /\ row.attempt = 0 => \A k \in 1 .. Stages : sess[k].st = "none"

(* A stored TEE proof is for the L1 head of the request it is stored with, though a
   request that failed may be asked for again with another head while the worker
   of its last run still holds a proof (the field's documentation: "Optional L1
   head hash used for witness generation"). *)
ResultFitsRequest == Stages = 0 /\ row.job = "SUCCEEDED" => row.result = row.head

(* The work spent on a request is bounded: its claims and requeues, and what of it
   runs on the cluster at a time. *)
WorkBounded == TypeOK /\ BudgetsKept /\ OneClusterRequest

(* What is stored is what was asked for and what the worker was told: no refused
   proof, none for another head, none resumed from an earlier run. *)
StoredRight == RefusedNotStored /\ ResultFitsRequest /\ StartsWithoutSessions

(* An ended request stays as it is, proof included, until it is deleted or, failed
   and not cancelled, requeued by the requester.  A claim whose lease is live is
   ended by its own worker, which gives the job back or delivers the proof, or by
   the requester's cancel: never by a worker that held the job before, nor by the
   poller. *)
ClaimsRespected ==
  [][/\ Ended(row) => \/ row' = NoRow
                      \/ row.job = "FAILED" /\ ~row.cancelled /\ row'.job = "PENDING"
     /\ row.job = "CLAIMED" /\ row.lease = "live" /\ (row'.lock # row.lock \/ Ended(row'))
          => \/ row'.cancelled
             \/ row'.job = "SUCCEEDED" /\ row'.by = row.lock
             \/ \E w \in Workers : worker[w].pc = "abandon" /\ worker[w].lock = row.lock]_row

(* Every request that is queued or claimed ends, though claims are lost and
   workers stop at any point, unless the bound on the claims has stopped it. *)
EveryRequestEnds ==
  (row.job \in {"PENDING", "CLAIMED"})
    ~> (row.job \notin {"PENDING", "CLAIMED"} \/ claims = Bound.claims)

=============================================================================
