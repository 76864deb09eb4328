------------------------------ MODULE ProofRow ------------------------------
(***************************************************************************)
(* One proof request of the prover service's database (crates/proof/       *)
(* prover-service/db/src/repo.rs): the row of proof_requests with its      *)
(* claim, its active backend sessions in proof_sessions, and what each     *)
(* statement or transaction of the repository makes of them.               *)
(*                                                                         *)
(* The job status stands for the requester's status too: every write sets  *)
(* both (PENDING is CREATED, CLAIMED is RUNNING).  A request is known by   *)
(* the L1 head its witness is to be generated with, a proof by the head it *)
(* was generated with; the other fields of a request never change.  A lock *)
(* is the number of its claim, 0 is NULL; the worker id compared with it   *)
(* adds nothing, a lock being issued to one worker.  Of lock_expires_at    *)
(* only whether it has passed is kept: "none", "live", "over".             *)
(***************************************************************************)
EXTENDS Naturals

CONSTANTS
  MaxAttempts,   \* reclaim_attempts: claims of a job before it fails
  MaxRetries,    \* max_proof_retries: requeues of a failed request
  NoHead         \* no L1 head: no result, or no request

(* The command line of the service takes no smaller values. *)
ASSUME BudgetAssumption == MaxAttempts \in Nat \ {0} /\ MaxRetries \in Nat

NoRow == [job |-> "ABSENT", lock |-> 0, lease |-> "none", attempt |-> 0, retries |-> 0,
          cancelled |-> FALSE, head |-> NoHead, result |-> NoHead, by |-> 0]

Ended(row)    == row.job \in {"SUCCEEDED", "FAILED"}
Queued(head)  == [NoRow EXCEPT !.job = "PENDING", !.head = head]
Unlocked(row) == [row EXCEPT !.lock = 0, !.lease = "none"]

(* A row the migration to worker claims found RUNNING: claimed, without a lock. *)
Parked(head) == [Queued(head) EXCEPT !.job = "CLAIMED"]

(* The active session of a stage, 0 being none, and the ids of ended ones. *)
NoSession == [id |-> 0, st |-> "none", ended |-> {}]

(* Mutant: the active sessions are left as they are. *)
FailSessionsNot(s) == s

(* The active session of every stage is marked FAILED. *)
FailSessions(s) ==
  [k \in DOMAIN s |-> IF s[k].st = "none" THEN s[k]
                      ELSE [NoSession EXCEPT !.ended = s[k].ended \cup {s[k].id}]]

-----------------------------------------------------------------------------
(* ClaimAuth::classify of the claim `lock`. *)
Classify(row, lock) ==
  IF Ended(row) THEN "terminal"
  ELSE IF row.job # "CLAIMED" THEN "not_claimed"
  ELSE IF row.lock # lock THEN "stale"
  ELSE IF row.lease # "live" THEN "expired"
  ELSE "authorized"

(* Mutant: a cancelled request starts again as well. *)
RequeueableCancelled(row) == row.job = "FAILED" /\ row.retries < MaxRetries

(* create_for_worker_queue: an absent request is inserted; a failed one that was
   not cancelled starts again, with the L1 head now asked for. *)
Requeueable(row)   == row.job = "FAILED" /\ ~row.cancelled /\ row.retries < MaxRetries
Requeue(row, head) == [Queued(head) EXCEPT !.retries = row.retries + 1]

(* cancel_proof_request_by_session_id of a request that has not ended. *)
Cancel(row) == Unlocked([row EXCEPT !.job = "FAILED", !.cancelled = TRUE])

(* claim_query: a queued job, or one whose claim has run out. *)
Claimable(row) ==
  \/ row.job = "PENDING"
  \/ row.job = "CLAIMED" /\ row.lease = "over" /\ row.attempt < MaxAttempts

Claim(row, lock) ==
  [row EXCEPT !.job = "CLAIMED", !.lock = lock, !.lease = "live", !.attempt = @ + 1]

(* Mutant: the attempts are spent only when one more than allowed was made. *)
ExhaustedLate(row) == row.attempt > MaxAttempts

(* The claims of the job are spent. *)
Exhausted(row) == row.attempt >= MaxAttempts

(* Mutant: a job that is queued again keeps its lock. *)
AbandonKeepsLock(row) ==
  [row EXCEPT !.job = IF Exhausted(row) THEN "FAILED" ELSE "PENDING"]

(* abandon_proof_job, authorised: the job fails or is queued again; its attempts
   stay counted. *)
Abandon(row) ==
  Unlocked([row EXCEPT !.job = IF Exhausted(row) THEN "FAILED" ELSE "PENDING"])

(* complete_claimed_proof_job: the guarded update. *)
Complete(row, lock, result) ==
  [row EXCEPT !.job = "SUCCEEDED", !.result = result, !.by = lock]

(* Mutant: the job of a lost claim is not failed once its attempts are spent. *)
ReapableNever(row) == row.job = "CLAIMED" /\ row.lease = "over" /\ row.attempt > MaxAttempts

(* fail_expired_proof_jobs. *)
Reapable(row) == row.job = "CLAIMED" /\ row.lease = "over" /\ Exhausted(row)
Reap(row)     == [row EXCEPT !.job = "FAILED"]

(* retry_or_fail_stuck_request of a parked row.  The requester's status PENDING, which
   get_stuck_requests also looks for, is one no statement writes any more. *)
Stuck(row) == row.job = "CLAIMED" /\ row.lease = "none"
RetryOrFail(row) ==
  IF row.retries >= MaxRetries THEN Unlocked([row EXCEPT !.job = "FAILED"])
  ELSE Requeue(row, row.head)

(* record_worker_proof_session, authorised: the one active session of the stage
   becomes the session id, unless that has ended. *)
Recorded(s, stage, id, st) ==
  IF id \in s[stage].ended THEN s
  ELSE [s EXCEPT ![stage].id = id, ![stage].st = st]

=============================================================================
