------------------------------- MODULE AIJob -------------------------------
(***************************************************************************)
(* The life of the AI requests of one user: the AIJob rows together with   *)
(* the usage ledger that pays for them (apps/ai_integration/services.py).   *)
(*                                                                         *)
(* A job is identified by its idempotency key: the rows are unique per     *)
(* (user, idempotency_key), and a forced request only gets another key.    *)
(* Each service runs in one transaction that locks the job row, so it is   *)
(* one step, together with the ledger operation it calls.  Who calls it,   *)
(* and with what stale view of the job, is the matter of AIDispatch.       *)
(***************************************************************************)
EXTENDS UsageLedger

VARIABLES
  status,             \* AIJob.status; "absent" before the row exists
  external,           \* external_job_id is recorded
  credits_reserved,   \* AIJob.credits_reserved
  credits_committed,  \* AIJob.credits_committed
  materialized,       \* rows of the domain that point to the job as their ai_job
  notices             \* notifications sent to the user about the job

credits  == <<credits_reserved, credits_committed>>
outcome  == <<materialized, notices>>
jobs     == <<status, external, credits, outcome>>
jobVars  == <<vars, jobs>>

Terminal == {"completed", "failed", "canceled"}
Active   == {"queued", "submitted", "processing", "validating"}

(* JOB_PROGRESS_TRANSITIONS, restricted to the statuses a caller of        *)
(* update_job_progress can ask for.                                        *)
Successors ==
  [queued     |-> {"submitted", "processing"},
   submitted  |-> {"processing", "validating"},
   processing |-> {"validating"},
   validating |-> {}]

JobTypeOK ==
  /\ TypeOK
  /\ status \in [Keys -> {"absent"} \cup Active \cup Terminal]
  /\ external \in [Keys -> BOOLEAN]
  /\ credits_reserved \in [Keys -> BOOLEAN]
  /\ credits_committed \in [Keys -> BOOLEAN]
  /\ materialized \in [Keys -> 0 .. 1]
  /\ notices \in [Keys -> SUBSET {"completed", "failed"}]

JobInit ==
  /\ Init
  /\ status = [k \in Keys |-> "absent"]
  /\ external = [k \in Keys |-> FALSE]
  /\ credits_reserved = [k \in Keys |-> FALSE]
  /\ credits_committed = [k \in Keys |-> FALSE]
  /\ materialized = [k \in Keys |-> 0]
  /\ notices = [k \in Keys |-> {}]

----------------------------------------------------------------------------
(* The services *)

(* The status create_ai_job inserts the row with. *)
InitialStatus == "queued"

(* Mutant: a failed job's row is taken for the same request once more. *)
FreeOrFailed(k) == status[k] \in {"absent", "failed"}

(* No row has the key: the unique constraint of (user, idempotency_key). *)
Free(k) == status[k] = "absent"

(* A request whose key has a row changes nothing: a live or completed job  *)
(* is returned, and after a failed or canceled one the unique constraint   *)
(* aborts the insertion.  A refused reservation rolls everything back.     *)
CreateAIJob(k) ==
  /\ Free(k)
  /\ Reserve(k)
  /\ status' = [status EXCEPT ![k] = InitialStatus]
  /\ credits_reserved' = [credits_reserved EXCEPT ![k] = TRUE]
  /\ UNCHANGED <<external, credits_committed, outcome>>

(* A status that is not a successor of the current one is ignored. *)
UpdateJobProgress(k, s, records) ==
  /\ status[k] \in Active
  /\ s \in Successors[status[k]]
  /\ status' = [status EXCEPT ![k] = s]
  /\ external' = [external EXCEPT ![k] = @ \/ records]
  /\ UNCHANGED <<vars, credits, outcome>>

(* "if job.credits_reserved and not job.credits_committed" *)
HoldsCredit(k) == credits_reserved[k] /\ ~credits_committed[k]

(* Mutant: the credit is not given back. *)
KeepCredit(k) == UNCHANGED <<vars, credits_reserved>>

ReturnCredit(k) ==
  IF HoldsCredit(k)
    THEN /\ Refund(k)
         /\ credits_reserved' = [credits_reserved EXCEPT ![k] = FALSE]
    ELSE UNCHANGED <<vars, credits_reserved>>

(* Mutant: a failed job is not terminal. *)
OpenIfFailed(k) == status[k] \in Active \cup {"failed"}

(* Mutant: a completed job is not terminal. *)
OpenIfCompleted(k) == status[k] \in Active \cup {"completed"}

(* The job is not in a terminal status, when it is looked at under lock. *)
Open(k) == status[k] \in Active

FailJob(k) ==
  /\ Open(k)
  /\ status' = [status EXCEPT ![k] = "failed"]
  /\ ReturnCredit(k)
  /\ notices' = [notices EXCEPT ![k] = @ \cup {"failed"}]
  /\ UNCHANGED <<external, credits_committed, materialized>>

CancelJob(k) ==
  /\ Open(k)
  /\ status' = [status EXCEPT ![k] = "canceled"]
  /\ ReturnCredit(k)
  /\ UNCHANGED <<external, credits_committed, outcome>>

(* Every materializer creates a row whose ai_job is unique: it is refused, *)
(* and the completion with it, when the job has one (AIResult).            *)
Materialize(k) ==
  materialized[k] = 0 /\ materialized' = [materialized EXCEPT ![k] = 1]

(* Mutant: the ledger is not told of the completion. *)
CommitNothing(k) == UNCHANGED vars

CommitCredit(k) == IF HoldsCredit(k) THEN Commit(k) ELSE UNCHANGED vars

(* A result that does not materialize rolls the whole transaction back.    *)
CompleteJob(k) ==
  /\ Open(k)
  /\ Materialize(k)
  /\ CommitCredit(k)
  /\ status' = [status EXCEPT ![k] = "completed"]
  /\ credits_committed' = [credits_committed EXCEPT ![k] = TRUE]
  /\ notices' = [notices EXCEPT ![k] = @ \cup {"completed"}]
  /\ UNCHANGED <<external, credits_reserved>>

----------------------------------------------------------------------------
(* The callers: the dispatcher records the external id; the webhook and    *)
(* the refresh endpoint know a job only by its external id; the user       *)
(* cancels and the reconciler gives up at any time.                        *)

Submit(k) == UpdateJobProgress(k, "submitted", TRUE)

RemoteProgress(k) ==
  /\ external[k]
  /\ \E s \in {"submitted", "processing", "validating"} : UpdateJobProgress(k, s, FALSE)

RemoteResult(k) == external[k] /\ CompleteJob(k)

LedgerOnly ==
  /\ \/ \E m \in Months : Rebuild(m)
     \/ \E p \in Plans : ChangePlan(p)
     \/ LoseEntitlement
     \/ NextMonth
  /\ UNCHANGED jobs

JobNext ==
  \/ \E k \in Keys :
       \/ CreateAIJob(k) \/ Submit(k) \/ RemoteProgress(k)
       \/ RemoteResult(k) \/ FailJob(k) \/ CancelJob(k)
  \/ LedgerOnly

JobSpec == JobInit /\ [][JobNext]_jobVars

----------------------------------------------------------------------------
(* Properties *)

(* The flags on the job row and the ledger's entries always tell the same  *)
(* story: a live job holds exactly one open reservation, a completed job   *)
(* is committed and never refunded, a failed or canceled one is refunded   *)
(* and never committed.                                                    *)
CreditFollowsStatus ==
  \A k \in Keys :
    /\ status[k] = "absent" =>
         /\ ~credits_reserved[k] /\ ~credits_committed[k]
         /\ reserved[k] = 0 /\ committed[k] = 0 /\ refunded[k] = 0
    /\ status[k] \in Active =>
         HoldsCredit(k) /\ reserved[k] # 0 /\ committed[k] = 0 /\ refunded[k] = 0
    /\ status[k] = "completed" =>
         credits_committed[k] /\ reserved[k] # 0 /\ committed[k] # 0 /\ refunded[k] = 0
    /\ status[k] \in {"failed", "canceled"} =>
         ~credits_reserved[k] /\ reserved[k] # 0 /\ committed[k] = 0 /\ refunded[k] # 0

(* The user is told of the outcome that took place, and has a result       *)
(* exactly when the job completed.                                         *)
OutcomeIsTold ==
  \A k \in Keys :
    /\ materialized[k] = IF status[k] = "completed" THEN 1 ELSE 0
    /\ notices[k] = {status[k]} \cap {"completed", "failed"}

(* The monthly counter counts the user's jobs of that month that were not  *)
(* failed or canceled: what a student is charged for is what they got or   *)
(* are waiting for.  (A refund booked in a later month breaks it there.)   *)
CounterCountsJobs ==
  \A m \in Months : ~LateRefundIn(m) =>
    used[m] = Cardinality({k \in Keys :
      reserved[k] = m /\ (status[k] \in Active \cup {"completed"} \/ refunded[k] # m)})

(* "A late result never reopens a canceled or failed job"                  *)
(* (docs/AI_SERVICE_INTEGRATION.md:64), nor does anything else change it,   *)
(* its credit or its result.                                               *)
TerminalIsFinal ==
  [][\A k \in Keys : status[k] \in Terminal =>
       /\ UNCHANGED <<status[k], materialized[k], notices[k]>>
       /\ UNCHANGED <<reserved[k], committed[k], refunded[k]>>]_jobVars

(* The jobs use the ledger as it expects: a request is settled once, after *)
(* it was reserved.                                                        *)
LedgerProtocol == Spec

(* The jobs keep the application's promise; the charge is read off the     *)
(* ledger and the result off the materialized rows, not off the job.       *)
Phase ==
  [k \in Keys |->
    CASE status[k] = "absent"    -> "absent"
      [] status[k] \in Active    -> "accepted"
      [] status[k] = "completed" -> "delivered"
      [] OTHER                   -> "withdrawn"]
Charge ==
  [k \in Keys |->
    IF refunded[k] # 0 THEN "returned"
    ELSE IF committed[k] # 0 THEN "charged"
    ELSE IF reserved[k] # 0 THEN "held" ELSE "none"]
Result == [k \in Keys |-> materialized[k] = 1]

Promise == INSTANCE JobPromise WITH
             Jobs <- Keys, phase <- Phase, charge <- Charge, result <- Result
KeepsPromise == Promise!Spec

(* fail_job tells the student "Please try again" and "you can try again",  *)
(* and create_ai_job leaves failed and canceled jobs out of the jobs it    *)
(* returns: the same request, with credit left, can be made again.         *)
FailedRequestCanBeRepeated ==
  \A k \in Keys :
    status[k] = "failed" /\ CharacterOf[k] \in Features[EffectivePlan]
      /\ HasCapacity(CharacterOf[k])
    => ENABLED CreateAIJob(k)

=============================================================================
