----------------------------- MODULE AIDispatch -----------------------------
(***************************************************************************)
(* How an accepted AI request reaches the AI service and how its outcome   *)
(* comes back: the dispatch outbox, the Celery messages and workers, the   *)
(* Beat sweep, cancellation, and the reports of the service                *)
(* (apps/ai_integration/tasks.py, services.py and views.py).               *)
(*                                                                         *)
(* A worker running dispatch_ai_job is not atomic: it claims the outbox    *)
(* row, calls the service, records the answer on the job and marks the     *)
(* row, each in a transaction of its own, and may die in between.  The     *)
(* sweep reads its candidates once and acts on them later.  The job rows   *)
(* and the ledger are those of AIJob, whose services are called here with  *)
(* the guards of their callers.                                            *)
(***************************************************************************)
EXTENDS Integers, FiniteSets

CONSTANTS Keys, Characters, CharacterOf, Plans, FreePlan, GeneralLimit,
          CharacterLimit, Features, NoLimit, MaxMonth

CONSTANTS
  Workers,       \* Celery worker processes
  MaxRetries,    \* max_retries of the dispatch_ai_job task
  MaxAttempts,   \* AI_DISPATCH_MAX_ATTEMPTS
  SlowWorkers,   \* a worker may outlive AI_DISPATCH_LOCK_TIMEOUT_SECONDS
  Deduplicates,  \* the service answers a repeated client_job_id with the same job
  Refusals,      \* why a completed result may not be materialized
  MaxCalls,      \* bound: jobs the service creates for one of ours
  MaxFaults      \* bound: worker and sweep deaths and lost messages

ASSUME RetryAssumption == MaxRetries \in Nat /\ MaxAttempts \in Nat \ {0}
ASSUME JobsAssumption ==
  /\ IsFiniteSet(Keys) /\ CharacterOf \in [Keys -> Characters] /\ MaxMonth \in Nat \ {0}
  /\ FreePlan \in Plans /\ NoLimit \notin Nat
  /\ GeneralLimit \in [Plans -> Nat \cup {NoLimit}]
  /\ CharacterLimit \in [Plans -> [Characters -> Nat \cup {NoLimit}]]
  /\ Features \in [Plans -> SUBSET Characters]
ASSUME RefusalAssumption == Refusals \subseteq {"unusable", "no subject"}
ASSUME BoundAssumption ==
  /\ MaxCalls \in Nat \ {0} /\ MaxFaults \in Nat
  /\ SlowWorkers \in BOOLEAN /\ Deduplicates \in BOOLEAN

Calls  == 1 .. MaxCalls
NoCall == 0

(* How a job the service completed fares here: materialize_job takes its  *)
(* result, or refuses it for what it says (or for being empty) however    *)
(* often it is told, or for as long as the job has no subject.            *)
Results == {"completed"} \cup Refusals

VARIABLES
  month, plan, entitled, used, usedBy, reserved, committed, refunded,
  status, credits_reserved, credits_committed, materialized, notices,
  external,   \* AIJob.external_job_id: a call, or NoCall
  outbox,     \* AIJobDispatchOutbox.status; "none" before the row exists
  attempts,   \* attempt_count, which matters up to MaxAttempts
  due,        \* next_retry_at <= now
  stale,      \* locked_at <= now - AI_DISPATCH_LOCK_TIMEOUT_SECONDS
  messages,   \* dispatch_ai_job messages: a job and Celery's retry count
  cancels,    \* cancel_external_ai_job messages
  pc,         \* what each worker does next
  task,       \* the message each worker is running
  answer,     \* the job identifier the service answered to it
  sweep,      \* what the running sweep is about to do with each job
  remote,     \* the service's jobs
  faults

accounts == <<month, plan, entitled, used, usedBy, reserved, committed, refunded>>
row      == <<status, credits_reserved, credits_committed, materialized, notices, external>>
dispatch == <<outbox, attempts, due, stale>>
worker   == <<pc, task, answer>>
vars     == <<accounts, row, dispatch, messages, cancels, worker, sweep, remote, faults>>

(* A job's external id is recorded. *)
Recorded == [k \in Keys |-> external[k] # NoCall]
Job == INSTANCE AIJob WITH external <- Recorded

Terminal == Job!Terminal
Messages == Keys \X (0 .. MaxRetries)
NoTask   == <<>>
Idle     == "idle"

TypeOK ==
  /\ Job!JobTypeOK
  /\ external \in [Keys -> Calls \cup {NoCall}]
  /\ outbox \in [Keys -> {"none", "pending", "dispatching", "dispatched", "failed"}]
  /\ attempts \in [Keys -> 0 .. MaxAttempts]
  /\ due \in [Keys -> BOOLEAN] /\ stale \in [Keys -> BOOLEAN]
  /\ messages \subseteq Messages /\ cancels \subseteq Keys
  /\ pc \in [Workers -> {Idle, "skip", "submit", "record", "mark", "retry", "give up"}]
  /\ task \in [Workers -> Messages \cup {NoTask}]
  /\ answer \in [Workers -> Calls \cup {NoCall}]
  /\ sweep \in [Keys -> {Idle, "resend", "fail job", "mark"}]
  /\ remote \in [Keys -> [Calls -> {"absent", "running", "failed", "canceled"} \cup Results]]
  /\ faults \in 0 .. MaxFaults

Init ==
  /\ external = [k \in Keys |-> NoCall]
  /\ Job!JobInit
  /\ outbox = [k \in Keys |-> "none"]
  /\ attempts = [k \in Keys |-> 0]
  /\ due = [k \in Keys |-> FALSE]
  /\ stale = [k \in Keys |-> FALSE]
  /\ messages = {} /\ cancels = {}
  /\ pc = [w \in Workers |-> Idle]
  /\ task = [w \in Workers |-> NoTask]
  /\ answer = [w \in Workers |-> NoCall]
  /\ sweep = [k \in Keys |-> Idle]
  /\ remote = [k \in Keys |-> [i \in Calls |-> "absent"]]
  /\ faults = 0

----------------------------------------------------------------------------
(* The student *)

(* on_commit sends the message; the broker may not take it.               *)
Create(k) ==
  /\ UNCHANGED external
  /\ Job!CreateAIJob(k)
  /\ outbox' = [outbox EXCEPT ![k] = "pending"]
  /\ due' = [due EXCEPT ![k] = TRUE]
  /\ \/ messages' = messages \cup {<<k, 0>>} /\ UNCHANGED faults
     \/ faults < MaxFaults /\ faults' = faults + 1 /\ UNCHANGED messages
  /\ UNCHANGED <<attempts, stale, cancels, worker, sweep, remote>>

(* cancel_job, called by the student or on the service's report.          *)
CancelJob(k) ==
  /\ UNCHANGED external
  /\ Job!CancelJob(k)
  /\ cancels' = IF external[k] # NoCall THEN cancels \cup {k} ELSE cancels

Cancel(k) ==
  /\ CancelJob(k)
  /\ UNCHANGED <<dispatch, messages, worker, sweep, remote, faults>>

(* cancel_external_ai_job; the service may refuse, or be out of reach for *)
(* as long as Celery retries.                                             *)
CancelExternal(k) ==
  /\ k \in cancels
  /\ cancels' = cancels \ {k}
  /\ \/ UNCHANGED remote
     \/ /\ remote[k][external[k]] = "running"
        /\ remote' = [remote EXCEPT ![k][external[k]] = "canceled"]
  /\ UNCHANGED <<accounts, row, dispatch, messages, worker, sweep, faults>>

----------------------------------------------------------------------------
(* dispatch_ai_job *)

Working(w, k) == pc[w] # Idle /\ task[w][1] = k

(* Mutant: a claimed row is free to claim. *)
ClaimableWhenClaimed(k) == outbox[k] \in {"pending", "failed", "dispatching"}

Claimable(k) ==
  \/ outbox[k] \in {"pending", "failed"}
  \/ outbox[k] = "dispatching" /\ stale[k]

Goto(w, step) == pc' = [pc EXCEPT ![w] = step]

Finish(w) ==
  /\ Goto(w, Idle)
  /\ task' = [task EXCEPT ![w] = NoTask]
  /\ answer' = [answer EXCEPT ![w] = NoCall]

(* Mutant: a row that was claimed before is taken for sent. *)
OnlyFirstClaimSends(k) ==
  IF status[k] = "queued" /\ attempts[k] = 0 THEN "submit" ELSE "skip"

(* Mutant: the job's status is not looked at. *)
EveryClaimSends(k) == "submit"

(* The worker decides on the job's status of the moment of the claim.     *)
AfterClaim(k) == IF status[k] = "queued" THEN "submit" ELSE "skip"

Claim(w, m) ==
  LET k == m[1] IN
  /\ pc[w] = Idle /\ m \in messages
  /\ messages' = messages \ {m}
  /\ Claimable(k)
  /\ outbox' = [outbox EXCEPT ![k] = "dispatching"]
  /\ attempts' = [attempts EXCEPT ![k] = IF @ < MaxAttempts THEN @ + 1 ELSE @]
  /\ stale' = [stale EXCEPT ![k] = FALSE]
  /\ Goto(w, AfterClaim(k))
  /\ task' = [task EXCEPT ![w] = m]
  /\ UNCHANGED <<accounts, row, due, cancels, answer, sweep, remote, faults>>

(* Claimed by another worker or already dispatched. *)
FindClaimed(w, m) ==
  /\ pc[w] = Idle /\ m \in messages /\ ~Claimable(m[1])
  /\ messages' = messages \ {m}
  /\ UNCHANGED <<accounts, row, dispatch, cancels, worker, sweep, remote, faults>>

(* The saves of the outbox row after the claim take no lock and look at   *)
(* nothing: they write over whatever another worker or the sweep did.     *)
Mark(w) ==
  /\ pc[w] \in {"skip", "mark"}
  /\ outbox' = [outbox EXCEPT ![task[w][1]] = "dispatched"]
  /\ Finish(w)
  /\ UNCHANGED <<accounts, row, attempts, due, stale, messages, cancels, sweep, remote, faults>>

(* The call may reach the service or not, and its answer may come back,   *)
(* be lost (a timeout, to be retried) or be an error.                     *)
Answered(k) ==
  IF Deduplicates /\ \E i \in Calls : remote[k][i] # "absent"
    THEN {i \in Calls : remote[k][i] # "absent"}
    ELSE {i \in Calls : remote[k][i] = "absent" /\ \A h \in 1 .. i - 1 : remote[k][h] # "absent"}

(* AIServiceClient._request: a timeout, no connection, and the statuses   *)
(* 408, 425, 429 and 5xx are to be retried; any other one is final for    *)
(* this task, and so is an answer that cannot be read or names no job.    *)
CallFails(w) == (Goto(w, "retry") \/ Goto(w, "give up")) /\ UNCHANGED answer

Submit(w) ==
  LET k == task[w][1] IN
  /\ pc[w] = "submit"
  /\ \/ \E i \in Answered(k) :
          /\ remote' = [remote EXCEPT ![k][i] = IF @ = "absent" THEN "running" ELSE @]
          /\ \/ Goto(w, "record") /\ answer' = [answer EXCEPT ![w] = i]
             \/ CallFails(w)
     \/ UNCHANGED remote /\ CallFails(w)
  /\ UNCHANGED <<accounts, row, dispatch, messages, cancels, task, sweep, faults>>

(* Mutant: the answer is recorded on a job that moved on meanwhile. *)
RecordAnyway(w) ==
  LET k == task[w][1] IN
  /\ pc[w] = "record"
  /\ external' = [external EXCEPT ![k] = answer[w]]
  /\ status' = [status EXCEPT ![k] = "submitted"]
  /\ Goto(w, "mark")
  /\ UNCHANGED <<accounts, credits_reserved, credits_committed, materialized, notices>>
  /\ UNCHANGED <<dispatch, messages, cancels, task, answer, sweep, remote, faults>>

(* update_job_progress: a job that moved on meanwhile is left as it is.   *)
Record(w) ==
  LET k == task[w][1] IN
  /\ pc[w] = "record"
  /\ \/ /\ status[k] = "queued"
        /\ external' = [external EXCEPT ![k] = answer[w]]
        /\ Job!Submit(k)
     \/ /\ status[k] # "queued"
        /\ UNCHANGED <<accounts, row>>
  /\ Goto(w, "mark")
  /\ UNCHANGED <<dispatch, messages, cancels, task, answer, sweep, remote, faults>>

SubmitFailed(w) ==
  LET k == task[w][1]
      n == task[w][2]
  IN
  /\ pc[w] \in {"retry", "give up"}
  /\ outbox' = [outbox EXCEPT ![k] = "failed"]
  /\ due' = [due EXCEPT ![k] = FALSE]
  /\ messages' = IF pc[w] = "retry" /\ n < MaxRetries
                   THEN messages \cup {<<k, n + 1>>} ELSE messages
  /\ Finish(w)
  /\ UNCHANGED <<accounts, row, attempts, stale, cancels, sweep, remote, faults>>

(* Tasks are acknowledged late: a dead worker's message is delivered again. *)
Crash(w) ==
  /\ pc[w] # Idle
  /\ messages' = messages \cup {task[w]}
  /\ Finish(w)
  /\ UNCHANGED <<accounts, row, dispatch, cancels, sweep, remote>>

(* The broker loses a message, or the claim skips the row because another *)
(* transaction has it locked.                                             *)
LoseMessage ==
  /\ \E m \in messages : messages' = messages \ {m}
  /\ UNCHANGED <<accounts, row, dispatch, cancels, worker, sweep, remote>>

----------------------------------------------------------------------------
(* reconcile_stuck_ai_jobs, and the clock it and the claim look at *)

(* Mutant: the sweep does not look at rows whose worker died. *)
CandidateUnclaimed(k) ==
  status[k] \in Job!Active /\ outbox[k] \in {"pending", "failed"} /\ due[k]

Candidate(k) ==
  /\ status[k] \in Job!Active
  /\ \/ outbox[k] \in {"pending", "failed"} /\ due[k]
     \/ outbox[k] = "dispatching" /\ stale[k]

(* The candidates are read once, attempt counts included. *)
SweepStart ==
  /\ \A k \in Keys : sweep[k] = Idle
  /\ \E k \in Keys : Candidate(k)
  /\ sweep' = [k \in Keys |->
       IF ~Candidate(k) THEN Idle
       ELSE IF attempts[k] >= MaxAttempts THEN "fail job" ELSE "resend"]
  /\ UNCHANGED <<accounts, row, dispatch, messages, cancels, worker, remote, faults>>

SweepResend(k) ==
  /\ sweep[k] = "resend"
  /\ messages' = messages \cup {<<k, 0>>}
  /\ sweep' = [sweep EXCEPT ![k] = Idle]
  /\ UNCHANGED <<accounts, row, dispatch, cancels, worker, remote, faults>>

SweepFail(k) ==
  /\ sweep[k] = "fail job"
  /\ UNCHANGED external
  /\ \/ Job!FailJob(k)
     \/ status[k] \in Terminal /\ UNCHANGED <<accounts, row>>
  /\ sweep' = [sweep EXCEPT ![k] = "mark"]
  /\ UNCHANGED <<dispatch, messages, cancels, worker, remote, faults>>

SweepMark(k) ==
  /\ sweep[k] = "mark"
  /\ outbox' = [outbox EXCEPT ![k] = "failed"]
  /\ sweep' = [sweep EXCEPT ![k] = Idle]
  /\ UNCHANGED <<accounts, row, attempts, due, stale, messages, cancels, worker, remote, faults>>

SweepDies ==
  /\ \E k \in Keys : sweep[k] # Idle
  /\ sweep' = [k \in Keys |-> Idle]
  /\ UNCHANGED <<accounts, row, dispatch, messages, cancels, worker, remote>>

(* Only the due time of a failed row, and the lock of a claimed one, run. *)
BackoffEnds(k) ==
  /\ outbox[k] = "failed" /\ ~due[k]
  /\ due' = [due EXCEPT ![k] = TRUE]
  /\ UNCHANGED <<accounts, row, outbox, attempts, stale, messages, cancels, worker, sweep, remote, faults>>

(* A live worker's call ends before the lock does: 30 seconds against 120. *)
LockExpires(k) ==
  /\ outbox[k] = "dispatching" /\ ~stale[k]
  /\ SlowWorkers \/ \A w \in Workers : ~Working(w, k)
  /\ stale' = [stale EXCEPT ![k] = TRUE]
  /\ UNCHANGED <<accounts, row, outbox, attempts, due, messages, cancels, worker, sweep, remote, faults>>

----------------------------------------------------------------------------
(* The AI service *)

RemoteEnds(k, i) ==
  /\ remote[k][i] = "running"
  /\ \E outcome \in {"failed"} \cup Results : remote' = [remote EXCEPT ![k][i] = outcome]
  /\ UNCHANGED <<accounts, row, dispatch, messages, cancels, worker, sweep, faults>>

(* The student deletes the subject of the job, which sets it to NULL, or  *)
(* gives one to the source or the folder it falls back on.                *)
SubjectChanges(k, i) ==
  /\ \E from, to \in Results \ {"unusable"} :
       from # to /\ remote[k][i] = from /\ remote' = [remote EXCEPT ![k][i] = to]
  /\ UNCHANGED <<accounts, row, dispatch, messages, cancels, worker, sweep, faults>>

(* Mutant: a failure is not taken for an outcome. *)
ReportResult(k) ==
  /\ external[k] # NoCall
  /\ remote[k][external[k]] = "completed"
  /\ UNCHANGED <<external, cancels>> /\ Job!CompleteJob(k)
  /\ UNCHANGED <<dispatch, messages, worker, sweep, remote, faults>>

(* A webhook or a refresh finds the job by the external id it recorded.   *)
(* Outcomes may be reported any number of times, progress in any order    *)
(* and late: the service's outcome does not change once it has one.  A    *)
(* result that is not materialized changes nothing: complete_job is       *)
(* rolled back, and a refresh that brings no result does not call it.     *)
ReportOutcome(k) ==
  /\ external[k] # NoCall
  /\ \/ /\ remote[k][external[k]] = "completed"
        /\ UNCHANGED <<external, cancels>> /\ Job!CompleteJob(k)
     \/ /\ remote[k][external[k]] = "failed"
        /\ UNCHANGED <<external, cancels>> /\ Job!FailJob(k)
     \/ /\ remote[k][external[k]] = "canceled"
        /\ CancelJob(k)
  /\ UNCHANGED <<dispatch, messages, worker, sweep, remote, faults>>

ReportProgress(k) ==
  /\ UNCHANGED external
  /\ Job!RemoteProgress(k)
  /\ UNCHANGED <<dispatch, messages, cancels, worker, sweep, remote, faults>>

----------------------------------------------------------------------------
Fault ==
  /\ faults < MaxFaults
  /\ LoseMessage \/ SweepDies \/ \E w \in Workers : Crash(w)
  /\ faults' = faults + 1

WorkerStep(w) ==
  \/ \E m \in Messages : Claim(w, m) \/ FindClaimed(w, m)
  \/ Submit(w) \/ Record(w) \/ Mark(w) \/ SubmitFailed(w)

SweepStep(k) == SweepResend(k) \/ SweepFail(k) \/ SweepMark(k)

Next ==
  \/ \E k \in Keys :
       \/ Create(k) \/ Cancel(k) \/ CancelExternal(k)
       \/ SweepStep(k) \/ BackoffEnds(k) \/ LockExpires(k)
       \/ ReportOutcome(k) \/ ReportProgress(k)
       \/ \E i \in Calls : RemoteEnds(k, i) \/ SubjectChanges(k, i)
  \/ \E w \in Workers : WorkerStep(w)
  \/ SweepStart
  \/ Fault

Spec == Init /\ [][Next]_vars

(* Workers and Beat run (docker-compose restarts them), time passes, the  *)
(* service finishes its jobs and repeats a report until it is taken: one  *)
(* that could be taken at every time it is told is.  Nothing makes a      *)
(* student create, cancel or refresh, or give a job a subject.            *)
Fairness ==
  /\ \A w \in Workers : WF_vars(WorkerStep(w))
  /\ WF_vars(SweepStart)
  /\ \A k \in Keys :
       /\ WF_vars(SweepStep(k)) /\ WF_vars(BackoffEnds(k)) /\ WF_vars(LockExpires(k))
       /\ WF_vars(ReportOutcome(k))
       /\ \A i \in Calls : WF_vars(RemoteEnds(k, i))

FairSpec == Spec /\ Fairness

----------------------------------------------------------------------------
(* Properties *)

(* "Accepted job loss: 0": a row marked DISPATCHED, which no sweep looks  *)
(* at again, is never that of a job still waiting to be sent, however     *)
(* workers and sweeps write over each other's rows.                       *)
NoAcceptedJobLost ==
  \A k \in Keys :
    /\ status[k] = "absent" <=> outbox[k] = "none"
    /\ outbox[k] = "dispatched" => status[k] # "queued"

(* While the lock outlives the call, no two workers call the service for  *)
(* the same job at the same time.                                         *)
OneCallAtATime ==
  SlowWorkers \/
  \A k \in Keys, v, w \in Workers :
    Working(v, k) /\ Working(w, k) /\ {pc[v], pc[w]} \subseteq {"submit", "record"} => v = w

Sending(k) == {w \in Workers : Working(w, k) /\ pc[w] = "submit"}
Made(k)    == {i \in Calls : remote[k][i] # "absent"}

(* Once a job is settled no left-over message, retry or sweep sends it:   *)
(* only a worker that claimed it before still may, once.                  *)
SettledIsNotSent ==
  [][\A k \in Keys :
       status[k] \in Terminal
         => /\ Sending(k)' \subseteq Sending(k)
            /\ Made(k)' # Made(k) => Sending(k)' # Sending(k)]_vars

(* Dispatching uses the job's services as AIJob describes them.           *)
JobProtocol == Job!JobSpec

(* An accepted job does not stay queued for ever: it reaches the service, *)
(* or it is withdrawn with its credit returned.                           *)
LeavesQueue == \A k \in Keys : status[k] = "queued" ~> status[k] # "queued"

Refused(k) == \E i \in Calls : external[k] = i /\ remote[k][i] \in Refusals

(* Once the service knows of a job, the student's job is settled, unless  *)
(* the service comes to a result that is not materialized: no other       *)
(* answer may leave the job as it is, with its credit reserved.           *)
AnswerArrives ==
  \A k \in Keys :
    (external[k] # NoCall /\ status[k] \in Job!Active)
      ~> (status[k] \in Terminal \/ Refused(k))

(* The sweep only fails a job it knows to have failed "without reaching   *)
(* the AI service" (tasks.py:101).                                        *)
GiveUpOnlyUnsent ==
  [][\A k \in Keys :
       sweep[k] = "fail job" /\ status[k] \in Job!Active /\ status'[k] = "failed"
         /\ sweep'[k] = "mark"
       => external[k] = NoCall]_vars

=============================================================================
