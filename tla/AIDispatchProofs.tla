-------------------------- MODULE AIDispatchProofs --------------------------
(***************************************************************************)
(* What holds of the dispatch for any number of jobs, workers, retries,    *)
(* attempts and faults.                                                    *)
(*                                                                         *)
(* The outbox row is written without a look at it by every worker that     *)
(* claimed it and by the sweep, so nothing in it alone shows that an       *)
(* accepted job is not lost.  The argument goes through what the writers   *)
(* know (Busy, Sweeping): a worker that is about to write DISPATCHED has   *)
(* seen its job leave "queued", and no job comes back to it (Moves).       *)
(***************************************************************************)
EXTENDS AIDispatch, TLAPS

Statuses == {"absent"} \cup Job!Active \cup Terminal
Steps    == {Idle, "skip", "submit", "record", "mark", "retry", "give up"}

Shapes ==
  /\ status \in [Keys -> Statuses]
  /\ outbox \in [Keys -> {"none", "pending", "dispatching", "dispatched", "failed"}]
  /\ stale \in [Keys -> BOOLEAN]
  /\ sweep \in [Keys -> {Idle, "resend", "fail job", "mark"}]
  /\ pc \in [Workers -> Steps]
  /\ DOMAIN task = Workers
  /\ messages \subseteq Messages

(* What a worker knows of the job of its message. *)
Busy ==
  \A w \in Workers : pc[w] # Idle =>
    /\ task[w] \in Messages
    /\ status[task[w][1]] # "absent"
    /\ pc[w] \in {"skip", "mark"} => status[task[w][1]] # "queued"

Sweeping ==
  \A k \in Keys :
    /\ sweep[k] # Idle => status[k] # "absent"
    /\ sweep[k] = "mark" => status[k] \in Terminal

(* While locks outlive calls, a job that is not settled has one worker,    *)
(* and its row says so.                                                    *)
Guarded(k) == status[k] \in Terminal \/ (outbox[k] = "dispatching" /\ ~ stale[k])

OneClaim ==
  \A k \in Keys, w \in Workers : Working(w, k) =>
    /\ Guarded(k)
    /\ \A v \in Workers : Working(v, k) /\ v # w => status[k] \in Terminal

DInv == Shapes /\ Busy /\ Sweeping /\ NoAcceptedJobLost
Exclusive == ~ SlowWorkers => OneClaim /\ OneCallAtATime

LEMMA InitDInv == Init => DInv /\ Exclusive
<1> SUFFICES ASSUME Init PROVE DInv /\ Exclusive
  OBVIOUS
<1>1. status = [k \in Keys |-> "absent"]
  BY DEF Init, Job!JobInit
<1>2. Shapes
  BY <1>1 DEF Init, Shapes, Statuses, Steps, Idle
<1>3. Busy /\ Sweeping /\ NoAcceptedJobLost
  BY <1>1 DEF Init, Busy, Sweeping, NoAcceptedJobLost, Idle
<1>4. OneClaim /\ OneCallAtATime
  BY DEF Init, OneClaim, OneCallAtATime, Working
<1> QED BY <1>2, <1>3, <1>4 DEF DInv, Exclusive

----------------------------------------------------------------------------
(* What a step may do to the status of a job that exists: an active one    *)
(* moves on, never back to "queued"; a settled one stays.                  *)
Moves ==
  \A k \in Keys : \/ status'[k] = status[k]
                  \/ status[k] \in Job!Active /\ status'[k] \notin {"absent", "queued"}

LEMMA StatusesApart ==
  /\ "absent" \notin Job!Active /\ "absent" \notin Terminal
  /\ "queued" \in Job!Active /\ "queued" \notin Terminal
  /\ Job!Active \cap Terminal = {}
BY DEF Job!Active, Job!Terminal, Terminal

LEMMA SetMoves ==
  ASSUME Shapes, NEW k \in Keys, NEW s \in Statuses \ {"absent", "queued"},
         status[k] \in Job!Active, status' = [status EXCEPT ![k] = s]
  PROVE  Moves /\ status' \in [Keys -> Statuses]
BY DEF Shapes, Moves

LEMMA SameMoves ==
  ASSUME Shapes, UNCHANGED status
  PROVE  Moves /\ status' \in [Keys -> Statuses]
BY DEF Shapes, Moves

LEMMA FailMoves ==
  ASSUME Shapes, NEW k \in Keys, Job!FailJob(k)
  PROVE  Moves /\ status' \in [Keys -> Statuses] /\ status'[k] \in Terminal
<1>1. status[k] \in Job!Active /\ status' = [status EXCEPT ![k] = "failed"]
  BY DEF Job!FailJob, Job!Open
<1>2. "failed" \in Terminal
  BY DEF Terminal, Job!Terminal
<1> QED BY <1>1, <1>2, SetMoves, StatusesApart DEF Statuses, Shapes

LEMMA CancelMoves ==
  ASSUME Shapes, NEW k \in Keys, CancelJob(k)
  PROVE  Moves /\ status' \in [Keys -> Statuses]
<1>1. status[k] \in Job!Active /\ status' = [status EXCEPT ![k] = "canceled"]
  BY DEF CancelJob, Job!CancelJob, Job!Open
<1>2. "canceled" \in Terminal
  BY DEF Terminal, Job!Terminal
<1> QED BY <1>1, <1>2, SetMoves, StatusesApart DEF Statuses

LEMMA CompleteMoves ==
  ASSUME Shapes, NEW k \in Keys, Job!CompleteJob(k)
  PROVE  Moves /\ status' \in [Keys -> Statuses]
<1>1. status[k] \in Job!Active /\ status' = [status EXCEPT ![k] = "completed"]
  BY DEF Job!CompleteJob, Job!Open
<1>2. "completed" \in Terminal
  BY DEF Terminal, Job!Terminal
<1> QED BY <1>1, <1>2, SetMoves, StatusesApart DEF Statuses

LEMMA ProgressMoves ==
  ASSUME Shapes, NEW k \in Keys, NEW s, NEW r, Job!UpdateJobProgress(k, s, r)
  PROVE  /\ Moves /\ status' \in [Keys -> Statuses]
         /\ status'[k] # "queued"
<1>1. status[k] \in Job!Active /\ status' = [status EXCEPT ![k] = s]
  BY DEF Job!UpdateJobProgress
<1>2. s \in Job!Active \ {"queued", "absent"}
  BY DEF Job!UpdateJobProgress, Job!Active, Job!Successors
<1> QED BY <1>1, <1>2, SetMoves DEF Statuses, Shapes

----------------------------------------------------------------------------
(* What the workers, the sweep and the row say survives a step in which    *)
(* jobs only move on and this worker, or this job's sweep, alone changes.  *)
Same(v) == pc'[v] = pc[v] /\ task'[v] = task[v]

LEMMA BusyStays ==
  ASSUME DInv, Moves, NEW w \in Workers, pc[w] # Idle, Same(w)
  PROVE  /\ pc'[w] # Idle /\ task'[w] \in Messages
         /\ status'[task'[w][1]] # "absent"
         /\ pc'[w] \in {"skip", "mark"} => status'[task'[w][1]] # "queued"
<1>1. task[w] \in Messages /\ task[w][1] \in Keys
  BY DEF DInv, Busy, Messages
<1>2. status[task[w][1]] # "absent"
      /\ (pc[w] \in {"skip", "mark"} => status[task[w][1]] # "queued")
  BY DEF DInv, Busy
<1> QED BY <1>1, <1>2 DEF Moves, Same

LEMMA BusyAll ==
  ASSUME DInv, Moves, \A w \in Workers : Same(w)
  PROVE  Busy'
BY BusyStays DEF Busy, Same

LEMMA SweepingAll ==
  ASSUME DInv, Moves, UNCHANGED sweep
  PROVE  Sweeping'
BY StatusesApart DEF DInv, Sweeping, Moves

LEMMA LostNothing ==
  ASSUME DInv, Moves, UNCHANGED outbox
  PROVE  NoAcceptedJobLost'
BY StatusesApart DEF DInv, NoAcceptedJobLost, Moves

(* A row is written, to a value that is not DISPATCHED or for a job that   *)
(* is not queued.                                                          *)
LEMMA LostNothingWritten ==
  ASSUME DInv, UNCHANGED status, NEW k \in Keys, NEW o \in {"dispatching", "dispatched", "failed"},
         outbox' = [outbox EXCEPT ![k] = o], status[k] # "absent",
         o = "dispatched" => status[k] # "queued"
  PROVE  NoAcceptedJobLost'
BY DEF DInv, Shapes, NoAcceptedJobLost

(* A step of nobody here: the job rows move on, the rest is as it was. *)
LEMMA OthersKeep ==
  ASSUME DInv, Moves, status' \in [Keys -> Statuses],
         UNCHANGED <<outbox, sweep, pc, task>>,
         stale' \in [Keys -> BOOLEAN], messages' \subseteq Messages
  PROVE  DInv'
<1>1. \A w \in Workers : Same(w)
  BY DEF Same
<1>2. Shapes'
  BY DEF DInv, Shapes
<1> QED BY <1>1, <1>2, BusyAll, SweepingAll, LostNothing DEF DInv

(* One worker finishes. *)
LEMMA FinishKeeps ==
  ASSUME DInv, UNCHANGED status, NEW w \in Workers, Finish(w)
  PROVE  Busy' /\ pc' \in [Workers -> Steps] /\ DOMAIN task' = Workers
<1>1. pc' = [pc EXCEPT ![w] = Idle] /\ task' = [task EXCEPT ![w] = NoTask]
  BY DEF Finish, Goto
<1>2. pc' \in [Workers -> Steps] /\ DOMAIN task' = Workers /\ pc'[w] = Idle
  BY <1>1 DEF DInv, Shapes, Steps
<1>3. \A v \in Workers : v # w => Same(v)
  BY <1>1 DEF DInv, Shapes, Same
<1>4. Moves
  BY DEF Moves
<1> QED BY <1>2, <1>3, <1>4, BusyStays DEF Busy, Same

(* One worker goes on with its message. *)
LEMMA GotoKeeps ==
  ASSUME DInv, Moves, NEW w \in Workers, NEW step \in Steps \ {Idle},
         pc[w] # Idle, Goto(w, step), UNCHANGED task,
         step \in {"skip", "mark"} => status'[task[w][1]] # "queued"
  PROVE  Busy' /\ pc' \in [Workers -> Steps]
<1>1. pc' = [pc EXCEPT ![w] = step]
  BY DEF Goto
<1>2. pc' \in [Workers -> Steps] /\ pc'[w] = step
  BY <1>1 DEF DInv, Shapes
<1>3. \A v \in Workers : v # w => Same(v)
  BY <1>1 DEF DInv, Shapes, Same
<1>4. task[w] \in Messages /\ task[w][1] \in Keys /\ status[task[w][1]] # "absent"
  BY DEF DInv, Busy, Messages
<1>5. status'[task[w][1]] # "absent"
  BY <1>4 DEF Moves
<1> QED BY <1>2, <1>3, <1>4, <1>5, BusyStays DEF Busy, Same

LEMMA TaskIsMessage ==
  ASSUME DInv, NEW w \in Workers, pc[w] # Idle
  PROVE  /\ task[w] \in Messages /\ task[w][1] \in Keys
         /\ task[w][2] \in 0 .. MaxRetries /\ status[task[w][1]] # "absent"
BY DEF DInv, Busy, Messages

----------------------------------------------------------------------------
(* The invariant is kept, action by action. *)

LEMMA CreateKeeps == ASSUME DInv, NEW k \in Keys, Create(k) PROVE DInv'
<1>1. status[k] = "absent" /\ status' = [status EXCEPT ![k] = "queued"]
  BY DEF Create, Job!CreateAIJob, Job!Free, Job!InitialStatus
<1>2. outbox' = [outbox EXCEPT ![k] = "pending"] /\ UNCHANGED <<stale, pc, task, sweep>>
  BY DEF Create, worker
<1>3. messages' \subseteq Messages
  <2>1. <<k, 0>> \in Messages
    BY RetryAssumption DEF Messages
  <2> QED BY <2>1 DEF Create, DInv, Shapes
<1>4. Shapes'
  BY <1>1, <1>2, <1>3, StatusesApart DEF DInv, Shapes, Statuses
<1>5. Busy'
  <2> SUFFICES ASSUME NEW w \in Workers, pc[w] # Idle
               PROVE  /\ task[w] \in Messages
                      /\ status'[task[w][1]] # "absent"
                      /\ pc[w] \in {"skip", "mark"} => status'[task[w][1]] # "queued"
    BY <1>2 DEF Busy
  <2>1. task[w][1] \in Keys /\ task[w][1] # k
    BY <1>1, TaskIsMessage
  <2>2. status'[task[w][1]] = status[task[w][1]]
    BY <1>1, <2>1 DEF DInv, Shapes
  <2> QED BY <2>2 DEF DInv, Busy
<1>6. Sweeping'
  BY <1>1, <1>2, StatusesApart DEF DInv, Sweeping, Shapes
<1>7. NoAcceptedJobLost'
  BY <1>1, <1>2 DEF DInv, NoAcceptedJobLost, Shapes
<1> QED BY <1>4, <1>5, <1>6, <1>7 DEF DInv

LEMMA ClaimKeeps == ASSUME DInv, NEW w \in Workers, NEW m \in Messages, Claim(w, m) PROVE DInv'
<1> DEFINE k == m[1]
<1>1. k \in Keys
  BY DEF Messages
<1>2. UNCHANGED <<status, sweep>>
  BY DEF Claim, row
<1>3. /\ outbox' = [outbox EXCEPT ![k] = "dispatching"] /\ stale' = [stale EXCEPT ![k] = FALSE]
      /\ messages' = messages \ {m} /\ task' = [task EXCEPT ![w] = m]
      /\ pc' = [pc EXCEPT ![w] = AfterClaim(k)]
  BY DEF Claim, Goto
<1>4. status[k] # "absent"
  BY <1>1 DEF Claim, Claimable, DInv, NoAcceptedJobLost
<1>5. AfterClaim(k) \in {"submit", "skip"} /\ (AfterClaim(k) = "skip" => status[k] # "queued")
  BY DEF AfterClaim
<1>6. Shapes'
  BY <1>1, <1>2, <1>3, <1>5 DEF DInv, Shapes, Steps
<1>7. \A v \in Workers : v # w => Same(v)
  BY <1>3 DEF DInv, Shapes, Same
<1>8. Busy'
  <2>1. pc'[w] = AfterClaim(k) /\ task'[w] = m
    BY <1>3 DEF DInv, Shapes
  <2>2. Moves
    BY <1>2 DEF Moves
  <2>3. ASSUME NEW v \in Workers, v = w
        PROVE  /\ task'[v] \in Messages /\ status'[task'[v][1]] # "absent"
               /\ pc'[v] \in {"skip", "mark"} => status'[task'[v][1]] # "queued"
    BY <2>1, <2>3, <1>2, <1>4, <1>5
  <2> QED BY <2>2, <2>3, <1>7, BusyStays DEF Busy, Same
<1>9. Sweeping' /\ NoAcceptedJobLost'
  <2>1. Moves
    BY <1>2 DEF Moves
  <2> QED BY <2>1, <1>1, <1>2, <1>3, <1>4, SweepingAll, LostNothingWritten
<1> QED BY <1>6, <1>8, <1>9 DEF DInv

LEMMA MarkKeeps == ASSUME DInv, NEW w \in Workers, Mark(w) PROVE DInv'
<1> DEFINE k == task[w][1]
<1>1. pc[w] # Idle
  BY DEF Mark, Idle
<1>2. k \in Keys /\ status[k] # "absent"
  BY <1>1, TaskIsMessage
<1>3. status[k] # "queued"
  BY <1>1 DEF Mark, DInv, Busy
<1>4. /\ UNCHANGED <<status, sweep, stale, messages>> /\ Finish(w)
      /\ outbox' = [outbox EXCEPT ![k] = "dispatched"]
  BY DEF Mark, row
<1>5. Busy' /\ pc' \in [Workers -> Steps] /\ DOMAIN task' = Workers
  BY <1>4, FinishKeeps
<1>6. Shapes'
  BY <1>4, <1>5 DEF DInv, Shapes
<1>7. Moves
  BY <1>4 DEF Moves
<1>8. Sweeping' /\ NoAcceptedJobLost'
  BY <1>2, <1>3, <1>4, <1>7, SweepingAll, LostNothingWritten
<1> QED BY <1>5, <1>6, <1>8 DEF DInv

LEMMA SubmitKeeps == ASSUME DInv, NEW w \in Workers, Submit(w) PROVE DInv'
<1>1. pc[w] # Idle /\ UNCHANGED <<status, outbox, stale, sweep, messages, task>>
  BY DEF Submit, row, dispatch, Idle
<1>2. PICK step \in {"record", "retry", "give up"} : Goto(w, step)
  BY DEF Submit, CallFails
<1>3. Moves
  BY <1>1 DEF Moves
<1>4. step \in Steps \ {Idle} /\ step \notin {"skip", "mark"}
  BY <1>2 DEF Steps, Idle
<1>5. Busy' /\ pc' \in [Workers -> Steps]
  BY <1>1, <1>2, <1>3, <1>4, GotoKeeps
<1>6. Shapes'
  BY <1>1, <1>5 DEF DInv, Shapes
<1> QED BY <1>1, <1>3, <1>5, <1>6, SweepingAll, LostNothing DEF DInv

LEMMA RecordKeeps == ASSUME DInv, NEW w \in Workers, Record(w) PROVE DInv'
<1> DEFINE k == task[w][1]
<1>1. pc[w] # Idle /\ Goto(w, "mark") /\ UNCHANGED <<outbox, stale, sweep, messages, task>>
  BY DEF Record, dispatch, Idle
<1>2. k \in Keys
  BY <1>1, TaskIsMessage
<1>3. Moves /\ status' \in [Keys -> Statuses] /\ status'[k] # "queued"
  <2>1. CASE status[k] = "queued"
    BY <2>1, <1>2, ProgressMoves DEF Record, Job!Submit, DInv
  <2>2. CASE status[k] # "queued"
    BY <2>2, SameMoves DEF Record, row, DInv
  <2> QED BY <2>1, <2>2
<1>4. "mark" \in Steps \ {Idle}
  BY DEF Steps, Idle
<1>5. Busy' /\ pc' \in [Workers -> Steps]
  BY <1>1, <1>3, <1>4, GotoKeeps
<1>6. Shapes'
  BY <1>1, <1>3, <1>5 DEF DInv, Shapes
<1> QED BY <1>1, <1>3, <1>5, <1>6, SweepingAll, LostNothing DEF DInv

LEMMA SubmitFailedKeeps == ASSUME DInv, NEW w \in Workers, SubmitFailed(w) PROVE DInv'
<1> DEFINE k == task[w][1]
           n == task[w][2]
<1>1. pc[w] # Idle
  BY DEF SubmitFailed, Idle
<1>2. k \in Keys /\ status[k] # "absent" /\ n \in 0 .. MaxRetries
  BY <1>1, TaskIsMessage
<1>3. /\ UNCHANGED <<status, sweep, stale>> /\ Finish(w)
      /\ outbox' = [outbox EXCEPT ![k] = "failed"]
  BY DEF SubmitFailed, row
<1>4. messages' \subseteq Messages
  <2>1. n < MaxRetries => <<k, n + 1>> \in Messages
    BY <1>2, RetryAssumption DEF Messages
  <2> QED BY <2>1 DEF SubmitFailed, DInv, Shapes
<1>5. Busy' /\ pc' \in [Workers -> Steps] /\ DOMAIN task' = Workers
  BY <1>3, FinishKeeps
<1>6. Shapes'
  BY <1>3, <1>4, <1>5 DEF DInv, Shapes
<1>7. Moves
  BY <1>3 DEF Moves
<1>8. Sweeping' /\ NoAcceptedJobLost'
  BY <1>2, <1>3, <1>7, SweepingAll, LostNothingWritten
<1> QED BY <1>5, <1>6, <1>8 DEF DInv

LEMMA CrashKeeps == ASSUME DInv, NEW w \in Workers, Crash(w) PROVE DInv'
<1>1. /\ UNCHANGED <<status, outbox, stale, sweep>> /\ Finish(w)
      /\ messages' = messages \cup {task[w]}
  BY DEF Crash, row, dispatch
<1>2. task[w] \in Messages
  BY TaskIsMessage DEF Crash
<1>3. Busy' /\ pc' \in [Workers -> Steps] /\ DOMAIN task' = Workers
  BY <1>1, FinishKeeps
<1>4. Shapes'
  BY <1>1, <1>2, <1>3 DEF DInv, Shapes
<1>5. Moves
  BY <1>1 DEF Moves
<1> QED BY <1>1, <1>3, <1>4, <1>5, SweepingAll, LostNothing DEF DInv

LEMMA SweepStartKeeps == ASSUME DInv, SweepStart PROVE DInv'
<1>1. UNCHANGED <<status, outbox, stale, messages, pc, task>>
  BY DEF SweepStart, row, dispatch, worker
<1>2. sweep' = [k \in Keys |-> IF ~ Candidate(k) THEN Idle
                              ELSE IF attempts[k] >= MaxAttempts THEN "fail job" ELSE "resend"]
  BY DEF SweepStart
<1>3. Shapes'
  BY <1>1, <1>2 DEF DInv, Shapes
<1>4. Sweeping'
  <2> SUFFICES ASSUME NEW k \in Keys
               PROVE  /\ sweep'[k] # Idle => status[k] # "absent"
                      /\ sweep'[k] # "mark"
    BY <1>1 DEF Sweeping
  <2>1. sweep'[k] # Idle => Candidate(k)
    BY <1>2
  <2>2. sweep'[k] \in {Idle, "fail job", "resend"}
    BY <1>2
  <2> QED BY <2>1, <2>2, StatusesApart DEF Candidate, Idle
<1>5. Moves /\ \A w \in Workers : Same(w)
  BY <1>1 DEF Moves, Same
<1> QED BY <1>1, <1>3, <1>4, <1>5, BusyAll, LostNothing DEF DInv

(* A sweep that is through with a job, or with all of them, and the step   *)
(* from failing the job to marking its row.                                *)
LEMMA SweepStepKeeps == ASSUME DInv, NEW k \in Keys, SweepStep(k) PROVE DInv'
<1>1. CASE SweepResend(k)
  <2>1. /\ UNCHANGED <<status, outbox, stale, pc, task>>
        /\ sweep' = [sweep EXCEPT ![k] = Idle]
        /\ messages' = messages \cup {<<k, 0>>}
    BY <1>1 DEF SweepResend, row, dispatch, worker
  <2>2. <<k, 0>> \in Messages
    BY RetryAssumption DEF Messages
  <2>3. Shapes' /\ Sweeping'
    BY <2>1, <2>2 DEF DInv, Shapes, Sweeping, Idle
  <2>4. Moves /\ \A w \in Workers : Same(w)
    BY <2>1 DEF Moves, Same
  <2> QED BY <2>1, <2>3, <2>4, BusyAll, LostNothing DEF DInv
<1>2. CASE SweepFail(k)
  <2>1. /\ UNCHANGED <<outbox, stale, pc, task, messages>>
        /\ sweep' = [sweep EXCEPT ![k] = "mark"] /\ sweep[k] = "fail job"
    BY <1>2 DEF SweepFail, dispatch, worker
  <2>2. Moves /\ status' \in [Keys -> Statuses] /\ status'[k] \in Terminal
    <3>1. CASE Job!FailJob(k)
      BY <3>1, FailMoves DEF DInv
    <3>2. CASE status[k] \in Terminal /\ UNCHANGED <<accounts, row>>
      BY <3>2, SameMoves DEF row, DInv
    <3> QED BY <1>2, <3>1, <3>2 DEF SweepFail
  <2>3. Shapes'
    BY <2>1, <2>2 DEF DInv, Shapes
  <2>4. Sweeping'
    BY <2>1, <2>2, StatusesApart DEF DInv, Shapes, Sweeping, Moves
  <2>5. \A w \in Workers : Same(w)
    BY <2>1 DEF Same
  <2> QED BY <2>1, <2>2, <2>3, <2>4, <2>5, BusyAll, LostNothing DEF DInv
<1>3. CASE SweepMark(k)
  <2>1. /\ UNCHANGED <<status, stale, pc, task, messages>>
        /\ sweep' = [sweep EXCEPT ![k] = Idle] /\ sweep[k] = "mark"
        /\ outbox' = [outbox EXCEPT ![k] = "failed"]
    BY <1>3 DEF SweepMark, row, worker
  <2>2. status[k] # "absent"
    BY <2>1 DEF DInv, Sweeping, Idle
  <2>3. Shapes' /\ Sweeping'
    BY <2>1 DEF DInv, Shapes, Sweeping, Idle
  <2>4. Moves /\ \A w \in Workers : Same(w)
    BY <2>1 DEF Moves, Same
  <2> QED BY <2>1, <2>2, <2>3, <2>4, BusyAll, LostNothingWritten DEF DInv
<1> QED BY <1>1, <1>2, <1>3 DEF SweepStep

LEMMA SweepDiesKeeps == ASSUME DInv, SweepDies PROVE DInv'
<1>1. UNCHANGED <<status, outbox, stale, messages, pc, task>> /\ sweep' = [k \in Keys |-> Idle]
  BY DEF SweepDies, row, dispatch, worker
<1>2. Shapes' /\ Sweeping'
  BY <1>1 DEF DInv, Shapes, Sweeping, Idle
<1>3. Moves /\ \A w \in Workers : Same(w)
  BY <1>1 DEF Moves, Same
<1> QED BY <1>1, <1>2, <1>3, BusyAll, LostNothing DEF DInv

(* Everything else leaves rows, workers and sweep alone.                   *)
Outside ==
  \/ \E k \in Keys : \/ Cancel(k) \/ CancelExternal(k) \/ BackoffEnds(k) \/ LockExpires(k)
                     \/ ReportOutcome(k) \/ ReportProgress(k) \/ \E i \in Calls : RemoteEnds(k, i) \/ SubjectChanges(k, i)
  \/ \E w \in Workers, m \in Messages : FindClaimed(w, m)
  \/ LoseMessage

LEMMA OutsideMoves ==
  ASSUME DInv, Outside
  PROVE  /\ Moves /\ status' \in [Keys -> Statuses]
         /\ UNCHANGED <<outbox, sweep, pc, task>>
         /\ stale' \in [Keys -> BOOLEAN] /\ messages' \subseteq Messages
<1> USE DEF dispatch, worker
<1>1. Shapes
  BY DEF DInv
<1>2. ASSUME NEW k \in Keys, Cancel(k)
      PROVE  /\ Moves /\ status' \in [Keys -> Statuses]
             /\ UNCHANGED <<outbox, sweep, pc, task, stale, messages>>
  BY <1>1, <1>2, CancelMoves DEF Cancel
<1>3. ASSUME NEW k \in Keys, ReportOutcome(k)
      PROVE  /\ Moves /\ status' \in [Keys -> Statuses]
             /\ UNCHANGED <<outbox, sweep, pc, task, stale, messages>>
  <2>1. Job!CompleteJob(k) \/ Job!FailJob(k) \/ CancelJob(k)
    BY <1>3 DEF ReportOutcome
  <2>2. Moves /\ status' \in [Keys -> Statuses]
    BY <1>1, <2>1, CompleteMoves, FailMoves, CancelMoves
  <2> QED BY <1>3, <2>2 DEF ReportOutcome
<1>4. ASSUME NEW k \in Keys, ReportProgress(k)
      PROVE  /\ Moves /\ status' \in [Keys -> Statuses]
             /\ UNCHANGED <<outbox, sweep, pc, task, stale, messages>>
  BY <1>1, <1>4, ProgressMoves DEF ReportProgress, Job!RemoteProgress
<1>5. ASSUME NEW k \in Keys, CancelExternal(k) \/ \E i \in Calls : RemoteEnds(k, i) \/ SubjectChanges(k, i)
      PROVE  UNCHANGED <<status, outbox, sweep, pc, task, stale, messages>>
  BY <1>5 DEF CancelExternal, RemoteEnds, SubjectChanges, row
<1>6. ASSUME NEW k \in Keys, BackoffEnds(k) \/ LockExpires(k)
      PROVE  /\ UNCHANGED <<status, outbox, sweep, pc, task, messages>>
             /\ stale' \in [Keys -> BOOLEAN]
  BY <1>1, <1>6 DEF BackoffEnds, LockExpires, row, Shapes
<1>7. ASSUME NEW w \in Workers, NEW m \in Messages, FindClaimed(w, m)
      PROVE  UNCHANGED <<status, outbox, sweep, pc, task, stale>> /\ messages' \subseteq messages
  BY <1>7 DEF FindClaimed, row
<1>8. ASSUME LoseMessage
      PROVE  UNCHANGED <<status, outbox, sweep, pc, task, stale>> /\ messages' \subseteq messages
  BY <1>8 DEF LoseMessage, row
<1>9. UNCHANGED status => Moves /\ status' \in [Keys -> Statuses]
  BY <1>1, SameMoves
<1> QED BY <1>1, <1>2, <1>3, <1>4, <1>5, <1>6, <1>7, <1>8, <1>9 DEF Outside, Shapes

(* The steps of the specification, sorted for the proofs. *)
LEMMA StepCases ==
  ASSUME Next
  PROVE  \/ \E k \in Keys : Create(k) \/ SweepStep(k)
         \/ \E w \in Workers :
              \/ \E m \in Messages : Claim(w, m)
              \/ Submit(w) \/ Record(w) \/ Mark(w) \/ SubmitFailed(w) \/ Crash(w)
         \/ SweepStart \/ SweepDies
         \/ Outside
BY DEF Next, WorkerStep, Fault, Outside

LEMMA DInvInductive == DInv /\ [Next]_vars => DInv'
<1> SUFFICES ASSUME DInv, [Next]_vars PROVE DInv'
  OBVIOUS
<1>1. CASE UNCHANGED vars
  <2>1. UNCHANGED <<status, outbox, stale, sweep, messages, pc, task>>
    BY <1>1 DEF vars, row, dispatch, worker
  <2>2. Moves /\ status' \in [Keys -> Statuses]
    BY <2>1, SameMoves DEF DInv
  <2> QED BY <2>1, <2>2, OthersKeep DEF DInv, Shapes
<1>2. CASE Outside
  BY <1>2, OutsideMoves, OthersKeep
<1>3. CASE Next /\ ~ Outside
  BY <1>3, StepCases, CreateKeeps, SweepStepKeeps, ClaimKeeps, SubmitKeeps, RecordKeeps, MarkKeeps,
     SubmitFailedKeeps, CrashKeeps, SweepStartKeeps, SweepDiesKeeps
<1> QED BY <1>1, <1>2, <1>3

(* "Accepted job loss: 0", for any number of jobs, workers, retries and    *)
(* faults: a DISPATCHED outbox row is never that of a job still queued, so *)
(* the sweep finds every job that was accepted and not sent.               *)
THEOREM AcceptedJobsStay == Spec => []NoAcceptedJobLost
<1>1. DInv => NoAcceptedJobLost
  BY DEF DInv
<1> QED BY <1>1, InitDInv, DInvInductive, PTL DEF Spec

----------------------------------------------------------------------------
(* One worker calls the service for a job.  A step keeps this when its     *)
(* workers go on or finish (Onward), and writes the row of a job that is   *)
(* worked on only if the job is settled.                                   *)
Calling   == {"submit", "record"}
Onward(v) == \/ pc'[v] = Idle
             \/ /\ pc[v] # Idle /\ task'[v] = task[v]
                /\ pc'[v] \in Calling => pc[v] \in Calling
Settled   == \A k \in Keys : status[k] \in Terminal => status'[k] \in Terminal
RowLeft(k) == outbox'[k] = outbox[k] /\ stale'[k] = stale[k]

LEMMA OnwardKeeps ==
  ASSUME OneClaim, OneCallAtATime, Settled,
         \A v \in Workers : Onward(v),
         \A k \in Keys : RowLeft(k) \/ status'[k] \in Terminal \/ \A v \in Workers : ~ Working(v, k)'
  PROVE  OneClaim' /\ OneCallAtATime'
<1>1. ASSUME NEW k \in Keys, NEW v \in Workers, Working(v, k)'
      PROVE  Working(v, k) /\ (pc'[v] \in Calling => pc[v] \in Calling)
  BY <1>1 DEF Working, Onward
<1>2. OneClaim'
  <2> SUFFICES ASSUME NEW k \in Keys, NEW w \in Workers, Working(w, k)'
               PROVE  /\ Guarded(k)'
                      /\ \A v \in Workers : Working(v, k)' /\ v # w => status'[k] \in Terminal
    BY DEF OneClaim
  <2>1. Working(w, k) /\ Guarded(k)
    BY <1>1 DEF OneClaim
  <2>2. Guarded(k)'
    BY <2>1 DEF Guarded, RowLeft, Settled
  <2>3. ASSUME NEW v \in Workers, Working(v, k)', v # w PROVE status'[k] \in Terminal
    BY <1>1, <2>1, <2>3 DEF OneClaim, Settled
  <2> QED BY <2>2, <2>3
<1>3. OneCallAtATime'
  <2> SUFFICES ASSUME NEW k \in Keys, NEW v \in Workers, NEW w \in Workers, ~ SlowWorkers,
                      Working(v, k)', Working(w, k)', {pc'[v], pc'[w]} \subseteq Calling
               PROVE  v = w
    BY DEF OneCallAtATime, Calling
  <2>1. Working(v, k) /\ Working(w, k) /\ {pc[v], pc[w]} \subseteq Calling
    BY <1>1
  <2> QED BY <2>1 DEF OneCallAtATime, Calling
<1> QED BY <1>2, <1>3

LEMMA MovesSettle == ASSUME Moves PROVE Settled
BY StatusesApart DEF Moves, Settled

LEMMA AsBefore ==
  ASSUME UNCHANGED <<pc, task>> PROVE \A v \in Workers : Onward(v)
BY DEF Onward

LEMMA OneAtWork ==
  ASSUME DInv, NEW w \in Workers, NEW step \in Steps, pc' = [pc EXCEPT ![w] = step],
         step = Idle \/ (pc[w] # Idle /\ task' = task /\ (step \in Calling => pc[w] \in Calling)),
         \A v \in Workers : v # w => task'[v] = task[v]
  PROVE  \A v \in Workers : Onward(v)
BY DEF DInv, Shapes, Onward

LEMMA FinishOnward ==
  ASSUME DInv, NEW w \in Workers, Finish(w)
  PROVE  /\ \A v \in Workers : Onward(v)
         /\ \A k \in Keys, v \in Workers : Working(v, k)' => v # w /\ Working(v, k)
<1>1. pc' = [pc EXCEPT ![w] = Idle] /\ task' = [task EXCEPT ![w] = NoTask]
  BY DEF Finish, Goto
<1>2. \A v \in Workers : v # w => task'[v] = task[v]
  BY <1>1 DEF DInv, Shapes
<1>3. Idle \in Steps
  BY DEF Steps
<1>4. \A v \in Workers : Onward(v)
  BY <1>1, <1>2, <1>3, OneAtWork
<1>5. pc'[w] = Idle
  BY <1>1 DEF DInv, Shapes
<1> QED BY <1>4, <1>5 DEF Onward, Working

(* A worker that finishes writes its own row: if another one works on the  *)
(* job, the job is settled.                                                *)
LEMMA FinishExclusive ==
  ASSUME DInv, OneClaim, OneCallAtATime, NEW w \in Workers, pc[w] # Idle, Finish(w),
         UNCHANGED <<status, stale>>,
         NEW o, outbox' = [outbox EXCEPT ![task[w][1]] = o] \/ UNCHANGED outbox
  PROVE  OneClaim' /\ OneCallAtATime'
<1>1. Settled
  BY DEF Settled
<1>2. ASSUME NEW k \in Keys, ~ RowLeft(k), NEW v \in Workers, Working(v, k)'
      PROVE  status'[k] \in Terminal
  <2>1. k = task[w][1]
    BY <1>2 DEF RowLeft, DInv, Shapes
  <2>2. Working(w, k) /\ Working(v, k) /\ v # w
    BY <1>2, <2>1, FinishOnward DEF Working
  <2> QED BY <2>2 DEF OneClaim
<1> QED BY <1>1, <1>2, FinishOnward, OnwardKeeps

LEMMA ClaimExclusive ==
  ASSUME DInv, OneClaim, OneCallAtATime, ~ SlowWorkers,
         NEW w \in Workers, NEW m \in Messages, Claim(w, m)
  PROVE  OneClaim' /\ OneCallAtATime'
<1> DEFINE k == m[1]
<1>1. k \in Keys
  BY DEF Messages
<1>2. /\ UNCHANGED status /\ Claimable(k) /\ pc[w] = Idle
      /\ outbox' = [outbox EXCEPT ![k] = "dispatching"] /\ stale' = [stale EXCEPT ![k] = FALSE]
      /\ task' = [task EXCEPT ![w] = m] /\ pc' = [pc EXCEPT ![w] = AfterClaim(k)]
  BY DEF Claim, Goto, row
<1>3. \A v \in Workers : Working(v, k) => status[k] \in Terminal
  BY <1>1, <1>2 DEF Claimable, OneClaim, Guarded
<1>4. \A v \in Workers : v # w => Same(v)
  BY <1>2 DEF DInv, Shapes, Same
<1>5. pc'[w] = AfterClaim(k) /\ task'[w] = m
  BY <1>2 DEF DInv, Shapes
<1>6. \A v \in Workers, j \in Keys : v # w /\ Working(v, j)' => Working(v, j) /\ pc'[v] = pc[v]
  BY <1>4 DEF Same, Working
<1>7. \A j \in Keys : Working(w, j)' => j = k
  BY <1>5 DEF Working
<1>8. OneClaim'
  <2> SUFFICES ASSUME NEW j \in Keys, NEW u \in Workers, Working(u, j)'
               PROVE  /\ Guarded(j)'
                      /\ \A v \in Workers : Working(v, j)' /\ v # u => status'[j] \in Terminal
    BY DEF OneClaim
  <2>1. CASE j = k
    <3>1. Guarded(k)'
      BY <1>1, <1>2 DEF Guarded, DInv, Shapes
    <3>2. ASSUME NEW v \in Workers, Working(v, k)', v # u PROVE status'[k] \in Terminal
      BY <1>2, <1>3, <1>6, <2>1, <3>2
    <3> QED BY <2>1, <3>1, <3>2
  <2>2. CASE j # k
    <3>1. u # w /\ Working(u, j)
      BY <1>6, <1>7, <2>2
    <3>2. Guarded(j)'
      BY <1>2, <2>2, <3>1 DEF OneClaim, Guarded, DInv, Shapes
    <3>3. ASSUME NEW v \in Workers, Working(v, j)', v # u PROVE status'[j] \in Terminal
      BY <1>2, <1>6, <1>7, <2>2, <3>1, <3>3 DEF OneClaim
    <3> QED BY <3>2, <3>3
  <2> QED BY <2>1, <2>2
<1>9. OneCallAtATime'
  <2> SUFFICES ASSUME NEW j \in Keys, NEW u \in Workers, NEW v \in Workers,
                      Working(u, j)', Working(v, j)', {pc'[u], pc'[v]} \subseteq Calling
               PROVE  u = v
    BY DEF OneCallAtATime, Calling
  <2>1. CASE u # w /\ v # w
    BY <2>1, <1>6 DEF OneCallAtATime, Calling
  <2>2. CASE u # v /\ w \in {u, v}
    <3>1. j = k /\ pc'[w] \in Calling
      BY <1>7, <2>2
    <3>2. status[k] = "queued"
      BY <3>1, <1>5 DEF AfterClaim, Calling
    <3>3. Working(u, k) \/ Working(v, k)
      BY <1>6, <2>2, <3>1
    <3> QED BY <1>3, <3>2, <3>3, StatusesApart
  <2> QED BY <2>1, <2>2
<1> QED BY <1>8, <1>9

LEMMA WorkerExclusive ==
  ASSUME DInv, OneClaim, OneCallAtATime, NEW w \in Workers,
         Submit(w) \/ Record(w) \/ Mark(w) \/ SubmitFailed(w) \/ Crash(w)
  PROVE  OneClaim' /\ OneCallAtATime'
<1>1. CASE Mark(w)
  <2>1. /\ pc[w] # Idle /\ Finish(w) /\ UNCHANGED <<status, stale>>
        /\ outbox' = [outbox EXCEPT ![task[w][1]] = "dispatched"]
    BY <1>1 DEF Mark, row, Idle
  <2> QED BY <2>1, FinishExclusive
<1>2. CASE SubmitFailed(w)
  <2>1. /\ pc[w] # Idle /\ Finish(w) /\ UNCHANGED <<status, stale>>
        /\ outbox' = [outbox EXCEPT ![task[w][1]] = "failed"]
    BY <1>2 DEF SubmitFailed, row, Idle
  <2> QED BY <2>1, FinishExclusive
<1>3. CASE Crash(w)
  <2>1. pc[w] # Idle /\ Finish(w) /\ UNCHANGED <<status, stale, outbox>>
    BY <1>3 DEF Crash, row, dispatch
  <2> QED BY <2>1, FinishExclusive
<1>4. CASE Submit(w)
  <2>1. pc[w] = "submit" /\ UNCHANGED <<status, stale, outbox, task>>
    BY <1>4 DEF Submit, row, dispatch
  <2>2. PICK step \in {"record", "retry", "give up"} : pc' = [pc EXCEPT ![w] = step]
    BY <1>4 DEF Submit, CallFails, Goto
  <2>3. \A v \in Workers : Onward(v)
    BY <2>1, <2>2, OneAtWork DEF Steps, Calling, Idle
  <2> QED BY <2>1, <2>3, OnwardKeeps DEF Settled, RowLeft
<1>5. CASE Record(w)
  <2>1. /\ pc[w] = "record" /\ pc' = [pc EXCEPT ![w] = "mark"]
        /\ UNCHANGED <<stale, outbox, task>>
    BY <1>5 DEF Record, Goto, dispatch
  <2>2. \A v \in Workers : Onward(v)
    BY <2>1, OneAtWork DEF Steps, Calling, Idle
  <2>3. Moves
    <3>1. CASE Job!Submit(task[w][1])
      BY <1>5, <2>1, <3>1, TaskIsMessage, ProgressMoves DEF Job!Submit, DInv, Idle
    <3>2. CASE UNCHANGED row
      BY <3>2 DEF row, Moves
    <3> QED BY <1>5, <3>1, <3>2 DEF Record
  <2> QED BY <2>1, <2>2, <2>3, MovesSettle, OnwardKeeps DEF RowLeft
<1> QED BY <1>1, <1>2, <1>3, <1>4, <1>5

LEMMA SweepExclusive ==
  ASSUME DInv, OneClaim, OneCallAtATime,
         SweepStart \/ SweepDies \/ \E k \in Keys : SweepStep(k)
  PROVE  OneClaim' /\ OneCallAtATime'
<1>1. CASE SweepStart \/ SweepDies
  <2>1. UNCHANGED <<status, outbox, stale, pc, task>>
    BY <1>1 DEF SweepStart, SweepDies, row, dispatch, worker
  <2> QED BY <2>1, AsBefore, OnwardKeeps DEF Settled, RowLeft
<1>2. ASSUME NEW k \in Keys, SweepResend(k) PROVE OneClaim' /\ OneCallAtATime'
  <2>1. UNCHANGED <<status, outbox, stale, pc, task>>
    BY <1>2 DEF SweepResend, row, dispatch, worker
  <2> QED BY <2>1, AsBefore, OnwardKeeps DEF Settled, RowLeft
<1>3. ASSUME NEW k \in Keys, SweepFail(k) PROVE OneClaim' /\ OneCallAtATime'
  <2>1. UNCHANGED <<outbox, stale, pc, task>>
    BY <1>3 DEF SweepFail, dispatch, worker
  <2>2. Moves
    BY <1>3, FailMoves, SameMoves DEF SweepFail, DInv, row
  <2> QED BY <2>1, <2>2, MovesSettle, AsBefore, OnwardKeeps DEF RowLeft
<1>4. ASSUME NEW k \in Keys, SweepMark(k) PROVE OneClaim' /\ OneCallAtATime'
  <2>1. /\ UNCHANGED <<status, stale, pc, task>> /\ sweep[k] = "mark"
        /\ outbox' = [outbox EXCEPT ![k] = "failed"]
    BY <1>4 DEF SweepMark, row, worker
  <2>2. \A j \in Keys : RowLeft(j) \/ status'[j] \in Terminal
    BY <2>1 DEF DInv, Sweeping, Shapes, RowLeft
  <2> QED BY <2>1, <2>2, AsBefore, OnwardKeeps DEF Settled
<1> QED BY <1>1, <1>2, <1>3, <1>4 DEF SweepStep

LEMMA CreateExclusive ==
  ASSUME DInv, OneClaim, OneCallAtATime, NEW k \in Keys, Create(k)
  PROVE  OneClaim' /\ OneCallAtATime'
<1>1. status[k] = "absent" /\ status' = [status EXCEPT ![k] = "queued"]
  BY DEF Create, Job!CreateAIJob, Job!Free, Job!InitialStatus
<1>2. outbox' = [outbox EXCEPT ![k] = "pending"] /\ UNCHANGED <<stale, pc, task>>
  BY DEF Create, worker
<1>3. Settled
  BY <1>1, StatusesApart DEF Settled, DInv, Shapes
<1>4. \A j \in Keys : j # k => RowLeft(j)
  BY <1>2 DEF RowLeft, DInv, Shapes
<1>5. \A v \in Workers : ~ Working(v, k)'
  BY <1>1, <1>2, TaskIsMessage DEF Working
<1> QED BY <1>2, <1>3, <1>4, <1>5, AsBefore, OnwardKeeps

LEMMA OutsideExclusive ==
  ASSUME DInv, OneClaim, OneCallAtATime, ~ SlowWorkers, Outside
  PROVE  OneClaim' /\ OneCallAtATime'
<1>1. Moves /\ UNCHANGED <<outbox, pc, task>>
  BY OutsideMoves
<1>2. ASSUME NEW k \in Keys, LockExpires(k) PROVE OneClaim' /\ OneCallAtATime'
  <2>1. stale' = [stale EXCEPT ![k] = TRUE] /\ \A v \in Workers : ~ Working(v, k)
    BY <1>2 DEF LockExpires
  <2>2. \A v \in Workers : ~ Working(v, k)'
    BY <1>1, <2>1 DEF Working
  <2>3. \A j \in Keys : j # k => RowLeft(j)
    BY <1>1, <2>1 DEF RowLeft, DInv, Shapes
  <2> QED BY <1>1, <2>2, <2>3, MovesSettle, AsBefore, OnwardKeeps
<1>3. CASE \A k \in Keys : ~ LockExpires(k)
  <2>1. UNCHANGED stale
    BY <1>3 DEF Outside, Cancel, CancelExternal, BackoffEnds, ReportOutcome, ReportProgress, RemoteEnds, SubjectChanges,
       FindClaimed, LoseMessage, dispatch
  <2> QED BY <1>1, <2>1, MovesSettle, AsBefore, OnwardKeeps DEF RowLeft
<1> QED BY <1>2, <1>3

LEMMA ExclusiveInductive == DInv /\ Exclusive /\ [Next]_vars => Exclusive'
<1> SUFFICES ASSUME DInv, Exclusive, [Next]_vars, ~ SlowWorkers PROVE OneClaim' /\ OneCallAtATime'
  BY DEF Exclusive
<1>1. OneClaim /\ OneCallAtATime
  BY DEF Exclusive
<1>2. CASE UNCHANGED vars
  <2>1. UNCHANGED <<status, outbox, stale, pc, task>>
    BY <1>2 DEF vars, row, dispatch, worker
  <2> QED BY <1>1, <2>1, AsBefore, OnwardKeeps DEF Settled, RowLeft
<1>3. CASE Outside
  BY <1>1, <1>3, OutsideExclusive
<1>4. CASE Next /\ ~ Outside
  BY <1>1, <1>4, StepCases, CreateExclusive, SweepExclusive, ClaimExclusive, WorkerExclusive
<1> QED BY <1>2, <1>3, <1>4

(* While the lock of a claim outlives the call made under it, at most one  *)
(* worker calls the AI service for a job, whatever sweeps, retries and     *)
(* crashes write to the job's row: the lock on the row is enough.          *)
THEOREM CallsAreExclusive == Spec => []OneCallAtATime
<1>1. Exclusive => OneCallAtATime
  BY DEF Exclusive, OneCallAtATime
<1> QED BY <1>1, InitDInv, DInvInductive, ExclusiveInductive, PTL DEF Spec

----------------------------------------------------------------------------
(* The service's jobs, as they matter here: which of them there are. *)
Outcomes    == {"absent", "running", "failed", "canceled"} \cup Results
ServiceRows == remote \in [Keys -> [Calls -> Outcomes]]

RemoteSet(k, i, o) == remote' = [remote EXCEPT ![k][i] = o]

LEMMA OneRemote ==
  ASSUME ServiceRows, NEW k \in Keys, NEW i \in Calls, NEW o \in Outcomes, RemoteSet(k, i, o)
  PROVE  /\ ServiceRows'
         /\ \A j \in Keys \ {k} : remote'[j] = remote[j]
         /\ \A h \in Calls : h # i => remote'[k][h] = remote[k][h]
         /\ remote'[k][i] = o
<1>1. remote' = [remote EXCEPT ![k] = [remote[k] EXCEPT ![i] = o]]
  BY DEF RemoteSet
<1>2. [remote[k] EXCEPT ![i] = o] \in [Calls -> Outcomes]
  BY DEF ServiceRows
<1> QED BY <1>1, <1>2 DEF ServiceRows

(* A job of the service that there is stays, and no other one comes, but   *)
(* by a call.                                                              *)
LEMMA OnlyCallsMake ==
  ASSUME ServiceRows, NEW k \in Keys, CancelExternal(k) \/ \E i \in Calls : RemoteEnds(k, i) \/ SubjectChanges(k, i)
  PROVE  /\ ServiceRows'
         /\ \A j \in Keys, h \in Calls : remote'[j][h] = "absent" <=> remote[j][h] = "absent"
<1>1. CASE UNCHANGED remote
  BY <1>1 DEF ServiceRows
<1>2. ASSUME NEW i \in Calls, NEW o \in Outcomes, o # "absent",
             remote[k][i] # "absent", RemoteSet(k, i, o)
      PROVE  /\ ServiceRows'
             /\ \A j \in Keys, h \in Calls : remote'[j][h] = "absent" <=> remote[j][h] = "absent"
  <2>1. /\ ServiceRows'
        /\ \A j \in Keys \ {k} : remote'[j] = remote[j]
        /\ \A h \in Calls : h # i => remote'[k][h] = remote[k][h]
        /\ remote'[k][i] = o
    BY <1>2, OneRemote
  <2>2. ASSUME NEW h \in Calls PROVE remote'[k][h] = "absent" <=> remote[k][h] = "absent"
    BY <1>2, <2>1
  <2> QED BY <2>1, <2>2
<1>3. ASSUME NEW i \in Calls, RemoteEnds(k, i) \/ SubjectChanges(k, i)
      PROVE  \E o \in Outcomes : o # "absent" /\ remote[k][i] # "absent" /\ RemoteSet(k, i, o)
  BY <1>3, RefusalAssumption DEF RemoteEnds, SubjectChanges, Outcomes, Results, RemoteSet
<1>4. ASSUME CancelExternal(k), remote' # remote, external[k] \in Calls
      PROVE  /\ remote[k][external[k]] = "running" /\ "canceled" \in Outcomes
             /\ RemoteSet(k, external[k], "canceled")
  BY <1>4 DEF CancelExternal, Outcomes, RemoteSet
<1>5. ASSUME CancelExternal(k), external[k] \notin Calls PROVE UNCHANGED remote
  <2>1. [remote EXCEPT ![k][external[k]] = "canceled"] = remote
    <3>1. [remote[k] EXCEPT ![external[k]] = "canceled"] = remote[k]
      BY <1>5 DEF ServiceRows
    <3> QED BY <3>1 DEF ServiceRows
  <2> QED BY <1>5, <2>1 DEF CancelExternal
<1> QED BY <1>1, <1>2, <1>3, <1>4, <1>5

LEMMA SubmitRemote ==
  ASSUME DInv, ServiceRows, NEW w \in Workers, Submit(w)
  PROVE  ServiceRows' /\ \A j \in Keys : j # task[w][1] => remote'[j] = remote[j]
<1>1. CASE UNCHANGED remote
  BY <1>1 DEF ServiceRows
<1>2. CASE remote' # remote
  <2> DEFINE k == task[w][1]
  <2>1. PICK i \in Answered(k) :
          remote' = [remote EXCEPT ![k][i] = IF @ = "absent" THEN "running" ELSE @]
    BY <1>2 DEF Submit
  <2>2. i \in Calls
    BY DEF Answered
  <2>3. k \in Keys
    BY TaskIsMessage DEF Submit, Idle
  <2>4. (IF remote[k][i] = "absent" THEN "running" ELSE remote[k][i]) \in Outcomes
    BY <2>2, <2>3 DEF ServiceRows, Outcomes
  <2> HIDE DEF k
  <2>5. PICK o \in Outcomes : RemoteSet(k, i, o)
    BY <2>1, <2>4 DEF RemoteSet
  <2>6. ServiceRows' /\ \A j \in Keys \ {k} : remote'[j] = remote[j]
    BY <2>2, <2>3, <2>5, OneRemote
  <2> QED BY <2>6 DEF k
<1> QED BY <1>1, <1>2

LEMMA OthersMakeNothing ==
  ASSUME Next, ~ \E w \in Workers : Submit(w),
         ~ \E k \in Keys : CancelExternal(k) \/ \E i \in Calls : RemoteEnds(k, i) \/ SubjectChanges(k, i)
  PROVE  UNCHANGED remote
BY DEF Next, WorkerStep, Fault, SweepStep, Create, Cancel, Claim, FindClaimed, Mark, Record, SubmitFailed,
   Crash, LoseMessage, SweepStart, SweepResend, SweepFail, SweepMark, SweepDies, BackoffEnds, LockExpires,
   ReportOutcome, ReportProgress

LEMMA ServiceRowsStay == DInv /\ ServiceRows /\ [Next]_vars => ServiceRows'
<1> SUFFICES ASSUME DInv, ServiceRows, [Next]_vars PROVE ServiceRows'
  OBVIOUS
<1>1. CASE UNCHANGED remote
  BY <1>1 DEF ServiceRows
<1>2. CASE Next /\ remote' # remote
  BY <1>2, OthersMakeNothing, OnlyCallsMake, SubmitRemote
<1> QED BY <1>1, <1>2 DEF vars

LEMMA InitServiceRows == Init => ServiceRows
BY DEF Init, ServiceRows, Outcomes

----------------------------------------------------------------------------
(* Nothing is sent for a settled job but by the worker that had claimed it *)
(* before: a claim of a settled job goes on to "skip", and a worker makes  *)
(* its call in the step in which it leaves "submit".                       *)
NotSent(k) ==
  /\ Sending(k)' \subseteq Sending(k)
  /\ Made(k)' # Made(k) => Sending(k)' # Sending(k)

LEMMA SettledStepNotSent ==
  ASSUME DInv, ServiceRows, [Next]_vars, NEW k \in Keys, status[k] \in Terminal
  PROVE  NotSent(k)
<1>1. ASSUME NEW w \in Workers, pc'[w] # "submit",
             \A v \in Workers : v # w => pc'[v] = pc[v] /\ task'[v] = task[v]
      PROVE  Sending(k)' \subseteq Sending(k) \ {w}
  BY <1>1 DEF Sending, Working
<1>2. CASE \E w \in Workers : Submit(w)
  <2>1. PICK w \in Workers : Submit(w)
    BY <1>2
  <2>2. pc[w] = "submit" /\ UNCHANGED task /\ task[w] \in Messages
    BY <2>1, TaskIsMessage DEF Submit, Idle
  <2>3. PICK step \in {"record", "retry", "give up"} : pc' = [pc EXCEPT ![w] = step]
    BY <2>1 DEF Submit, CallFails, Goto
  <2>4. pc'[w] # "submit" /\ \A v \in Workers : v # w => pc'[v] = pc[v] /\ task'[v] = task[v]
    BY <2>2, <2>3 DEF DInv, Shapes
  <2>5. Sending(k)' \subseteq Sending(k) \ {w}
    BY <1>1, <2>4
  <2>6. CASE task[w][1] = k
    <3>1. w \in Sending(k)
      BY <2>2, <2>6 DEF Sending, Working, Idle
    <3> QED BY <2>5, <3>1 DEF NotSent
  <2>7. CASE task[w][1] # k
    <3>1. remote'[k] = remote[k]
      BY <2>1, <2>7, SubmitRemote
    <3> QED BY <2>5, <3>1 DEF NotSent, Made
  <2> QED BY <2>6, <2>7
<1>3. CASE ~ \E w \in Workers : Submit(w)
  <2>1. Made(k)' = Made(k)
    <3>1. CASE UNCHANGED remote
      BY <3>1 DEF Made
    <3>2. CASE remote' # remote
      BY <1>3, <3>2, OthersMakeNothing, OnlyCallsMake DEF Made, vars
    <3> QED BY <3>1, <3>2
  <2>2. CASE UNCHANGED <<pc, task>>
    BY <2>1, <2>2 DEF NotSent, Sending, Working
  <2>3. ASSUME NEW w \in Workers, Mark(w) \/ SubmitFailed(w) \/ Crash(w) \/ Record(w) PROVE NotSent(k)
    <3>1. PICK step \in {Idle, "mark"} : pc' = [pc EXCEPT ![w] = step]
      BY <2>3 DEF Mark, SubmitFailed, Crash, Record, Finish, Goto
    <3>2. UNCHANGED task \/ task' = [task EXCEPT ![w] = NoTask]
      BY <2>3 DEF Mark, SubmitFailed, Crash, Record, Finish
    <3>3. pc'[w] # "submit" /\ \A v \in Workers : v # w => pc'[v] = pc[v] /\ task'[v] = task[v]
      BY <3>1, <3>2 DEF DInv, Shapes, Idle
    <3> QED BY <1>1, <2>1, <3>3 DEF NotSent
  <2>4. ASSUME NEW w \in Workers, NEW m \in Messages, Claim(w, m) PROVE NotSent(k)
    <3>1. /\ pc' = [pc EXCEPT ![w] = AfterClaim(m[1])] /\ task' = [task EXCEPT ![w] = m]
      BY <2>4 DEF Claim, Goto
    <3>2. /\ pc'[w] = AfterClaim(m[1]) /\ task'[w] = m
          /\ \A v \in Workers : v # w => pc'[v] = pc[v] /\ task'[v] = task[v]
      BY <3>1 DEF DInv, Shapes
    <3>3. m[1] = k => pc'[w] # "submit"
      BY <3>2, StatusesApart DEF AfterClaim
    <3>4. Sending(k)' \subseteq Sending(k)
      BY <3>2, <3>3 DEF Sending, Working
    <3> QED BY <2>1, <3>4 DEF NotSent
  <2>5. CASE Next /\ ~ UNCHANGED <<pc, task>>
    <3>1. ~ Outside
      BY <2>5, OutsideMoves
    <3>2. ASSUME \/ \E j \in Keys : Create(j) \/ SweepStep(j)
                 \/ SweepStart \/ SweepDies
          PROVE  UNCHANGED <<pc, task>>
      BY <3>2 DEF Create, SweepStep, SweepResend, SweepFail, SweepMark, SweepStart, SweepDies, worker
    <3> QED BY <1>3, <2>3, <2>4, <2>5, <3>1, <3>2, StepCases
  <2> QED BY <2>2, <2>5 DEF vars, worker
<1> QED BY <1>2, <1>3

(* Once a job is settled no left-over message, retry, redelivery or sweep  *)
(* makes the AI service work for it again: only a worker that had claimed  *)
(* it before may still call, once.                                         *)
THEOREM SettledJobsAreNotSent == Spec => SettledIsNotSent
<1>1. DInv /\ ServiceRows /\ [Next]_vars =>
        [\A k \in Keys : status[k] \in Terminal
           => /\ Sending(k)' \subseteq Sending(k)
              /\ Made(k)' # Made(k) => Sending(k)' # Sending(k)]_vars
  BY SettledStepNotSent DEF NotSent
<1> QED BY <1>1, InitDInv, DInvInductive, InitServiceRows, ServiceRowsStay, PTL DEF Spec, SettledIsNotSent

----------------------------------------------------------------------------
(* The dispatch implements AIJob: every step of it takes one of the job's  *)
(* services with its guard, or leaves the job rows and the ledger alone.   *)
LEMMA RowsStay == UNCHANGED <<accounts, row>> => UNCHANGED Job!jobVars
BY DEF accounts, row, Job!jobVars, Job!jobs, Job!credits, Job!outcome, Job!vars, Job!calendar,
   Job!projection, Job!ledger, Recorded

LEMMA JobStep ==
  ASSUME NEW k \in Keys,
         \/ Create(k) \/ Cancel(k) \/ ReportOutcome(k) \/ ReportProgress(k) \/ SweepFail(k)
  PROVE  Job!JobNext \/ UNCHANGED Job!jobVars
<1>1. CASE Create(k)
  BY <1>1 DEF Create, Job!JobNext
<1>2. CASE Cancel(k)
  BY <1>2 DEF Cancel, CancelJob, Job!JobNext
<1>3. CASE ReportProgress(k)
  BY <1>3 DEF ReportProgress, Job!JobNext
<1>4. CASE SweepFail(k)
  BY <1>4, RowsStay DEF SweepFail, Job!JobNext
<1>5. CASE ReportOutcome(k)
  <2>1. Recorded[k]
    BY <1>5 DEF ReportOutcome, Recorded
  <2>2. Job!CompleteJob(k) \/ Job!FailJob(k) \/ Job!CancelJob(k)
    BY <1>5 DEF ReportOutcome, CancelJob
  <2> QED BY <2>1, <2>2 DEF Job!JobNext, Job!RemoteResult
<1> QED BY <1>1, <1>2, <1>3, <1>4, <1>5

LEMMA RecordStep ==
  ASSUME DInv, NEW w \in Workers, Record(w) PROVE Job!JobNext \/ UNCHANGED Job!jobVars
<1>1. task[w][1] \in Keys
  BY TaskIsMessage DEF Record, Idle
<1> QED BY <1>1, RowsStay DEF Record, Job!JobNext

LEMMA DispatchStepIsJobStep == DInv /\ [Next]_vars => [Job!JobNext]_(Job!jobVars)
<1> SUFFICES ASSUME DInv, [Next]_vars PROVE Job!JobNext \/ UNCHANGED Job!jobVars
  OBVIOUS
<1>1. CASE UNCHANGED vars
  BY <1>1, RowsStay DEF vars
<1>2. CASE \E k \in Keys : \/ Create(k) \/ Cancel(k) \/ ReportOutcome(k) \/ ReportProgress(k)
                          \/ SweepFail(k)
  BY <1>2, JobStep
<1>3. CASE \E w \in Workers : Record(w)
  BY <1>3, RecordStep
<1>4. CASE \/ \E k \in Keys : \/ CancelExternal(k) \/ SweepResend(k) \/ SweepMark(k)
                             \/ BackoffEnds(k) \/ LockExpires(k) \/ \E i \in Calls : RemoteEnds(k, i) \/ SubjectChanges(k, i)
           \/ \E w \in Workers : \/ \E m \in Messages : Claim(w, m) \/ FindClaimed(w, m)
                                \/ Submit(w) \/ Mark(w) \/ SubmitFailed(w) \/ Crash(w)
           \/ SweepStart \/ LoseMessage \/ SweepDies
  <2>1. UNCHANGED <<accounts, row>>
    BY <1>4 DEF CancelExternal, SweepResend, SweepMark, BackoffEnds, LockExpires, RemoteEnds, SubjectChanges, Claim,
       FindClaimed, Submit, Mark, SubmitFailed, Crash, SweepStart, LoseMessage, SweepDies
  <2> QED BY <2>1, RowsStay
<1> QED BY <1>1, <1>2, <1>3, <1>4 DEF Next, WorkerStep, SweepStep, Fault

(* Workers, sweeps, webhooks and cancellations, as they overlap here with  *)
(* stale views of the job, use it only as AIJob says it may be used: what  *)
(* is proved of AIJob, down to the ledger and the promise to the student,  *)
(* holds of the dispatched jobs.                                           *)
THEOREM DispatchFollowsJobs == Spec => JobProtocol
<1>1. Init => Job!JobInit
  BY DEF Init
<1> QED BY <1>1, InitDInv, DInvInductive, DispatchStepIsJobStep, PTL DEF Spec, JobProtocol, Job!JobSpec

----------------------------------------------------------------------------
(* What is proved of the jobs in AIJobProofs, with the external ids that   *)
(* are recorded here: the instance there and the one here are the same     *)
(* specification, definition by definition.                                *)
JobProofs == INSTANCE AIJobProofs WITH external <- Recorded

LEMMA SameJobs == JobProofs!JobSpec <=> Job!JobSpec
<1>1. JobProofs!JobInit <=> Job!JobInit
  BY DEF JobProofs!JobInit, Job!JobInit, JobProofs!Init, Job!Init, JobProofs!Months, Job!Months,
     JobProofs!NotBooked, Job!NotBooked, JobProofs!EffectivePlan, Job!EffectivePlan
<1>2. [JobProofs!JobNext]_(JobProofs!jobVars) <=> [Job!JobNext]_(Job!jobVars)
  <2>1. ASSUME NEW k \in Keys PROVE JobProofs!CreateAIJob(k) <=> Job!CreateAIJob(k)
    BY DEF JobProofs!CreateAIJob, Job!CreateAIJob, JobProofs!Free, Job!Free,
       JobProofs!InitialStatus, Job!InitialStatus, JobProofs!outcome, Job!outcome,
       JobProofs!Reserve, Job!Reserve, JobProofs!vars, Job!vars, JobProofs!calendar, Job!calendar,
       JobProofs!projection, Job!projection, JobProofs!ledger, Job!ledger,
       JobProofs!HasCapacity, Job!HasCapacity, JobProofs!Below, Job!Below,
       JobProofs!EffectivePlan, Job!EffectivePlan, JobProofs!Decrement, Job!Decrement,
       JobProofs!SetCounters, Job!SetCounters, JobProofs!NotBooked, Job!NotBooked
  <2>2. ASSUME NEW k \in Keys PROVE JobProofs!Submit(k) <=> Job!Submit(k)
    BY DEF JobProofs!Submit, Job!Submit, JobProofs!UpdateJobProgress, Job!UpdateJobProgress,
       JobProofs!Active, Job!Active, JobProofs!Successors, Job!Successors,
       JobProofs!credits, Job!credits, JobProofs!outcome, Job!outcome, JobProofs!vars, Job!vars,
       JobProofs!calendar, Job!calendar, JobProofs!projection, Job!projection,
       JobProofs!ledger, Job!ledger
  <2>3. ASSUME NEW k \in Keys PROVE JobProofs!RemoteProgress(k) <=> Job!RemoteProgress(k)
    BY DEF JobProofs!RemoteProgress, Job!RemoteProgress,
       JobProofs!UpdateJobProgress, Job!UpdateJobProgress, JobProofs!Active, Job!Active,
       JobProofs!Successors, Job!Successors, JobProofs!credits, Job!credits,
       JobProofs!outcome, Job!outcome, JobProofs!vars, Job!vars, JobProofs!calendar, Job!calendar,
       JobProofs!projection, Job!projection, JobProofs!ledger, Job!ledger
  <2>4. ASSUME NEW k \in Keys PROVE JobProofs!RemoteResult(k) <=> Job!RemoteResult(k)
    BY DEF JobProofs!RemoteResult, Job!RemoteResult, JobProofs!CompleteJob, Job!CompleteJob,
       JobProofs!Open, Job!Open, JobProofs!Active, Job!Active,
       JobProofs!Materialize, Job!Materialize, JobProofs!CommitCredit, Job!CommitCredit,
       JobProofs!HoldsCredit, Job!HoldsCredit, JobProofs!Commit, Job!Commit,
       JobProofs!vars, Job!vars, JobProofs!calendar, Job!calendar,
       JobProofs!projection, Job!projection, JobProofs!ledger, Job!ledger,
       JobProofs!HasCapacity, Job!HasCapacity, JobProofs!Below, Job!Below,
       JobProofs!EffectivePlan, Job!EffectivePlan, JobProofs!Decrement, Job!Decrement,
       JobProofs!SetCounters, Job!SetCounters, JobProofs!NotBooked, Job!NotBooked
  <2>5. ASSUME NEW k \in Keys PROVE JobProofs!FailJob(k) <=> Job!FailJob(k)
    BY DEF JobProofs!FailJob, Job!FailJob, JobProofs!Open, Job!Open, JobProofs!Active, Job!Active,
       JobProofs!outcome, Job!outcome, JobProofs!ReturnCredit, Job!ReturnCredit,
       JobProofs!HoldsCredit, Job!HoldsCredit, JobProofs!Refund, Job!Refund,
       JobProofs!vars, Job!vars, JobProofs!calendar, Job!calendar,
       JobProofs!projection, Job!projection, JobProofs!ledger, Job!ledger,
       JobProofs!HasCapacity, Job!HasCapacity, JobProofs!Below, Job!Below,
       JobProofs!EffectivePlan, Job!EffectivePlan, JobProofs!Decrement, Job!Decrement,
       JobProofs!SetCounters, Job!SetCounters, JobProofs!NotBooked, Job!NotBooked
  <2>6. ASSUME NEW k \in Keys PROVE JobProofs!CancelJob(k) <=> Job!CancelJob(k)
    BY DEF JobProofs!CancelJob, Job!CancelJob, JobProofs!Open, Job!Open,
       JobProofs!Active, Job!Active, JobProofs!outcome, Job!outcome,
       JobProofs!ReturnCredit, Job!ReturnCredit, JobProofs!HoldsCredit, Job!HoldsCredit,
       JobProofs!Refund, Job!Refund, JobProofs!vars, Job!vars, JobProofs!calendar, Job!calendar,
       JobProofs!projection, Job!projection, JobProofs!ledger, Job!ledger,
       JobProofs!HasCapacity, Job!HasCapacity, JobProofs!Below, Job!Below,
       JobProofs!EffectivePlan, Job!EffectivePlan, JobProofs!Decrement, Job!Decrement,
       JobProofs!SetCounters, Job!SetCounters, JobProofs!NotBooked, Job!NotBooked
  <2>7. JobProofs!LedgerOnly <=> Job!LedgerOnly
    BY DEF JobProofs!LedgerOnly, Job!LedgerOnly, JobProofs!Months, Job!Months,
       JobProofs!Rebuild, Job!Rebuild, JobProofs!ChangePlan, Job!ChangePlan,
       JobProofs!LoseEntitlement, Job!LoseEntitlement, JobProofs!NextMonth, Job!NextMonth,
       JobProofs!jobs, Job!jobs, JobProofs!credits, Job!credits, JobProofs!outcome, Job!outcome,
       JobProofs!Replay, Job!Replay, JobProofs!KeysOf, Job!KeysOf,
       JobProofs!Cardinality, Job!Cardinality, JobProofs!vars, Job!vars,
       JobProofs!calendar, Job!calendar, JobProofs!projection, Job!projection,
       JobProofs!ledger, Job!ledger, JobProofs!HasCapacity, Job!HasCapacity,
       JobProofs!Below, Job!Below, JobProofs!EffectivePlan, Job!EffectivePlan,
       JobProofs!Decrement, Job!Decrement, JobProofs!SetCounters, Job!SetCounters,
       JobProofs!NotBooked, Job!NotBooked
  <2>8. JobProofs!jobVars = Job!jobVars /\ JobProofs!jobVars' = Job!jobVars'
    BY DEF JobProofs!jobVars, Job!jobVars, JobProofs!jobs, Job!jobs, JobProofs!credits, Job!credits,
       JobProofs!outcome, Job!outcome, JobProofs!vars, Job!vars, JobProofs!calendar, Job!calendar,
       JobProofs!projection, Job!projection, JobProofs!ledger, Job!ledger
  <2> QED BY <2>1, <2>2, <2>3, <2>4, <2>5, <2>6, <2>7, <2>8 DEF JobProofs!JobNext, Job!JobNext
<1> QED BY <1>1, <1>2, PTL DEF JobProofs!JobSpec, Job!JobSpec

(* The credit, the outcome and the month of the dispatched jobs. *)
PaidAsTold ==
  /\ Job!CreditFollowsStatus /\ Job!OutcomeIsTold
  /\ Job!CounterCountsJobs /\ Job!WithinPlanUnlessLate

(* With the crashes, retries, late answers and stale sweeps of the         *)
(* dispatch: a job is charged, refunded, materialized and told of as its   *)
(* status says, and the month's counter counts the jobs and stays within   *)
(* the plan.                                                               *)
THEOREM DispatchedJobsArePaid == Spec => []PaidAsTold
<1>1. JobProofs!JobSpec => []JobProofs!CreditFollowsStatus
  BY JobProofs!CreditsFollowStatus, JobsAssumption, Zenon
     DEF JobProofs!IsFiniteSet, JobProofs!Limit, IsFiniteSet
<1>2. JobProofs!JobSpec => []JobProofs!OutcomeIsTold
  BY JobProofs!OutcomesTold, JobsAssumption, Zenon
     DEF JobProofs!IsFiniteSet, JobProofs!Limit, IsFiniteSet
<1>3. JobProofs!JobSpec => []JobProofs!CounterCountsJobs
  BY JobProofs!StudentPaysForJobs, JobsAssumption, Zenon
     DEF JobProofs!IsFiniteSet, JobProofs!Limit, IsFiniteSet
<1>4. JobProofs!JobSpec => [](JobProofs!WithinPlanUnlessLate /\ JobProofs!ProjectionIsReplayUnlessLate)
  BY JobProofs!JobsStayWithinPlan, JobsAssumption, Zenon
     DEF JobProofs!IsFiniteSet, JobProofs!Limit, IsFiniteSet
<1>5. JobProofs!CreditFollowsStatus <=> Job!CreditFollowsStatus
  BY DEF JobProofs!CreditFollowsStatus, Job!CreditFollowsStatus,
     JobProofs!HoldsCredit, Job!HoldsCredit, JobProofs!Active, Job!Active
<1>6. JobProofs!OutcomeIsTold <=> Job!OutcomeIsTold
  BY DEF JobProofs!OutcomeIsTold, Job!OutcomeIsTold
<1>7. JobProofs!CounterCountsJobs <=> Job!CounterCountsJobs
  BY DEF JobProofs!CounterCountsJobs, Job!CounterCountsJobs,
     JobProofs!LateRefundIn, Job!LateRefundIn, JobProofs!Months, Job!Months,
     JobProofs!Active, Job!Active, JobProofs!Cardinality, Job!Cardinality
<1>8. JobProofs!WithinPlanUnlessLate <=> Job!WithinPlanUnlessLate
  BY DEF JobProofs!WithinPlanUnlessLate, Job!WithinPlanUnlessLate,
     JobProofs!LateRefundIn, Job!LateRefundIn, JobProofs!Months, Job!Months,
     JobProofs!Within, Job!Within, JobProofs!Charged, Job!Charged, JobProofs!KeysOf, Job!KeysOf,
     JobProofs!Cardinality, Job!Cardinality
<1> QED BY <1>1, <1>2, <1>3, <1>4, <1>5, <1>6, <1>7, <1>8, SameJobs, DispatchFollowsJobs, PTL
        DEF JobProtocol, PaidAsTold

(* A settled job stays as it is, whoever still works on it. *)
THEOREM SettledJobsStay == Spec => Job!TerminalIsFinal
<1>1. JobProofs!JobSpec => JobProofs!TerminalIsFinal
  BY JobProofs!TerminalStays, JobsAssumption, Zenon
     DEF JobProofs!IsFiniteSet, JobProofs!Limit, IsFiniteSet
<1>2. [\A k \in Keys : status[k] \in JobProofs!Terminal =>
         /\ UNCHANGED <<status[k], materialized[k], notices[k]>>
         /\ UNCHANGED <<reserved[k], committed[k], refunded[k]>>]_(JobProofs!jobVars)
      <=> [\A k \in Keys : status[k] \in Job!Terminal =>
         /\ UNCHANGED <<status[k], materialized[k], notices[k]>>
         /\ UNCHANGED <<reserved[k], committed[k], refunded[k]>>]_(Job!jobVars)
  BY DEF JobProofs!Terminal, Job!Terminal, JobProofs!jobVars, Job!jobVars, JobProofs!jobs, Job!jobs,
     JobProofs!credits, Job!credits, JobProofs!outcome, Job!outcome, JobProofs!vars, Job!vars,
     JobProofs!calendar, Job!calendar, JobProofs!projection, Job!projection,
     JobProofs!ledger, Job!ledger
<1> QED BY <1>1, <1>2, SameJobs, DispatchFollowsJobs, PTL
        DEF JobProtocol, JobProofs!TerminalIsFinal, Job!TerminalIsFinal

----------------------------------------------------------------------------
(* Types *)

DispatchTypes ==
  /\ external \in [Keys -> Calls \cup {NoCall}]
  /\ attempts \in [Keys -> 0 .. MaxAttempts]
  /\ due \in [Keys -> BOOLEAN] /\ cancels \subseteq Keys
  /\ task \in [Workers -> Messages \cup {NoTask}]
  /\ answer \in [Workers -> Calls \cup {NoCall}]
  /\ faults \in 0 .. MaxFaults

LEMMA InitDispatchTypes == Init => DispatchTypes
<1> SUFFICES ASSUME Init PROVE DispatchTypes
  OBVIOUS
<1>1. 0 \in 0 .. MaxAttempts /\ 0 \in 0 .. MaxFaults
  BY RetryAssumption, BoundAssumption
<1> QED BY <1>1 DEF Init, DispatchTypes

(* Who writes what; everything else is left as it is. *)
LEMMA WhoWrites ==
  ASSUME Next
  PROVE  /\ external' = external \/ \E w \in Workers : Record(w)
         /\ attempts' = attempts \/ \E w \in Workers, m \in Messages : Claim(w, m)
         /\ \/ due' = due
            \/ \E k \in Keys : due' = [due EXCEPT ![k] = TRUE]
            \/ \E w \in Workers : SubmitFailed(w)
         /\ cancels' \subseteq cancels \cup Keys
         /\ \/ UNCHANGED <<task, answer>>
            \/ \E w \in Workers : Finish(w) \/ Submit(w) \/ \E m \in Messages : Claim(w, m)
         /\ faults' = faults \/ (faults < MaxFaults /\ faults' = faults + 1)
<1> USE DEF row, dispatch, worker
<1>1. ASSUME NEW k \in Keys, \/ Create(k) \/ Cancel(k) \/ CancelExternal(k) \/ SweepStep(k)
                             \/ BackoffEnds(k) \/ LockExpires(k) \/ ReportOutcome(k)
                             \/ ReportProgress(k) \/ \E i \in Calls : RemoteEnds(k, i) \/ SubjectChanges(k, i)
      PROVE  /\ UNCHANGED <<external, attempts, task, answer>>
             /\ due' = due \/ due' = [due EXCEPT ![k] = TRUE]
             /\ cancels' \subseteq cancels \cup Keys
             /\ faults' = faults \/ (faults < MaxFaults /\ faults' = faults + 1)
  <2>1. CASE Create(k)
    BY <2>1 DEF Create
  <2>2. CASE Cancel(k)
    BY <2>2 DEF Cancel, CancelJob
  <2>3. CASE ReportOutcome(k)
    <3>1. UNCHANGED <<attempts, due, external, task, answer, faults>>
      BY <2>3 DEF ReportOutcome, CancelJob
    <3>2. cancels' = cancels \/ cancels' = IF external[k] # NoCall THEN cancels \cup {k} ELSE cancels
      BY <2>3 DEF ReportOutcome, CancelJob
    <3> QED BY <3>1, <3>2
  <2>4. CASE CancelExternal(k) \/ BackoffEnds(k) \/ LockExpires(k) \/ ReportProgress(k)
             \/ \E i \in Calls : RemoteEnds(k, i) \/ SubjectChanges(k, i)
    BY <2>4 DEF CancelExternal, BackoffEnds, LockExpires, ReportProgress, RemoteEnds, SubjectChanges
  <2>5. CASE SweepStep(k)
    BY <2>5 DEF SweepStep, SweepResend, SweepFail, SweepMark
  <2> QED BY <1>1, <2>1, <2>2, <2>3, <2>4, <2>5
<1>2. CASE \E w \in Workers : WorkerStep(w)
  <2>1. PICK w \in Workers : WorkerStep(w)
    BY <1>2
  <2>2. CASE Record(w)
    <3>1. UNCHANGED <<attempts, due, cancels, task, answer, faults>>
      BY <2>2 DEF Record
    <3> QED BY <2>2, <3>1
  <2>3. CASE SubmitFailed(w)
    <3>1. Finish(w) /\ UNCHANGED <<external, attempts, cancels, faults>>
      BY <2>3 DEF SubmitFailed
    <3> QED BY <2>3, <3>1
  <2>4. CASE Submit(w) \/ Mark(w)
    <3>1. Submit(w) \/ Finish(w)
      BY <2>4 DEF Mark
    <3>2. UNCHANGED <<external, attempts, due, cancels, faults>>
      BY <2>4 DEF Submit, Mark
    <3> QED BY <3>1, <3>2
  <2>5. ASSUME NEW m \in Messages, Claim(w, m) \/ FindClaimed(w, m)
        PROVE  /\ UNCHANGED <<external, due, cancels, faults>>
               /\ UNCHANGED <<attempts, task, answer>> \/ Claim(w, m)
    BY <2>5 DEF Claim, FindClaimed
  <2> QED BY <2>1, <2>2, <2>3, <2>4, <2>5 DEF WorkerStep
<1>3. CASE SweepStart \/ Fault
  BY <1>3 DEF SweepStart, Fault, LoseMessage, SweepDies, Crash
<1> QED BY <1>1, <1>2, <1>3 DEF Next

LEMMA DispatchTypesStay == DInv /\ DispatchTypes /\ [Next]_vars => DispatchTypes'
<1> SUFFICES ASSUME DInv, DispatchTypes, Next PROVE DispatchTypes'
  BY DEF DispatchTypes, vars, row, dispatch, worker
<1>1. external' \in [Keys -> Calls \cup {NoCall}]
  <2>1. ASSUME NEW w \in Workers, Record(w) PROVE external' \in [Keys -> Calls \cup {NoCall}]
    <3>1. external' = external \/ external' = [external EXCEPT ![task[w][1]] = answer[w]]
      BY <2>1 DEF Record, row
    <3> QED BY <3>1 DEF DispatchTypes
  <2> QED BY <2>1, WhoWrites DEF DispatchTypes
<1>2. attempts' \in [Keys -> 0 .. MaxAttempts]
  <2>1. ASSUME NEW w \in Workers, NEW m \in Messages, Claim(w, m) PROVE attempts' \in [Keys -> 0 .. MaxAttempts]
    <3>1. PICK k \in Keys : k = m[1]
      BY DEF Messages
    <3>2. attempts' = [attempts EXCEPT ![k] = IF attempts[k] < MaxAttempts THEN attempts[k] + 1 ELSE attempts[k]]
      BY <2>1, <3>1 DEF Claim
    <3>3. attempts[k] \in 0 .. MaxAttempts
      BY DEF DispatchTypes
    <3>4. (IF attempts[k] < MaxAttempts THEN attempts[k] + 1 ELSE attempts[k]) \in 0 .. MaxAttempts
      BY <3>3, RetryAssumption
    <3> QED BY <3>2, <3>4 DEF DispatchTypes
  <2> QED BY <2>1, WhoWrites DEF DispatchTypes
<1>3. due' \in [Keys -> BOOLEAN]
  <2>1. ASSUME NEW w \in Workers, SubmitFailed(w) PROVE due' \in [Keys -> BOOLEAN]
    BY <2>1 DEF SubmitFailed, DispatchTypes
  <2>2. ASSUME NEW k \in Keys, due' = [due EXCEPT ![k] = TRUE] PROVE due' \in [Keys -> BOOLEAN]
    BY <2>2 DEF DispatchTypes
  <2> QED BY <2>1, <2>2, WhoWrites DEF DispatchTypes
<1>4. cancels' \subseteq Keys
  BY WhoWrites DEF DispatchTypes
<1>5. task' \in [Workers -> Messages \cup {NoTask}] /\ answer' \in [Workers -> Calls \cup {NoCall}]
  <2>1. ASSUME NEW w \in Workers, Finish(w)
        PROVE  task' \in [Workers -> Messages \cup {NoTask}] /\ answer' \in [Workers -> Calls \cup {NoCall}]
    BY <2>1 DEF Finish, DispatchTypes
  <2>2. ASSUME NEW w \in Workers, Submit(w)
        PROVE  task' = task /\ answer' \in [Workers -> Calls \cup {NoCall}]
    <3>1. answer' = answer \/ \E i \in Calls : answer' = [answer EXCEPT ![w] = i]
      BY <2>2 DEF Submit, CallFails, Answered
    <3> QED BY <2>2, <3>1 DEF Submit, DispatchTypes
  <2>3. ASSUME NEW w \in Workers, NEW m \in Messages, Claim(w, m)
        PROVE  answer' = answer /\ task' \in [Workers -> Messages \cup {NoTask}]
    BY <2>3 DEF Claim, DispatchTypes
  <2> QED BY <2>1, <2>2, <2>3, WhoWrites DEF DispatchTypes
<1>6. faults' \in 0 .. MaxFaults
  BY WhoWrites, BoundAssumption DEF DispatchTypes
<1> QED BY <1>1, <1>2, <1>3, <1>4, <1>5, <1>6 DEF DispatchTypes

(* Types of the jobs, of the outbox, of the messages and of what workers,  *)
(* sweep and service hold, and of the ledger behind the jobs.              *)
THEOREM DispatchTypeCorrect == Spec => []TypeOK
<1>1. JobProofs!JobSpec => []JobProofs!JobTypeOK
  BY JobProofs!JobTypeCorrect, JobsAssumption, Zenon
     DEF JobProofs!IsFiniteSet, JobProofs!Limit, IsFiniteSet
<1>2. JobProofs!JobTypeOK <=> Job!JobTypeOK
  BY DEF JobProofs!JobTypeOK, Job!JobTypeOK, JobProofs!TypeOK, Job!TypeOK,
     JobProofs!Active, Job!Active, JobProofs!Terminal, Job!Terminal, JobProofs!Months, Job!Months,
     JobProofs!NotBooked, Job!NotBooked, JobProofs!Booking, Job!Booking
<1>3. DInv /\ ServiceRows /\ DispatchTypes /\ Job!JobTypeOK => TypeOK
  BY DEF DInv, Shapes, ServiceRows, DispatchTypes, Outcomes, Steps, TypeOK
<1> QED BY <1>1, <1>2, <1>3, SameJobs, DispatchFollowsJobs, InitDInv, DInvInductive, InitServiceRows, ServiceRowsStay,
           InitDispatchTypes, DispatchTypesStay, PTL DEF Spec, JobProtocol

=============================================================================
