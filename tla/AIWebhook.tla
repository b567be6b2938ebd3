----------------------------- MODULE AIWebhook -----------------------------
(***************************************************************************)
(* How the service's signed reports about one job are taken exactly once   *)
(* (AIWebhookView.post in apps/ai_integration/views.py).                   *)
(*                                                                         *)
(* The service numbers its events and delivers each of them until it is    *)
(* answered with success, so deliveries are repeated, overtake each other  *)
(* and run concurrently, and a handler may die between its transactions:   *)
(* the event row, the job's service call and the processed mark are apart. *)
(* The job is changed behind the webhook's back by the dispatcher, by      *)
(* refreshes, by the student and by the sweep.  A result that cannot be    *)
(* materialized is refused at every delivery: what it says does not        *)
(* change.  The subject (or recording) it is materialized with may.        *)
(***************************************************************************)
EXTENDS Integers, FiniteSets

CONSTANTS
  Events,      \* event ids the service uses for this job
  Handlers,    \* web workers that take its deliveries
  MaxFaults    \* bound: handlers that die

ASSUME WebhookAssumption == Events # {} /\ Handlers # {} /\ MaxFaults \in Nat

VARIABLES
  job,       \* AIJob.status
  known,     \* AIJob.external_job_id is the id the reports carry
  material,  \* the job has the subject or source its result is made with
  event,     \* AIWebhookEvent rows: the payload first delivered, and processed
  handler,   \* the delivery each handler is at, and its next step
  applied,   \* history: how often a payload of an event has changed the job
  faults

vars == <<job, known, material, event, handler, applied, faults>>

Progress  == {"submitted", "processing", "validating"}
Outcomes  == {"completed", "failed", "canceled"}
Active    == {"queued"} \cup Progress

(* What an event says: "unusable" is the completion with a result that is *)
(* not materialized whatever the job.                                     *)
Reports   == Progress \cup Outcomes \cup {"unusable", "unrecognized"}
NoEvent   == [payload |-> "none", processed |-> FALSE]
Idle      == [step |-> "idle"]

TypeOK ==
  /\ job \in Active \cup Outcomes
  /\ known \in BOOLEAN /\ material \in BOOLEAN
  /\ event \in [Events -> [payload: Reports, processed: BOOLEAN] \cup {NoEvent}]
  /\ handler \in [Handlers -> {Idle} \cup
       [step: {"find", "apply", "mark"}, event: Events, payload: Reports]]
  /\ applied \in [Events -> [Reports -> 0 .. 2]]
  /\ faults \in 0 .. MaxFaults

Init ==
  /\ job = "queued" /\ known = FALSE /\ material \in BOOLEAN
  /\ event = [e \in Events |-> NoEvent]
  /\ handler = [h \in Handlers |-> Idle]
  /\ applied = [e \in Events |-> [p \in Reports |-> 0]]
  /\ faults = 0

Processed(e)  == [payload |-> e.payload, processed |-> TRUE]
Goto(h, step) == handler' = [handler EXCEPT ![h].step = step]
Answer(h)     == handler' = [handler EXCEPT ![h] = Idle]
Take(h, e, p) == handler' = [handler EXCEPT ![h] = [step |-> "find", event |-> e, payload |-> p]]

----------------------------------------------------------------------------
(* The handler *)

(* Mutant: what an event says is not compared with what it said before. *)
ReceiveAnyPayload(h, e, p) ==
  /\ handler[h] = Idle
  /\ ~event[e].processed
  /\ event' = [event EXCEPT ![e] = IF @ = NoEvent THEN [payload |-> p, processed |-> FALSE] ELSE @]
  /\ Take(h, e, p)
  /\ UNCHANGED <<job, known, material, applied, faults>>

(* Mutant: an event that has a row is answered as a duplicate. *)
ReceiveNew(h, e, p) ==
  /\ handler[h] = Idle
  /\ event[e] = NoEvent
  /\ event' = [event EXCEPT ![e] = [payload |-> p, processed |-> FALSE]]
  /\ Take(h, e, p)
  /\ UNCHANGED <<job, known, material, applied, faults>>

(* get_or_create of the event.  Another payload than the first is a       *)
(* conflict and a processed event a duplicate: both are answered at once. *)
Receive(h, e, p) ==
  /\ handler[h] = Idle
  /\ \/ /\ event[e] = NoEvent
        /\ event' = [event EXCEPT ![e] = [payload |-> p, processed |-> FALSE]]
     \/ /\ event[e].payload = p /\ ~event[e].processed
        /\ UNCHANGED event
  /\ Take(h, e, p)
  /\ UNCHANGED <<job, known, material, applied, faults>>

(* "Unknown job", "Unrecognized status", or go on. *)
Find(h) ==
  /\ handler[h].step = "find"
  /\ IF known /\ handler[h].payload # "unrecognized" THEN Goto(h, "apply") ELSE Answer(h)
  /\ UNCHANGED <<job, known, material, event, applied, faults>>

(* Mutant: a job may be reported in any order. *)
AnyOrder(s) == Progress

(* JOB_PROGRESS_TRANSITIONS *)
Successors(s) ==
  CASE s = "queued"     -> {"submitted", "processing"}
    [] s = "submitted"  -> {"processing", "validating"}
    [] s = "processing" -> {"validating"}
    [] OTHER            -> {}

(* complete_job, fail_job, cancel_job and update_job_progress each decide *)
(* under the job's lock whether the report still means something.         *)
Applies(p) ==
  \/ p \in Outcomes /\ job \in Active
  \/ p \in Progress /\ job \in Active /\ p \in Successors(job)

(* What materialize_job raises a ValidationError for, on a job that is    *)
(* still active: any other one is answered without looking at the result. *)
Refused(p) ==
  /\ job \in Active
  /\ p = "unusable" \/ (p = "completed" /\ ~material)

Apply(h) ==
  LET e == handler[h].event
      p == handler[h].payload
  IN
  /\ handler[h].step = "apply" /\ ~Refused(p)
  /\ IF Applies(p)
       THEN /\ job' = p
            /\ applied' = [applied EXCEPT ![e][p] = IF @ < 2 THEN @ + 1 ELSE @]
       ELSE UNCHANGED <<job, applied>>
  /\ Goto(h, "mark")
  /\ UNCHANGED <<known, material, event, faults>>

(* Mutant: an event that could not be applied is marked. *)
MarkFailed(h) ==
  /\ handler[h].step = "apply" /\ Refused(handler[h].payload)
  /\ event' = [event EXCEPT ![handler[h].event] = Processed(@)]
  /\ Answer(h)
  /\ UNCHANGED <<job, known, material, applied, faults>>

(* The result does not materialize: the job is rolled back, the error is  *)
(* saved with the event, and the service is answered with a failure.      *)
ApplyFails(h) ==
  /\ handler[h].step = "apply" /\ Refused(handler[h].payload)
  /\ Answer(h)
  /\ UNCHANGED <<job, known, material, event, applied, faults>>

Mark(h) ==
  /\ handler[h].step = "mark"
  /\ event' = [event EXCEPT ![handler[h].event] = Processed(@)]
  /\ Answer(h)
  /\ UNCHANGED <<job, known, material, applied, faults>>

(* The worker dies, or the database fails it. *)
Dies(h) ==
  /\ faults < MaxFaults
  /\ handler[h] # Idle
  /\ Answer(h)
  /\ faults' = faults + 1
  /\ UNCHANGED <<job, known, material, event, applied>>

----------------------------------------------------------------------------
(* The dispatcher records the service's id, with the status.              *)
RecordExternalId ==
  /\ ~known /\ job = "queued"
  /\ known' = TRUE /\ job' = "submitted"
  /\ UNCHANGED <<material, event, handler, applied, faults>>

(* A refresh tells of progress or an outcome, the student cancels, the    *)
(* sweep gives up.                                                        *)
ChangeElsewhere ==
  /\ job \in Active
  /\ \/ job' \in {"canceled", "failed"}
     \/ known /\ job' \in Successors(job)
     \/ known /\ material /\ job' = "completed"
  /\ UNCHANGED <<known, material, event, handler, applied, faults>>

(* The subject of the job is deleted, or its source is given one.         *)
MaterialChanges ==
  /\ material' = ~material
  /\ UNCHANGED <<job, known, event, handler, applied, faults>>

HandlerStep(h) == Find(h) \/ Apply(h) \/ ApplyFails(h) \/ Mark(h)

Next ==
  \/ \E h \in Handlers :
       \/ HandlerStep(h) \/ Dies(h)
       \/ \E e \in Events, p \in Reports : Receive(h, e, p)
  \/ RecordExternalId \/ ChangeElsewhere \/ MaterialChanges

Spec == Init /\ [][Next]_vars

(* The service delivers an event again until it is answered with success. *)
Redeliver(e) ==
  event[e] # NoEvent /\ ~event[e].processed /\ \E h \in Handlers : Receive(h, e, event[e].payload)

Fairness ==
  /\ \A h \in Handlers : WF_vars(HandlerStep(h))
  /\ \A e \in Events : SF_vars(Redeliver(e))

FairSpec == Spec /\ Fairness

----------------------------------------------------------------------------
(* Properties *)

Rank(s) ==
  CASE s = "queued" -> 0 [] s = "submitted" -> 1 [] s = "processing" -> 2
    [] s = "validating" -> 3 [] OTHER -> 4

(* An event marked processed, which no delivery is looked at for again,   *)
(* has reached the job or came too late: the job is as far as it says.    *)
ProcessedHasReachedJob ==
  \A e \in Events : event[e].processed => Rank(job) >= Rank(event[e].payload)

(* However often an event is delivered, and by however many handlers, each *)
(* report it brings changes the job at most once ("Webhook idempotent by   *)
(* event_id", docs/AI_SERVICE_INTEGRATION.md:64), and only the payload     *)
(* that was first seen does ("event_id was reused with a different         *)
(* payload").                                                              *)
ChangesOnce ==
  \A e \in Events, p \in Reports :
    applied[e][p] > 0 => applied[e][p] = 1 /\ event[e].payload = p

(* An event of a known job is processed in the end, whatever befell its   *)
(* first deliveries, unless it completes the job with a result that the    *)
(* job refuses.  Even that one is processed once the job is settled in     *)
(* another way.                                                            *)
EventIsProcessed ==
  \A e \in Events :
    (known /\ event[e].payload \in Reports \ {"unrecognized"})
      ~> (event[e].processed \/ Refused(event[e].payload))

=============================================================================
