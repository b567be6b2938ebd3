--------------------------- MODULE AIWebhookProofs ---------------------------
(***************************************************************************)
(* Proofs about AIWebhook for any number of events, handlers and faults.   *)
(***************************************************************************)
EXTENDS AIWebhook, TLAPS

At(h, steps) == handler[h].step \in steps

Recognized == Progress \cup Outcomes \cup {"unusable"}

(* A delivery under way has the payload of its event's row. *)
TookFirstPayload ==
  \A h \in Handlers : At(h, {"find", "apply", "mark"}) =>
    event[handler[h].event].payload = handler[h].payload

(* Only a report that is recognised, for a job that was submitted, is      *)
(* carried to the job.                                                     *)
AppliesToKnownJob ==
  /\ known => job # "queued"
  /\ \A h \in Handlers : At(h, {"apply", "mark"}) =>
       known /\ handler[h].payload \in Recognized

(* The job is as far as every report that changed it, or that was looked   *)
(* at and left it alone.                                                   *)
AppliedHasReachedJob ==
  /\ \A h \in Handlers : At(h, {"mark"}) => Rank(job) >= Rank(handler[h].payload)
  /\ \A e \in Events, p \in Reports :
       applied[e][p] > 0 => p \in Recognized /\ Rank(job) >= Rank(p)

AtMostOnce       == \A e \in Events, p \in Reports : applied[e][p] <= 1
FirstPayloadWins == \A e \in Events, p \in Reports : applied[e][p] > 0 => event[e].payload = p

IInv ==
  /\ TypeOK /\ TookFirstPayload /\ AppliesToKnownJob /\ AppliedHasReachedJob
  /\ ProcessedHasReachedJob /\ AtMostOnce /\ FirstPayloadWins

USE DEF Progress, Outcomes, Active, Reports, Recognized, Idle, NoEvent

----------------------------------------------------------------------------
(* What a step does, when IInv holds *)

(* A delivery under way is of an event that has a row. *)
LEMMA DeliveryFacts ==
  ASSUME TypeOK, TookFirstPayload, NEW h \in Handlers, At(h, {"find", "apply", "mark"})
  PROVE  /\ handler[h] \in [step: {"find", "apply", "mark"}, event: Events, payload: Reports]
         /\ event[handler[h].event] \in [payload: Reports, processed: BOOLEAN]
<1>1. handler[h] \in [step: {"find", "apply", "mark"}, event: Events, payload: Reports]
  BY DEF TypeOK, At
<1>2. event[handler[h].event].payload \in Reports
  BY <1>1 DEF TookFirstPayload
<1> QED BY <1>1, <1>2 DEF TypeOK

LEMMA RankType == \A s \in Active \cup Outcomes \cup {"unusable"} : Rank(s) \in 0 .. 4
  BY DEF Rank

(* A successor of a status, and any outcome of an active job, is farther;  *)
(* a recognised report that does not apply to a job that was submitted is  *)
(* not.                                                                    *)
LEMMA RankOrder ==
  ASSUME NEW s \in Active
  PROVE  /\ \A t \in Successors(s) : t \in Progress /\ Rank(t) > Rank(s)
         /\ \A t \in Outcomes : Rank(t) > Rank(s)
         /\ \A t \in Progress \ Successors(s) : s # "queued" => Rank(s) >= Rank(t)
<1>1. CASE s = "queued"
  BY <1>1 DEF Rank, Successors
<1>2. CASE s = "submitted"
  BY <1>2 DEF Rank, Successors
<1>3. CASE s = "processing"
  BY <1>3 DEF Rank, Successors
<1>4. CASE s = "validating"
  BY <1>4 DEF Rank, Successors
<1> QED BY <1>1, <1>2, <1>3, <1>4

(* Whoever changes the job, it never falls back. *)
LEMMA JobAdvances ==
  ASSUME TypeOK, TookFirstPayload, [Next]_vars
  PROVE  /\ job' \in Active \cup Outcomes
         /\ Rank(job') >= Rank(job)
         /\ known => known' /\ (job # "queued" => job' # "queued")
         /\ ~known /\ known' => job' # "queued"
<1>1. Rank(job) \in 0 .. 4 /\ job \in Active \cup Outcomes
  BY RankType DEF TypeOK
<1>2. CASE UNCHANGED <<job, known>>
  BY <1>1, <1>2
<1>3. ASSUME NEW h \in Handlers, Apply(h)
      PROVE  /\ job' \in Active \cup Outcomes /\ Rank(job') >= Rank(job)
             /\ UNCHANGED known /\ (job # "queued" => job' # "queued")
  <2>1. CASE Applies(handler[h].payload)
    <3>1. job' = handler[h].payload /\ job \in Active
      BY <1>3, <2>1 DEF Apply, Applies
    <3>2. job' \in Outcomes \/ job' \in Successors(job)
      BY <3>1, <2>1 DEF Applies
    <3> QED BY <3>1, <3>2, <1>1, <1>3, RankOrder, RankType DEF Apply
  <2>2. CASE ~Applies(handler[h].payload)
    BY <2>2, <1>1, <1>3 DEF Apply
  <2> QED BY <2>1, <2>2
<1>4. CASE RecordExternalId
  BY <1>4 DEF RecordExternalId, Rank
<1>5. CASE ChangeElsewhere
  <2>1. job \in Active /\ UNCHANGED known /\ (job' \in Outcomes \/ job' \in Successors(job))
    BY <1>5 DEF ChangeElsewhere
  <2> QED BY <2>1, <1>1, RankOrder, RankType
<1> QED
  BY <1>2, <1>3, <1>4, <1>5
  DEF Next, vars, HandlerStep, Receive, Find, Mark, ApplyFails, Dies, MaterialChanges

----------------------------------------------------------------------------
(* Type correctness, with the payload a delivery took *)

LEMMA InitTypes == Init => TypeOK /\ TookFirstPayload
<1> SUFFICES ASSUME Init PROVE TypeOK /\ TookFirstPayload
  OBVIOUS
<1>1. \A h \in Handlers : handler[h].step = "idle"
  BY DEF Init
<1>2. TookFirstPayload
  BY <1>1 DEF TookFirstPayload, At
<1>3. applied \in [Events -> [Reports -> 0 .. 2]] /\ faults \in 0 .. MaxFaults
  BY WebhookAssumption DEF Init
<1>4. event \in [Events -> {NoEvent}] /\ handler \in [Handlers -> {Idle}]
  BY DEF Init
<1>5. job \in Active \cup Outcomes /\ known \in BOOLEAN /\ material \in BOOLEAN
  BY DEF Init
<1>6. TypeOK
  BY <1>3, <1>4, <1>5 DEF TypeOK
<1> QED BY <1>2, <1>6

LEMMA StepTypes ==
  ASSUME TypeOK, TookFirstPayload, [Next]_vars
  PROVE  TypeOK' /\ TookFirstPayload'
<1> USE DEF TypeOK, TookFirstPayload, At
<1>1. ASSUME NEW h \in Handlers, NEW e \in Events, NEW p \in Reports, Receive(h, e, p)
      PROVE  TypeOK' /\ TookFirstPayload'
  <2>1. event' \in [Events -> [payload: Reports, processed: BOOLEAN] \cup {NoEvent}]
    <3>1. [payload |-> p, processed |-> FALSE] \in [payload: Reports, processed: BOOLEAN]
      OBVIOUS
    <3>2. \/ event' = event
          \/ event' = [event EXCEPT ![e] = [payload |-> p, processed |-> FALSE]]
      BY <1>1 DEF Receive
    <3> HIDE DEF Reports, NoEvent
    <3> QED BY <3>1, <3>2
  <2>2. handler' = [handler EXCEPT ![h] = [step |-> "find", event |-> e, payload |-> p]]
        /\ handler[h] = Idle
    BY <1>1 DEF Receive, Take
  <2>3. event'[e].payload = p
    BY <1>1 DEF Receive
  <2>4. \A d \in Events \ {e} : event'[d] = event[d]
    BY <1>1 DEF Receive
  <2>5. \A g \in Handlers : At(g, {"find", "apply", "mark"}) =>
          event'[handler[g].event].payload = handler[g].payload
    <3> SUFFICES ASSUME NEW g \in Handlers, At(g, {"find", "apply", "mark"})
                 PROVE  event'[handler[g].event].payload = handler[g].payload
      OBVIOUS
    <3>1. event[handler[g].event] # NoEvent /\ handler[g].event \in Events
      BY DeliveryFacts
    <3>2. event'[handler[g].event].payload = event[handler[g].event].payload
      BY <1>1, <3>1, <2>4 DEF Receive
    <3> QED BY <3>2
  <2> QED BY <1>1, <2>1, <2>2, <2>3, <2>5 DEF Receive
<1>2. ASSUME NEW h \in Handlers, Find(h)
      PROVE  TypeOK' /\ TookFirstPayload'
  BY <1>2, DeliveryFacts DEF Find, Goto, Answer
<1>3. ASSUME NEW h \in Handlers, Apply(h)
      PROVE  TypeOK' /\ TookFirstPayload'
  <2> DEFINE e == handler[h].event
             p == handler[h].payload
  <2>1. e \in Events /\ p \in Reports
    BY <1>3, DeliveryFacts DEF Apply
  <2>2. handler' = [handler EXCEPT ![h].step = "mark"]
    BY <1>3 DEF Apply, Goto
  <2>3. applied' \in [Events -> [Reports -> 0 .. 2]]
    <3>1. applied[e][p] \in 0 .. 2
      BY <2>1
    <3>2. (IF applied[e][p] < 2 THEN applied[e][p] + 1 ELSE applied[e][p]) \in 0 .. 2
      BY <3>1
    <3> QED BY <1>3, <2>1, <3>2 DEF Apply
  <2>4. job' \in Active \cup Outcomes
    BY <1>3, JobAdvances
  <2> QED BY <1>3, <2>1, <2>2, <2>3, <2>4, DeliveryFacts DEF Apply
<1>4. ASSUME NEW h \in Handlers, Mark(h)
      PROVE  TypeOK' /\ TookFirstPayload'
  <2>1. /\ handler[h].event \in Events
        /\ event[handler[h].event] \in [payload: Reports, processed: BOOLEAN]
    BY <1>4, DeliveryFacts DEF Mark
  <2>2. event' = [event EXCEPT ![handler[h].event] =
                   [payload |-> event[handler[h].event].payload, processed |-> TRUE]]
    BY <1>4 DEF Mark, Processed
  <2>3. handler' = [handler EXCEPT ![h] = Idle]
    BY <1>4 DEF Mark, Answer
  <2>4. event' \in [Events -> [payload: Reports, processed: BOOLEAN] \cup {NoEvent}]
    BY <2>1, <2>2
  <2>5. \A d \in Events : event'[d].payload = event[d].payload
    BY <2>1, <2>2
  <2>6. TypeOK'
    BY <1>4, <2>3, <2>4 DEF Mark
  <2>7. TookFirstPayload'
    <3> SUFFICES ASSUME NEW g \in Handlers, At(g, {"find", "apply", "mark"})'
                 PROVE  event'[handler'[g].event].payload = handler'[g].payload
      OBVIOUS
    <3>1. handler'[g] = handler[g] /\ At(g, {"find", "apply", "mark"})
      BY <2>3
    <3>2. handler[g].event \in Events
      BY <3>1, DeliveryFacts
    <3> QED BY <2>5, <3>1, <3>2
  <2> QED BY <2>6, <2>7
<1>5. CASE RecordExternalId \/ ChangeElsewhere \/ MaterialChanges
  BY <1>5, JobAdvances DEF RecordExternalId, ChangeElsewhere, MaterialChanges
<1>6. ASSUME NEW h \in Handlers, ApplyFails(h) \/ Dies(h)
      PROVE  TypeOK' /\ TookFirstPayload'
  <2>1. handler' = [handler EXCEPT ![h] = Idle] /\ UNCHANGED <<job, known, material, event, applied>>
    BY <1>6 DEF ApplyFails, Dies, Answer
  <2>2. faults' \in 0 .. MaxFaults
    BY <1>6, WebhookAssumption DEF ApplyFails, Dies
  <2> QED BY <2>1, <2>2
<1>7. CASE UNCHANGED vars
  BY <1>7 DEF vars
<1> HIDE DEF TypeOK, TookFirstPayload, At, Reports
<1> QED BY <1>1, <1>2, <1>3, <1>4, <1>5, <1>6, <1>7 DEF Next, HandlerStep

(* Deliveries under way, event rows and the history keep their types,      *)
(* however many handlers work on an event at once.                         *)
THEOREM TypeCorrect == Spec => []TypeOK
  BY InitTypes, StepTypes, PTL DEF Spec

----------------------------------------------------------------------------
(* Reports that reached the job *)

LEMMA InitReached ==
  ASSUME Init
  PROVE  AppliesToKnownJob /\ AppliedHasReachedJob /\ ProcessedHasReachedJob
         /\ AtMostOnce /\ FirstPayloadWins
<1>1. /\ ~known
      /\ \A h \in Handlers : handler[h].step = "idle"
      /\ \A e \in Events : ~event[e].processed
      /\ \A e \in Events, p \in Reports : applied[e][p] = 0
  BY DEF Init
<1> QED BY <1>1 DEF AppliesToKnownJob, AppliedHasReachedJob, ProcessedHasReachedJob,
                    AtMostOnce, FirstPayloadWins, At

(* How a delivery comes to be applied, and to be marked.                   *)
DeliveryStep(h) ==
  \/ handler'[h] = handler[h]
  \/ handler'[h].step \in {"idle", "find"}
  \/ /\ At(h, {"find"}) /\ known /\ handler[h].payload # "unrecognized"
     /\ handler'[h].step = "apply" /\ handler'[h].payload = handler[h].payload
  \/ /\ Apply(h)
     /\ handler'[h].step = "mark" /\ handler'[h].payload = handler[h].payload

LEMMA DeliverySteps ==
  ASSUME TypeOK, TookFirstPayload, [Next]_vars, NEW h \in Handlers
  PROVE  DeliveryStep(h)
<1> USE DEF DeliveryStep
<1>0. handler \in [Handlers -> {Idle} \cup
          [step: {"find", "apply", "mark"}, event: Events, payload: Reports]]
  BY DEF TypeOK
<1>1. ASSUME NEW g \in Handlers, Find(g) PROVE DeliveryStep(h)
  BY <1>0, <1>1, DeliveryFacts DEF Find, Goto, Answer, At
<1>2. ASSUME NEW g \in Handlers, Apply(g) PROVE DeliveryStep(h)
  <2>1. handler' = [handler EXCEPT ![g].step = "mark"]
    BY <1>2 DEF Apply, Goto
  <2>2. At(g, {"find", "apply", "mark"})
    BY <1>2 DEF Apply, At
  <2>3. CASE g = h
    BY <1>0, <1>2, <2>1, <2>2, <2>3, DeliveryFacts
  <2>4. CASE g # h
    BY <1>0, <2>1, <2>4
  <2> QED BY <2>3, <2>4
<1>3. ASSUME NEW g \in Handlers, NEW e \in Events, NEW p \in Reports, Receive(g, e, p)
      PROVE  DeliveryStep(h)
  BY <1>0, <1>3 DEF Receive, Take
<1>4. ASSUME NEW g \in Handlers, Mark(g) \/ ApplyFails(g) \/ Dies(g) PROVE DeliveryStep(h)
  BY <1>0, <1>4 DEF Mark, ApplyFails, Dies, Answer
<1>5. CASE RecordExternalId \/ ChangeElsewhere \/ MaterialChanges \/ UNCHANGED vars
  BY <1>5 DEF RecordExternalId, ChangeElsewhere, MaterialChanges, vars
<1> HIDE DEF DeliveryStep, Reports
<1> QED BY <1>1, <1>2, <1>3, <1>4, <1>5 DEF Next, HandlerStep

(* An event's row keeps its payload, and is marked by a delivery of it.    *)
RowStep(e) ==
  /\ event[e] = NoEvent \/ event'[e].payload = event[e].payload
  /\ \/ event'[e] = event[e]
     \/ ~event'[e].processed
     \/ \E h \in Handlers : At(h, {"mark"}) /\ handler[h].event = e

LEMMA RowSteps ==
  ASSUME TypeOK, TookFirstPayload, [Next]_vars, NEW e \in Events
  PROVE  RowStep(e)
<1> USE DEF RowStep
<1>0. event \in [Events -> [payload: Reports, processed: BOOLEAN] \cup {NoEvent}]
  BY DEF TypeOK
<1>1. ASSUME NEW g \in Handlers, NEW d \in Events, NEW p \in Reports, Receive(g, d, p)
      PROVE  RowStep(e)
  BY <1>0, <1>1 DEF Receive
<1>2. ASSUME NEW g \in Handlers, Mark(g) PROVE RowStep(e)
  <2>1. event' = [event EXCEPT ![handler[g].event] = Processed(@)] /\ At(g, {"mark"})
    BY <1>2 DEF Mark, At
  <2>2. CASE handler[g].event = e
    BY <1>0, <2>1, <2>2 DEF Processed
  <2>3. CASE handler[g].event # e
    BY <1>0, <2>1, <2>3
  <2> QED BY <2>2, <2>3
<1>3. ASSUME NEW g \in Handlers, Find(g) \/ Apply(g) \/ ApplyFails(g) \/ Dies(g) PROVE RowStep(e)
  BY <1>3 DEF Find, Apply, ApplyFails, Dies
<1>4. CASE RecordExternalId \/ ChangeElsewhere \/ MaterialChanges \/ UNCHANGED vars
  BY <1>4 DEF RecordExternalId, ChangeElsewhere, MaterialChanges, vars
<1> HIDE DEF RowStep, Reports
<1> QED BY <1>1, <1>2, <1>3, <1>4 DEF Next, HandlerStep

(* A step of other handlers, or of others, and the rows it leaves alone.   *)
LEMMA AppliedSteps ==
  ASSUME TypeOK, TookFirstPayload, [Next]_vars
  PROVE  \/ UNCHANGED applied
         \/ \E h \in Handlers :
              /\ At(h, {"apply"}) /\ Applies(handler[h].payload)
              /\ job' = handler[h].payload /\ UNCHANGED event
              /\ \A e \in Events, p \in Reports :
                   <<e, p>> # <<handler[h].event, handler[h].payload>>
                     => applied'[e][p] = applied[e][p]
              /\ applied[handler[h].event][handler[h].payload] = 0 =>
                   applied'[handler[h].event][handler[h].payload] = 1
<1>1. ASSUME NEW h \in Handlers, Apply(h), Applies(handler[h].payload)
      PROVE  /\ At(h, {"apply"}) /\ job' = handler[h].payload /\ UNCHANGED event
             /\ \A e \in Events, p \in Reports :
                  <<e, p>> # <<handler[h].event, handler[h].payload>>
                    => applied'[e][p] = applied[e][p]
             /\ applied[handler[h].event][handler[h].payload] = 0 =>
                  applied'[handler[h].event][handler[h].payload] = 1
  <2> DEFINE d == handler[h].event
             q == handler[h].payload
             n == IF applied[d][q] < 2 THEN applied[d][q] + 1 ELSE applied[d][q]
  <2>1. d \in Events /\ q \in Reports
    BY <1>1, DeliveryFacts DEF Apply, At
  <2>2. applied' = [applied EXCEPT ![d][q] = n]
    BY <1>1 DEF Apply
  <2>3. applied \in [Events -> [Reports -> 0 .. 2]]
    BY DEF TypeOK
  <2> HIDE DEF d, q, n, Reports
  <2>4. \A e \in Events, p \in Reports : <<e, p>> # <<d, q>> => applied'[e][p] = applied[e][p]
    BY <2>1, <2>2, <2>3
  <2>5. applied'[d][q] = n
    BY <2>1, <2>2, <2>3
  <2>6. applied[d][q] = 0 => n = 1
    BY DEF n
  <2> QED BY <1>1, <2>4, <2>5, <2>6 DEF Apply, At, d, q
<1>2. ASSUME NEW h \in Handlers, Apply(h), ~Applies(handler[h].payload)
      PROVE  UNCHANGED applied
  BY <1>2 DEF Apply
<1> QED
  BY <1>1, <1>2
  DEF Next, vars, HandlerStep, Receive, Find, Mark, ApplyFails, Dies,
      RecordExternalId, ChangeElsewhere, MaterialChanges

LEMMA StepReached ==
  ASSUME IInv, [Next]_vars
  PROVE  AppliesToKnownJob' /\ AppliedHasReachedJob' /\ ProcessedHasReachedJob'
         /\ AtMostOnce' /\ FirstPayloadWins'
<1>1. TypeOK /\ TookFirstPayload /\ TypeOK' /\ TookFirstPayload'
  BY StepTypes DEF IInv
<1>2. /\ Rank(job') >= Rank(job) /\ Rank(job) \in 0 .. 4 /\ Rank(job') \in 0 .. 4
      /\ \A p \in Recognized : Rank(p) \in 0 .. 4
      /\ known => known'
  BY <1>1, JobAdvances, RankType DEF TypeOK
<1>3. AppliesToKnownJob'
  <2>1. known' => job' # "queued"
    BY <1>1, JobAdvances DEF IInv, AppliesToKnownJob, TypeOK
  <2>2. ASSUME NEW h \in Handlers, At(h, {"apply", "mark"})'
        PROVE  known' /\ handler'[h].payload \in Recognized
    <3>1. CASE handler'[h] = handler[h]
      BY <1>2, <2>2, <3>1 DEF IInv, AppliesToKnownJob, At
    <3>2. CASE /\ At(h, {"find"}) /\ known /\ handler[h].payload # "unrecognized"
               /\ handler'[h].payload = handler[h].payload
      <4>1. handler[h].payload \in Reports
        BY <1>1, <3>2, DeliveryFacts DEF At
      <4> QED BY <1>2, <3>2, <4>1
    <3>3. CASE Apply(h) /\ handler'[h].payload = handler[h].payload
      BY <1>2, <3>3 DEF IInv, AppliesToKnownJob, Apply, At
    <3> QED BY <1>1, <2>2, <3>1, <3>2, <3>3, DeliverySteps DEF DeliveryStep, At
  <2> QED BY <2>1, <2>2 DEF AppliesToKnownJob
<1>4. ASSUME NEW h \in Handlers, At(h, {"mark"})'
      PROVE  Rank(job') >= Rank(handler'[h].payload)
  <2>1. CASE handler'[h] = handler[h]
    <3>1. At(h, {"mark"}) /\ handler[h].payload \in Recognized
      BY <1>4, <2>1 DEF At, IInv, AppliesToKnownJob
    <3> QED BY <1>2, <2>1, <3>1 DEF IInv, AppliedHasReachedJob
  <2>2. CASE Apply(h) /\ handler'[h].payload = handler[h].payload
    <3> DEFINE p == handler[h].payload
    <3>1. known /\ job # "queued" /\ p \in Recognized
      BY <2>2 DEF IInv, AppliesToKnownJob, Apply, At
    <3>2. CASE Applies(p)
      BY <1>2, <2>2, <3>1, <3>2 DEF Apply
    <3>3. CASE ~Applies(p) /\ job \in Active
      <4>1. p \in Progress \ Successors(job)
        BY <2>2, <3>1, <3>3 DEF Applies, Refused, Apply
      <4>2. Rank(job) >= Rank(p)
        BY <3>1, <3>3, <4>1, RankOrder
      <4> QED BY <1>2, <2>2, <3>1, <4>2
    <3>4. CASE job \in Outcomes
      <4>1. Rank(job) = 4
        BY <3>4 DEF Rank
      <4> QED BY <1>2, <2>2, <3>1, <4>1
    <3> QED BY <1>1, <3>2, <3>3, <3>4 DEF TypeOK
  <2> QED BY <1>1, <1>4, <2>1, <2>2, DeliverySteps DEF DeliveryStep, At
<1>5. ASSUME NEW e \in Events, NEW p \in Reports, applied'[e][p] > 0
      PROVE  /\ p \in Recognized /\ Rank(job') >= Rank(p)
             /\ event'[e].payload = p /\ applied'[e][p] <= 1
  <2>1. CASE applied'[e][p] = applied[e][p]
    <3>1. p \in Recognized /\ Rank(job) >= Rank(p) /\ applied[e][p] <= 1
      BY <1>5, <2>1 DEF IInv, AppliedHasReachedJob, AtMostOnce
    <3>2. event[e].payload = p
      BY <1>5, <2>1 DEF IInv, FirstPayloadWins
    <3>3. event'[e].payload = p
      BY <1>1, <3>2, RowSteps DEF RowStep
    <3> QED BY <1>2, <2>1, <3>1, <3>3
  <2>2. ASSUME NEW h \in Handlers, At(h, {"apply"}), Applies(p),
               handler[h].event = e, handler[h].payload = p,
               job' = p, UNCHANGED event, applied[e][p] = 0 => applied'[e][p] = 1
        PROVE  /\ p \in Recognized /\ Rank(job') >= Rank(p)
               /\ event'[e].payload = p /\ applied'[e][p] <= 1
    <3>1. p \in Recognized
      BY <2>2 DEF IInv, AppliesToKnownJob, At
    <3>2. event'[e].payload = p
      BY <1>1, <2>2 DEF TookFirstPayload, At
    <3>3. job \in Active /\ Rank(p) > Rank(job)
      BY <2>2, RankOrder DEF Applies
    <3>4. applied[e][p] = 0
      <4>1. applied[e][p] \in 0 .. 2
        BY <1>1 DEF TypeOK
      <4>2. applied[e][p] > 0 => Rank(job) >= Rank(p)
        BY DEF IInv, AppliedHasReachedJob
      <4> QED BY <1>2, <3>1, <3>3, <4>1, <4>2
    <3> QED BY <1>2, <2>2, <3>1, <3>2, <3>4
  <2> QED BY <1>1, <2>1, <2>2, AppliedSteps
<1>6. AppliedHasReachedJob'
  BY <1>4, <1>5 DEF AppliedHasReachedJob
<1>7. AtMostOnce'
  <2>1. \A e \in Events, p \in Reports : applied'[e][p] \in 0 .. 2
    BY <1>1 DEF TypeOK
  <2> QED BY <1>5, <2>1 DEF AtMostOnce
<1>8. FirstPayloadWins'
  BY <1>5 DEF FirstPayloadWins
<1>9. ProcessedHasReachedJob'
  <2> SUFFICES ASSUME NEW e \in Events, event'[e].processed
               PROVE  Rank(job') >= Rank(event'[e].payload)
    BY DEF ProcessedHasReachedJob
  <2>1. CASE event'[e] = event[e]
    <3>1. event[e].payload \in Reports
      BY <1>1, <2>1 DEF TypeOK
    <3>2. Rank(job) >= Rank(event[e].payload)
      BY <2>1 DEF IInv, ProcessedHasReachedJob
    <3>3. Rank("unrecognized") = 4
      BY DEF Rank
    <3> QED BY <1>2, <2>1, <3>1, <3>2, <3>3
  <2>2. ASSUME NEW h \in Handlers, At(h, {"mark"}), handler[h].event = e
        PROVE  Rank(job') >= Rank(event'[e].payload)
    <3>1. event[e].payload = handler[h].payload /\ event[e] # NoEvent
      BY <1>1, <2>2, DeliveryFacts DEF TookFirstPayload, At
    <3>2. event'[e].payload = handler[h].payload
      BY <1>1, <3>1, RowSteps DEF RowStep
    <3>3. Rank(job) >= Rank(handler[h].payload) /\ handler[h].payload \in Recognized
      BY <2>2 DEF IInv, AppliedHasReachedJob, AppliesToKnownJob, At
    <3> QED BY <1>2, <3>2, <3>3
  <2> QED BY <1>1, <2>1, <2>2, RowSteps DEF RowStep
<1> QED BY <1>3, <1>6, <1>7, <1>8, <1>9

LEMMA Invariant == Spec => []IInv
<1>1. Init => IInv
  BY InitTypes, InitReached DEF IInv
<1>2. IInv /\ [Next]_vars => IInv'
  BY StepTypes, StepReached DEF IInv
<1> QED BY <1>1, <1>2, PTL DEF Spec

(* However often and by however many handlers an event is delivered, it    *)
(* changes the job at most once, and only with the payload first seen.     *)
THEOREM AppliedOnce == Spec => []ChangesOnce
<1>1. IInv => ChangesOnce
  BY DEF IInv, TypeOK, AtMostOnce, FirstPayloadWins, ChangesOnce
<1> QED BY <1>1, Invariant, PTL

(* No event is marked processed, and so never looked at again, before what *)
(* it says has reached the job.                                            *)
THEOREM ProcessedReached == Spec => []ProcessedHasReachedJob
<1>1. IInv => ProcessedHasReachedJob
  BY DEF IInv
<1> QED BY <1>1, Invariant, PTL

=============================================================================
