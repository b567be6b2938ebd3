------------------------------- MODULE Feedback -----------------------------
(***************************************************************************)
(* A student's feedback on one completed job, and its forwarding to the AI *)
(* service (AIJobViewSet.feedback, forward_ai_feedback, forward_feedback). *)
(* The student may change it at any time: every change sends another       *)
(* message, but the flag forwarded_to_ai_service is never taken back.      *)
(* Contents are versions.                                                  *)
(***************************************************************************)
EXTENDS Naturals, FiniteSets

CONSTANTS Forwarders, MaxVersions, MaxForwardRetries

ASSUME FeedbackAssumption == MaxVersions \in Nat /\ MaxForwardRetries \in Nat

VARIABLES
  version,     \* of the AIFeedback row; 0 before there is one
  forwarded,   \* forwarded_to_ai_service
  letters,     \* forward_ai_feedback messages: retries left -> how many
  forwarder,   \* what each worker has read
  received,    \* versions the service has received
  overtaken    \* history: it was changed while being forwarded, or after

feedbackVars == <<version, forwarded, letters, forwarder, received, overtaken>>

Empty      == [version |-> 0]
Retries    == 0 .. MaxForwardRetries
Forwarding == {w \in Forwarders : forwarder[w] # Empty}

FeedbackTypeOK ==
  /\ version \in 0 .. MaxVersions
  /\ forwarded \in BOOLEAN /\ overtaken \in BOOLEAN
  /\ letters \in [Retries -> Nat]
  /\ \A w \in Forwarding : forwarder[w].version \in 1 .. version /\ forwarder[w].retries \in Retries
  /\ received \subseteq 1 .. version

FeedbackInit ==
  /\ version = 0 /\ forwarded = FALSE /\ overtaken = FALSE
  /\ letters = [n \in Retries |-> 0]
  /\ forwarder = [w \in Forwarders |-> Empty]
  /\ received = {}

(* update_or_create, and the message after the commit, which may get lost. *)
GiveFeedback ==
  /\ version < MaxVersions
  /\ version' = version + 1
  /\ \/ letters' = [letters EXCEPT ![MaxForwardRetries] = @ + 1]
     \/ UNCHANGED letters
  /\ overtaken' = (overtaken \/ forwarded \/ Forwarding # {})
  /\ UNCHANGED <<forwarded, forwarder, received>>

(* forward_ai_feedback: the row is read; a forwarded one is left alone.   *)
TakeLetter(w, n) ==
  /\ forwarder[w] = Empty /\ letters[n] > 0
  /\ letters' = [letters EXCEPT ![n] = @ - 1]
  /\ forwarder' = IF forwarded THEN forwarder
                  ELSE [forwarder EXCEPT ![w] = [version |-> version, retries |-> n, sent |-> FALSE]]
  /\ UNCHANGED <<version, forwarded, received, overtaken>>

(* send_feedback: the service may have it even if the answer is lost. *)
SendFeedback(w) ==
  /\ w \in Forwarding /\ ~ forwarder[w].sent
  /\ received' = received \cup {forwarder[w].version}
  /\ forwarder' = [forwarder EXCEPT ![w].sent = TRUE]
  /\ UNCHANGED <<version, forwarded, letters, overtaken>>

(* Mutant: the flag does not wait for the answer. *)
MarkBeforeSending(w) ==
  /\ w \in Forwarding
  /\ forwarded' = TRUE
  /\ forwarder' = [forwarder EXCEPT ![w] = Empty]
  /\ UNCHANGED <<version, letters, received, overtaken>>

MarkForwarded(w) ==
  /\ w \in Forwarding /\ forwarder[w].sent
  /\ forwarded' = TRUE
  /\ forwarder' = [forwarder EXCEPT ![w] = Empty]
  /\ UNCHANGED <<version, letters, received, overtaken>>

(* Any error, before or after the service received it, is retried while   *)
(* retries are left.                                                      *)
ForwardFails(w) ==
  LET n == forwarder[w].retries IN
  /\ w \in Forwarding
  /\ letters' = IF n > 0 THEN [letters EXCEPT ![n - 1] = @ + 1] ELSE letters
  /\ forwarder' = [forwarder EXCEPT ![w] = Empty]
  /\ UNCHANGED <<version, forwarded, received, overtaken>>

(* The worker dies and its message is delivered again. *)
ForwarderDies(w) ==
  /\ w \in Forwarding
  /\ letters' = [letters EXCEPT ![forwarder[w].retries] = @ + 1]
  /\ forwarder' = [forwarder EXCEPT ![w] = Empty]
  /\ UNCHANGED <<version, forwarded, received, overtaken>>

FeedbackNext ==
  \/ GiveFeedback
  \/ \E w \in Forwarders :
       \/ \E n \in Retries : TakeLetter(w, n)
       \/ SendFeedback(w) \/ MarkForwarded(w) \/ ForwardFails(w) \/ ForwarderDies(w)

FeedbackSpec == FeedbackInit /\ [][FeedbackNext]_feedbackVars

(* What is marked as forwarded was received as it stands, unless it was    *)
(* changed while a worker was forwarding it or after.                      *)
ForwardedWasReceived == forwarded /\ ~ overtaken => version \in received

=============================================================================
