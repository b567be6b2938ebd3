------------------------ MODULE CorrespondenceProofs ------------------------
(***************************************************************************)
(* What holds of what students write and of what is answered: a ticket,    *)
(* however many handlers serve it at a time, a feedback, for any number of *)
(* workers, of versions and of retries, a request to the AI, for any       *)
(* bodies, sources and topics, and the result of one, for any output.      *)
(***************************************************************************)
EXTENDS Support, Feedback, JobInput, AIResult, Sums, SequenceTheorems

----------------------------------------------------------------------------
(* Tickets.  A handler may write what it read long ago, so that            *)
(* FinalSaysWhen needs the types of what handlers have read: rows of       *)
(* tickets, any of them.                                                   *)

Seen(r)  == clerk[r] = Off \/ clerk[r] \in [op : TicketOps, seen : TicketRows]
ClerkOK  == DOMAIN clerk = TicketRequests /\ \A r \in TicketRequests : Seen(r)
TicketOK == ticket \in TicketRows \cup {NoTicket}
SInv     == TicketOK /\ ClerkOK /\ FinalSaysWhen

LEMMA InitSInv == SupportInit => SInv
BY DEF SupportInit, SInv, TicketOK, ClerkOK, Seen, FinalSaysWhen, NoTicket, FinalStatuses

(* A reply needs a handler that has read the ticket. *)
LEMMA ReplyKeeps ==
  ASSUME ClerkOK, NEW r \in TicketRequests, NEW op \in TicketOps, Reply(r, op)
  PROVE  ClerkOK' /\ clerk[r].seen \in TicketRows
<1>1. clerk[r] # Off
  BY DEF Reply, Off, TicketOps
<1> QED BY <1>1 DEF ClerkOK, Seen, Reply

(* A PATCH by the staff, of any row it may have read. *)
LEMMA PatchedSaysWhen ==
  ASSUME NEW seen \in TicketRows, NEW status \in TicketStatuses \cup {"kept"}
  PROVE  /\ Patched(seen, status) \in TicketRows
         /\ Patched(seen, status).status \in FinalStatuses => Patched(seen, status).resolved
<1> DEFINE new == IF status = "kept" THEN seen.status ELSE status
           says == IF status = "kept" THEN seen.resolved \/ seen.status \in FinalStatuses
                   ELSE status \in FinalStatuses
<1>1. Patched(seen, status) = [status |-> new, resolved |-> says]
  BY Zenon DEF Patched
<1>2. new \in TicketStatuses
  BY DEF TicketRows
<1>3. new \in FinalStatuses => says
  BY Zenon
<1>4. says = TRUE \/ says = FALSE
  <2>1. seen.resolved \in BOOLEAN
    BY DEF TicketRows
  <2>2. CASE status = "kept" /\ (seen.resolved \/ seen.status \in FinalStatuses)
    BY <2>1, <2>2
  <2>3. CASE status = "kept" /\ ~ (seen.resolved \/ seen.status \in FinalStatuses)
    BY <2>1, <2>3
  <2>4. CASE status # "kept"
    BY <2>4
  <2> QED BY <2>2, <2>3, <2>4
<1>5. CASE says = TRUE
  <2>1. Patched(seen, status) = [status |-> new, resolved |-> TRUE]
    BY <1>1, <1>5, Zenon
  <2> HIDE DEF new
  <2> QED BY <1>2, <2>1 DEF TicketRows
<1>6. CASE says = FALSE
  <2>1. Patched(seen, status) = [status |-> new, resolved |-> FALSE]
    BY <1>1, <1>6, Zenon
  <2>2. new \notin FinalStatuses
    BY <1>3, <1>6
  <2> HIDE DEF new
  <2> QED BY <1>2, <2>1, <2>2 DEF TicketRows
<1> QED BY <1>4, <1>5, <1>6

(* A row, or none, whose status alone is changed to an open one. *)
LEMMA Reopened ==
  ASSUME TicketOK, NEW status \in {"open", "waiting_user"}
  PROVE  /\ [ticket EXCEPT !.status = status] \in TicketRows
         /\ [ticket EXCEPT !.status = status].status \notin FinalStatuses
<1>1. status \in TicketStatuses /\ status \notin FinalStatuses
  BY DEF TicketStatuses, FinalStatuses
<1>2. ticket \in [status : TicketStatuses \cup {"none"}, resolved : BOOLEAN]
  <2>1. NoTicket \in [status : TicketStatuses \cup {"none"}, resolved : BOOLEAN]
    BY DEF NoTicket
  <2>2. CASE ticket \in TicketRows
    BY <2>2 DEF TicketRows
  <2> QED BY <2>1, <2>2 DEF TicketOK
<1> QED BY <1>1, <1>2 DEF TicketRows

LEMMA SInvInductive == SInv /\ [SupportNext]_supportVars => SInv'
<1> SUFFICES ASSUME SInv, [SupportNext]_supportVars PROVE SInv'
  OBVIOUS
<1> USE DEF SInv
<1>1. CASE OpenTicket
  <2>1. TicketOK' /\ FinalSaysWhen'
    BY <1>1 DEF OpenTicket, TicketOK, TicketRows, TicketStatuses, FinalSaysWhen, FinalStatuses
  <2>2. ClerkOK'
    BY <1>1 DEF OpenTicket, ClerkOK, Seen
  <2> QED BY <2>1, <2>2
<1>2. ASSUME NEW r \in TicketRequests, NEW op \in TicketOps, FetchTicket(r, op) PROVE SInv'
  <2>1. TicketOK' /\ FinalSaysWhen'
    BY <1>2 DEF FetchTicket, TicketOK, FinalSaysWhen
  <2>2. [op |-> op, seen |-> ticket] \in [op : TicketOps, seen : TicketRows]
    BY <1>2 DEF FetchTicket, TicketOK
  <2>3. ClerkOK'
    BY <1>2, <2>2 DEF FetchTicket, ClerkOK, Seen
  <2> QED BY <2>1, <2>3
<1>3. ASSUME NEW r \in TicketRequests, AddMessage(r) PROVE SInv'
  <2>1. ClerkOK'
    BY <1>3, ReplyKeeps DEF AddMessage, TicketOps
  <2>2. ticket' = ticket \/ ticket' = [ticket EXCEPT !.status = "open"]
    BY <1>3 DEF AddMessage
  <2> QED BY <2>1, <2>2, Reopened DEF TicketOK, FinalSaysWhen
<1>4. ASSUME NEW r \in TicketRequests, Close(r) PROVE SInv'
  <2>1. ClerkOK'
    BY <1>4, ReplyKeeps DEF Close, TicketOps
  <2> QED BY <1>4, <2>1 DEF Close, TicketOK, TicketRows, TicketStatuses, FinalSaysWhen
<1>5. ASSUME NEW r \in TicketRequests, AnswerTicket(r) PROVE SInv'
  <2>1. ClerkOK'
    BY <1>5, ReplyKeeps DEF AnswerTicket, TicketOps
  <2> QED BY <1>5, <2>1, Reopened DEF AnswerTicket, TicketOK, FinalSaysWhen
<1>6. ASSUME NEW r \in TicketRequests, AddNote(r) PROVE SInv'
  BY <1>6, ReplyKeeps DEF AddNote, TicketOps, TicketOK, FinalSaysWhen
<1>7. ASSUME NEW r \in TicketRequests, NEW status \in TicketStatuses \cup {"kept"}, PatchTicket(r, status)
      PROVE  SInv'
  <2>1. ClerkOK' /\ clerk[r].seen \in TicketRows
    BY <1>7, ReplyKeeps DEF PatchTicket, TicketOps
  <2> QED BY <1>7, <2>1, PatchedSaysWhen DEF PatchTicket, TicketOK, FinalSaysWhen
<1>8. CASE UNCHANGED supportVars
  BY <1>8 DEF supportVars, TicketOK, ClerkOK, Seen, FinalSaysWhen
<1> QED BY <1>1, <1>2, <1>3, <1>4, <1>5, <1>6, <1>7, <1>8 DEF SupportNext

----------------------------------------------------------------------------
(* Types, for any number of handlers: a handler at work has read a ticket. *)
THEOREM SupportTypeCorrect == SupportSpec => []SupportTypeOK
<1>1. SInv => SupportTypeOK
  BY DEF SInv, TicketOK, ClerkOK, Seen, SupportTypeOK
<1> QED BY <1>1, InitSInv, SInvInductive, PTL DEF SupportSpec

(* A ticket that is resolved or closed has its resolved_at, whatever rows  *)
(* stale PATCHes of the staff put back while the student writes or closes. *)
THEOREM FinalAlwaysSaysWhen == SupportSpec => []FinalSaysWhen
<1>1. SInv => FinalSaysWhen
  BY DEF SInv
<1> QED BY <1>1, InitSInv, SInvInductive, PTL DEF SupportSpec

----------------------------------------------------------------------------
(* Feedback.  ForwardedWasReceived is disturbed by MarkForwarded, where it *)
(* needs to know that what a worker has sent was received, and that the    *)
(* version it sent is the row's unless the feedback was overtaken (Held);  *)
(* that a worker holds a version at all, that messages come after the row. *)

Task == [version : 1 .. MaxVersions, retries : Retries, sent : BOOLEAN]

Rows ==
  /\ version \in 0 .. MaxVersions
  /\ forwarded \in BOOLEAN /\ overtaken \in BOOLEAN
  /\ letters \in [Retries -> Nat]
  /\ forwarder \in [Forwarders -> Task \cup {Empty}]
  /\ received \subseteq 1 .. version

MessagesAfterRow == \A n \in Retries : letters[n] > 0 => version > 0

Held ==
  \A w \in Forwarding :
    /\ forwarder[w].version \in 1 .. version
    /\ forwarder[w].sent => forwarder[w].version \in received
    /\ ~ overtaken => forwarder[w].version = version

FInv == Rows /\ MessagesAfterRow /\ Held /\ ForwardedWasReceived

----------------------------------------------------------------------------
LEMMA InitFInv == FeedbackInit => FInv
<1> SUFFICES ASSUME FeedbackInit PROVE FInv
  OBVIOUS
<1>1. Forwarding = {}
  BY DEF FeedbackInit, Forwarding
<1>2. Rows
  <2>1. version \in 0 .. MaxVersions /\ received \subseteq 1 .. version
    BY FeedbackAssumption DEF FeedbackInit
  <2>2. letters \in [Retries -> Nat] /\ forwarder \in [Forwarders -> Task \cup {Empty}]
    BY DEF FeedbackInit
  <2> QED BY <2>1, <2>2 DEF FeedbackInit, Rows
<1> QED BY <1>1, <1>2 DEF FInv, Held, MessagesAfterRow, ForwardedWasReceived, FeedbackInit

LEMMA WorkerHoldsTask ==
  ASSUME Rows, NEW w \in Forwarding
  PROVE  w \in Forwarders /\ forwarder[w] \in Task
BY DEF Rows, Forwarding

(* A step that puts one worker to rest, and at most one message back.      *)
LEMMA WorkerRests ==
  ASSUME FInv, NEW w \in Forwarding, NEW n \in Retries,
         forwarder' = [forwarder EXCEPT ![w] = Empty],
         letters' = letters \/ letters' = [letters EXCEPT ![n] = @ + 1],
         UNCHANGED <<version, received, overtaken>>, forwarded' \in BOOLEAN
  PROVE  Rows' /\ MessagesAfterRow' /\ Held'
<1>1. w \in Forwarders /\ forwarder[w] \in Task
  BY WorkerHoldsTask DEF FInv
<1>2. version > 0
  BY DEF FInv, Held, Rows
<1>3. Rows'
  BY <1>1, SMT DEF FInv, Rows
<1>4. MessagesAfterRow'
  BY <1>2 DEF MessagesAfterRow
<1>5. \A v \in Forwarding' : v \in Forwarding /\ forwarder'[v] = forwarder[v]
  BY <1>1 DEF Forwarding, FInv, Rows
<1> QED BY <1>3, <1>4, <1>5 DEF FInv, Held

LEMMA GiveKeeps == ASSUME FInv, GiveFeedback PROVE FInv'
<1> USE DEF GiveFeedback
<1>1. version \in Nat /\ version' = version + 1 /\ version' \in 0 .. MaxVersions
  BY FeedbackAssumption DEF FInv, Rows
<1>2. Forwarding' = Forwarding
  BY DEF Forwarding
<1>3. letters' \in [Retries -> Nat]
  BY FeedbackAssumption, SMT DEF FInv, Rows, Retries
<1>4. Rows'
  BY <1>1, <1>3 DEF FInv, Rows
<1>5. MessagesAfterRow'
  BY <1>1 DEF MessagesAfterRow
<1>6. Held'
  <2> SUFFICES ASSUME NEW v \in Forwarding
               PROVE  /\ overtaken'
                      /\ forwarder'[v].version \in 1 .. version'
                      /\ forwarder'[v].sent => forwarder'[v].version \in received'
    BY <1>2 DEF Held
  <2>1. forwarder[v].version \in 1 .. version
    BY DEF FInv, Held
  <2>2. forwarder[v].version \in 1 .. version'
    BY <2>1, <1>1
  <2> QED BY <2>2 DEF FInv, Held
<1>7. ForwardedWasReceived'
  BY DEF FInv, Rows, ForwardedWasReceived
<1> QED BY <1>4, <1>5, <1>6, <1>7 DEF FInv

LEMMA TakeKeeps ==
  ASSUME FInv, NEW w \in Forwarders, NEW n \in Retries, TakeLetter(w, n) PROVE FInv'
<1> USE DEF TakeLetter
<1>1. version \in 1 .. MaxVersions
  BY DEF FInv, Rows, MessagesAfterRow
<1>2. letters' \in [Retries -> Nat]
  BY DEF FInv, Rows
<1>3. forwarder' \in [Forwarders -> Task \cup {Empty}]
  <2>1. [version |-> version, retries |-> n, sent |-> FALSE] \in Task
    BY <1>1 DEF Task
  <2> QED BY <2>1 DEF FInv, Rows
<1>4. Rows' /\ MessagesAfterRow' /\ ForwardedWasReceived'
  BY <1>1, <1>2, <1>3 DEF FInv, Rows, MessagesAfterRow, ForwardedWasReceived
<1>5. Held'
  <2> SUFFICES ASSUME NEW v \in Forwarding'
               PROVE  /\ forwarder'[v].version \in 1 .. version
                      /\ forwarder'[v].sent => forwarder'[v].version \in received
                      /\ ~ overtaken => forwarder'[v].version = version
    BY DEF Held
  <2>1. CASE forwarder'[v] = forwarder[v]
    BY <2>1 DEF FInv, Held, Forwarding
  <2>2. CASE forwarder'[v] # forwarder[v]
    <3>1. forwarder'[v] = [version |-> version, retries |-> n, sent |-> FALSE]
      BY <2>2 DEF FInv, Rows, Forwarding
    <3> QED BY <3>1, <1>1
  <2> QED BY <2>1, <2>2
<1> QED BY <1>4, <1>5 DEF FInv

LEMMA SendKeeps == ASSUME FInv, NEW w \in Forwarders, SendFeedback(w) PROVE FInv'
<1> USE DEF SendFeedback
<1>1. forwarder[w] \in Task /\ forwarder[w].version \in 1 .. version
  BY WorkerHoldsTask DEF FInv, Held
<1>2. forwarder' = [forwarder EXCEPT ![w] = [forwarder[w] EXCEPT !.sent = TRUE]]
  OBVIOUS
<1>3. /\ [forwarder[w] EXCEPT !.sent = TRUE] \in Task
      /\ [forwarder[w] EXCEPT !.sent = TRUE].version = forwarder[w].version
  BY <1>1 DEF Task
<1>4. Rows'
  BY <1>1, <1>2, <1>3 DEF FInv, Rows
<1>5. MessagesAfterRow' /\ ForwardedWasReceived'
  BY DEF FInv, MessagesAfterRow, ForwardedWasReceived
<1>6. Held'
  <2> SUFFICES ASSUME NEW v \in Forwarding'
               PROVE  /\ forwarder'[v].version \in 1 .. version
                      /\ forwarder'[v].sent => forwarder'[v].version \in received'
                      /\ ~ overtaken => forwarder'[v].version = version
    BY DEF Held
  <2>1. CASE v = w
    BY <2>1, <1>1, <1>2, <1>3 DEF FInv, Held, Rows
  <2>2. CASE v # w
    <3>1. v \in Forwarding /\ forwarder'[v] = forwarder[v]
      BY <2>2, <1>2 DEF Forwarding, FInv, Rows
    <3> QED BY <3>1 DEF FInv, Held
  <2> QED BY <2>1, <2>2
<1> QED BY <1>4, <1>5, <1>6 DEF FInv

LEMMA MarkKeeps == ASSUME FInv, NEW w \in Forwarders, MarkForwarded(w) PROVE FInv'
<1> USE DEF MarkForwarded
<1>1. Rows' /\ MessagesAfterRow' /\ Held'
  <2>1. forwarder[w].retries \in Retries
    BY WorkerHoldsTask DEF FInv, Task
  <2> QED BY <2>1, WorkerRests
<1>2. ~ overtaken => version \in received
  BY DEF FInv, Held
<1> QED BY <1>1, <1>2 DEF FInv, ForwardedWasReceived

LEMMA FailKeeps == ASSUME FInv, NEW w \in Forwarders, ForwardFails(w) PROVE FInv'
<1> USE DEF ForwardFails
<1>1. forwarder[w].retries \in Retries
  BY WorkerHoldsTask DEF FInv, Task
<1>2. forwarded' \in BOOLEAN /\ ForwardedWasReceived'
  BY DEF FInv, Rows, ForwardedWasReceived
<1>3. CASE forwarder[w].retries > 0
  <2>1. forwarder[w].retries - 1 \in Retries
    BY <1>1, <1>3, FeedbackAssumption DEF Retries
  <2> QED BY <2>1, <1>2, <1>3, WorkerRests DEF FInv
<1>4. CASE ~ forwarder[w].retries > 0
  BY <1>1, <1>2, <1>4, WorkerRests DEF FInv
<1> QED BY <1>3, <1>4

LEMMA DieKeeps == ASSUME FInv, NEW w \in Forwarders, ForwarderDies(w) PROVE FInv'
<1> USE DEF ForwarderDies
<1>1. forwarder[w].retries \in Retries
  BY WorkerHoldsTask DEF FInv, Task
<1>2. forwarded' \in BOOLEAN /\ ForwardedWasReceived'
  BY DEF FInv, Rows, ForwardedWasReceived
<1> QED BY <1>1, <1>2, WorkerRests DEF FInv

LEMMA FInvInductive == FInv /\ [FeedbackNext]_feedbackVars => FInv'
<1> SUFFICES ASSUME FInv, [FeedbackNext]_feedbackVars PROVE FInv'
  OBVIOUS
<1>1. CASE UNCHANGED feedbackVars
  BY <1>1 DEF feedbackVars, FInv, Rows, MessagesAfterRow, Held, Forwarding, ForwardedWasReceived
<1>2. CASE FeedbackNext
  BY <1>2, GiveKeeps, TakeKeeps, SendKeeps, MarkKeeps, FailKeeps, DieKeeps DEF FeedbackNext
<1> QED BY <1>1, <1>2

----------------------------------------------------------------------------
(* Types, for any numbers of workers, versions and retries: what a worker  *)
(* holds, and what the service received, are versions the row has had.     *)
THEOREM FeedbackTypeCorrect == FeedbackSpec => []FeedbackTypeOK
<1>1. FInv => FeedbackTypeOK
  BY WorkerHoldsTask DEF FInv, Rows, Held, FeedbackTypeOK, Task
<1> QED BY <1>1, InitFInv, FInvInductive, PTL DEF FeedbackSpec

(* A feedback marked as forwarded (forward_ai_feedback) has reached the AI *)
(* service as it stands, however often the message was repeated, lost or   *)
(* redelivered, unless it was changed while it was forwarded or after.     *)
THEOREM ForwardedReached == FeedbackSpec => []ForwardedWasReceived
<1>1. FInv => ForwardedWasReceived
  BY DEF FInv
<1> QED BY <1>1, InitFInv, FInvInductive, PTL DEF FeedbackSpec

----------------------------------------------------------------------------
(* Requests to the AI.  Two requests with one body that were built at once *)
(* are told apart by the constraint alone, which looks at the jobs as they *)
(* are when the row is inserted.                                           *)

KeyedJobs == DOMAIN made = Jobs /\ OneJobPerInput

LEMMA InputKeysInductive ==
  ASSUME KeyedJobs, [InputNext]_inputVars
  PROVE  KeyedJobs'
<1>1. CASE UNCHANGED made
  BY <1>1 DEF KeyedJobs, OneJobPerInput
<1>2. ASSUME NEW r \in Posts, Insert(r), ~ UNCHANGED made PROVE KeyedJobs'
  <2>1. ~ KeyExists(Key(post[r].input)) /\ Added(post[r])
    BY <1>2 DEF Insert
  <2>2. PICK j \in Jobs : made[j] = NoJob /\ made' = [made EXCEPT ![j] = JobOf(post[r])]
    BY <2>1 DEF Added
  <2>3. JobOf(post[r]).key = Key(post[r].input)
    BY DEF JobOf
  <2>4. PICK new : new = JobOf(post[r])
    OBVIOUS
  <2>5. /\ DOMAIN made' = Jobs /\ made'[j] = new
        /\ \A i \in Jobs \ {j} : made'[i] = made[i]
    BY <2>2, <2>4 DEF KeyedJobs
  <2>6. \A i \in Jobs : made[i] # NoJob => made[i].key # new.key
    BY <2>1, <2>3, <2>4 DEF KeyExists
  <2> QED BY <2>5, <2>6 DEF KeyedJobs, OneJobPerInput
<1> QED BY <1>1, <1>2 DEF InputNext, Build, Insert, Send, Change, inputVars

(* For any number of requests with one body at a time: the body makes one  *)
(* job for one input (the constraint on (user, idempotency_key)).          *)
THEOREM OneJobForInput == InputSpec => []OneJobPerInput
<1>1. InputInit => KeyedJobs
  BY DEF InputInit, KeyedJobs, OneJobPerInput
<1>2. KeyedJobs /\ [InputNext]_inputVars => KeyedJobs'
  BY InputKeysInductive
<1>3. KeyedJobs => OneJobPerInput
  BY DEF KeyedJobs
<1> QED BY <1>1, <1>2, <1>3, PTL DEF InputSpec

(* The rules of an option: what is unset is not allowed, and has a default *)
(* that is, unless the option may be left out.                             *)
RuleSound(t, o) ==
  LET rule == Rules[t][o] IN
  /\ rule.unset \notin rule.allowed
  /\ ~ Optional(t, o) => rule.default \in rule.allowed
  /\ Optional(t, o) => rule.unset = "unset" /\ rule.default = "unset"
  /\ Optional(t, o) /\ "blank" \in rule.allowed => "empty" \in rule.allowed

LEMMA RulesAreSound == \A t \in TaskNames : \A o \in Options(t) : RuleSound(t, o)
<1>1. TaskNames = {"fahes", "kholasa", "khota", "rasheed", "sada"}
  BY DEF TaskNames, Rules
<1>2. ASSUME NEW o \in Options("fahes") PROVE RuleSound("fahes", o)
  <2>1. Rules["fahes"] = FahesRules
    BY DEF Rules
  <2>2. o \in {"question_count", "difficulty", "topic", "language"}
    BY <2>1 DEF Options, FahesRules
  <2> QED BY <2>1, <2>2 DEF RuleSound, Optional, FahesRules, Number, Choice, Text, Language
<1>3. ASSUME NEW o \in Options("kholasa") PROVE RuleSound("kholasa", o)
  <2>1. Rules["kholasa"] = KholasaRules
    BY DEF Rules
  <2>2. o \in {"summary_length", "instructions", "language"}
    BY <2>1 DEF Options, KholasaRules
  <2> QED BY <2>1, <2>2 DEF RuleSound, Optional, KholasaRules, Number, Choice, Text, Language
<1>4. ASSUME NEW o \in Options("khota") PROVE RuleSound("khota", o)
  <2>1. Rules["khota"] = KhotaRules
    BY DEF Rules
  <2>2. o \in {"daily_available_minutes", "preferred_session_minutes", "days", "language"}
    BY <2>1 DEF Options, KhotaRules
  <2> QED BY <2>1, <2>2 DEF RuleSound, Optional, KhotaRules, Number, Choice, Text, Language
<1>5. ASSUME NEW o \in Options("rasheed") PROVE RuleSound("rasheed", o)
  <2>1. Rules["rasheed"] = RasheedRules
    BY DEF Rules
  <2>2. o \in {"learner_goal", "language"}
    BY <2>1 DEF Options, RasheedRules
  <2> QED BY <2>1, <2>2 DEF RuleSound, Optional, RasheedRules, Number, Choice, Text, Language
<1>6. ASSUME NEW o \in Options("sada") PROVE RuleSound("sada", o)
  <2>1. Rules["sada"] = SadaRules
    BY DEF Rules
  <2>2. o \in {"cleanup_level", "language"}
    BY <2>1 DEF Options, SadaRules
  <2> QED BY <2>1, <2>2 DEF RuleSound, Optional, SadaRules, Number, Choice, Text, Language
<1> QED BY <1>1, <1>2, <1>3, <1>4, <1>5, <1>6

(* What was recorded is recorded as it is when it is built again, but for a *)
(* text that is empty or missing, which the parameters may give.           *)
LEMMA RecordedAgain ==
  ASSUME NEW t \in TaskNames, NEW o \in Options(t), NEW v, ValidOption(t, o, v), NEW n,
         n = Normalized(t, o, v)
  PROVE  \/ Optional(t, o) /\ n \in {"empty", "unset"}
         \/ n # Rules[t][o].unset /\ Normalized(t, o, n) = n
<1>1. RuleSound(t, o)
  BY RulesAreSound
<1>2. CASE v = Rules[t][o].unset
  <2>1. n = Rules[t][o].default
    BY <1>1, <1>2 DEF Normalized, RuleSound
  <2>2. CASE Optional(t, o)
    BY <1>1, <2>1, <2>2 DEF RuleSound
  <2>3. CASE ~ Optional(t, o)
    <3>1. n \in Rules[t][o].allowed /\ n # Rules[t][o].unset
      BY <1>1, <2>1, <2>3 DEF RuleSound
    <3> QED BY <2>3, <3>1 DEF Normalized
  <2> QED BY <2>2, <2>3
<1>3. CASE v # Rules[t][o].unset
  <2>1. CASE Optional(t, o) /\ v \in {"blank", "empty"}
    BY <1>3, <2>1 DEF Normalized
  <2>2. CASE ~ (Optional(t, o) /\ v \in {"blank", "empty"})
    BY <1>3, <2>2 DEF Normalized
  <2> QED BY <2>1, <2>2
<1> QED BY <1>2, <1>3

(* The input that was recorded for the body when the world was w, and the  *)
(* subject its job has taken.                                              *)
Recorded(w)   == Input(body.task, body.target, AskedSubject(body, w), body.payload, body.params, w)
Acceptable(w) == Buildable(body.task, body.target, AskedSubject(body, w), body.payload, body.params, w)
TakenSubject(w) ==
  IF AskedSubject(body, w) # None THEN AskedSubject(body, w)
  ELSE IF body.target = NoSource THEN None ELSE w.subject
Sendable(job, w) ==
  /\ ~ EmptyFolder(body.target, w) /\ ~ Unreadable(Resolved(body.target, w))
  /\ Buildable(body.task, body.target, job.subject, job.input, body.params, w)
Rebuilt(job, w) == Input(body.task, body.target, job.subject, job.input, body.params, w)

PostsRecord ==
  /\ DOMAIN post = Posts
  /\ \A r \in Posts : post[r] # NotBuilt =>
       post[r].input = Recorded(post[r].world) /\ Acceptable(post[r].world)
JobsRecord ==
  /\ DOMAIN made = Jobs
  /\ \A j \in Jobs : made[j] # NoJob =>
       /\ made[j].input = Recorded(made[j].world) /\ Acceptable(made[j].world)
       /\ made[j].subject = TakenSubject(made[j].world)
SentRebuilt ==
  /\ DOMAIN sent = Jobs
  /\ \A j \in Jobs : sent[j] # NotBuilt =>
       /\ made[j] # NoJob
       /\ sent[j].input = IF Sendable(made[j], sent[j].world) THEN Rebuilt(made[j], sent[j].world)
                         ELSE Refused

InputInv == body \in Bodies /\ PostsRecord /\ JobsRecord /\ SentRebuilt

LEMMA InitInputInv == InputInit => InputInv
BY DEF InputInit, InputInv, PostsRecord, JobsRecord, SentRebuilt

LEMMA BuildRecords ==
  ASSUME InputInv, NEW r \in Posts, Build(r)
  PROVE  InputInv'
<1> DEFINE input == BuildTaskInput(body.task, body.target, AskedSubject(body, world),
                                   body.payload, body.params, world)
<1>1. /\ UNCHANGED <<body, world, drift, made, sent>>
      /\ input # Refused
      /\ post' = [post EXCEPT ![r] = [kind |-> "built", input |-> input, world |-> world]]
  BY DEF Build
<1>2. input = Recorded(world) /\ Acceptable(world)
  BY <1>1 DEF BuildTaskInput, Recorded, Acceptable
<1> HIDE DEF input
<1>3. PICK i, w : i = input /\ w = world
  OBVIOUS
<1>4. /\ DOMAIN post' = Posts /\ post'[r].input = i /\ post'[r].world = w
      /\ \A o \in Posts \ {r} : post'[o] = post[o]
  BY <1>1, <1>3 DEF InputInv, PostsRecord
<1>5. PostsRecord'
  BY <1>1, <1>2, <1>3, <1>4 DEF InputInv, PostsRecord, Recorded, Acceptable
<1>6. JobsRecord'
  BY <1>1 DEF InputInv, JobsRecord, Recorded, Acceptable, TakenSubject
<1>7. SentRebuilt'
  BY <1>1 DEF InputInv, SentRebuilt, Rebuilt, Sendable
<1> QED BY <1>1, <1>5, <1>6, <1>7 DEF InputInv

LEMMA InsertRecords ==
  ASSUME InputInv, NEW r \in Posts, Insert(r)
  PROVE  InputInv'
<1>1. /\ UNCHANGED <<body, world, drift, sent>>
      /\ post[r] # NotBuilt /\ post' = [post EXCEPT ![r] = NotBuilt]
      /\ UNCHANGED made \/ Added(post[r])
  BY DEF Insert
<1>2. /\ DOMAIN post' = Posts /\ post'[r] = NotBuilt
      /\ \A o \in Posts \ {r} : post'[o] = post[o]
  BY <1>1 DEF InputInv, PostsRecord
<1>3. PostsRecord'
  BY <1>1, <1>2 DEF InputInv, PostsRecord, Recorded, Acceptable
<1>4. JobsRecord' /\ \A j \in Jobs : made[j] # NoJob => made'[j] = made[j]
  <2>1. CASE UNCHANGED made
    BY <1>1, <2>1 DEF InputInv, JobsRecord, Recorded, Acceptable, TakenSubject
  <2>2. CASE Added(post[r])
    <3>1. PICK j \in Jobs : made[j] = NoJob /\ made' = [made EXCEPT ![j] = JobOf(post[r])]
      BY <2>2 DEF Added
    <3>2. PICK p, new : p = post[r] /\ new = JobOf(post[r])
      OBVIOUS
    <3>3. new.input = p.input /\ new.world = p.world /\ new.subject = TakenSubject(p.world)
      BY <3>2 DEF JobOf, TakenSubject
    <3>4. p.input = Recorded(p.world) /\ Acceptable(p.world)
      BY <1>1, <3>2 DEF InputInv, PostsRecord
    <3>5. DOMAIN made' = Jobs /\ made'[j] = new /\ \A i \in Jobs \ {j} : made'[i] = made[i]
      BY <3>1, <3>2 DEF InputInv, JobsRecord
    <3>6. JobsRecord'
      BY <1>1, <3>3, <3>4, <3>5 DEF InputInv, JobsRecord, Recorded, Acceptable, TakenSubject
    <3> QED BY <3>1, <3>5, <3>6
  <2> QED BY <1>1, <2>1, <2>2
<1>5. SentRebuilt'
  BY <1>1, <1>4 DEF InputInv, SentRebuilt, Rebuilt, Sendable
<1> QED BY <1>1, <1>3, <1>4, <1>5 DEF InputInv

LEMMA SendRebuilds ==
  ASSUME InputInv, NEW j \in Jobs, Send(j)
  PROVE  InputInv'
<1>1. /\ UNCHANGED <<body, world, drift, post, made>> /\ made[j] # NoJob
      /\ sent' = [sent EXCEPT ![j] = [input |-> Payload(made[j]), world |-> world, kind |-> "sent"]]
  BY DEF Send
<1>2. Payload(made[j]) = IF Sendable(made[j], world) THEN Rebuilt(made[j], world) ELSE Refused
  BY DEF Payload, BuildTaskInput, Rebuilt, Sendable
<1>3. PICK i, w : i = Payload(made[j]) /\ w = world
  OBVIOUS
<1>4. /\ DOMAIN sent' = Jobs /\ sent'[j].input = i /\ sent'[j].world = w
      /\ \A o \in Jobs \ {j} : sent'[o] = sent[o]
  BY <1>1, <1>3 DEF InputInv, SentRebuilt
<1>5. SentRebuilt'
  BY <1>1, <1>2, <1>3, <1>4 DEF InputInv, SentRebuilt, Rebuilt, Sendable
<1> QED BY <1>1, <1>5 DEF InputInv, PostsRecord, JobsRecord, Recorded, Acceptable, TakenSubject

LEMMA InputInvInductive == InputInv /\ [InputNext]_inputVars => InputInv'
<1> SUFFICES ASSUME InputInv, [InputNext]_inputVars PROVE InputInv'
  OBVIOUS
<1>1. ASSUME UNCHANGED <<body, post, made, sent>> PROVE InputInv'
  BY <1>1 DEF InputInv, PostsRecord, JobsRecord, SentRebuilt, Recorded, Acceptable, TakenSubject, Rebuilt, Sendable
<1>2. ASSUME NEW r \in Posts, Build(r) \/ Insert(r) PROVE InputInv'
  BY <1>2, BuildRecords, InsertRecords
<1>3. ASSUME NEW j \in Jobs, Send(j) PROVE InputInv'
  BY <1>3, SendRebuilds
<1> QED BY <1>1, <1>2, <1>3 DEF InputNext, Change, inputVars

LEMMA InputIsNoRefusal ==
  \A t, target, subject, payload, params, w : Input(t, target, subject, payload, params, w) # Refused
<1>1. ASSUME NEW t, NEW target, NEW subject, NEW payload, NEW params, NEW w
      PROVE  Input(t, target, subject, payload, params, w).kind = "input"
  BY DEF Input
<1>2. Refused.kind = "refused"
  BY DEF Refused
<1> QED BY <1>1, <1>2

LEMMA SentAsRecorded == InputInv => SentIsRecorded
<1> SUFFICES ASSUME InputInv, NEW j \in Jobs, Sent(j)
             PROVE  LET s == sent[j].input  r == made[j].input  same == sent[j].world = made[j].world IN
               /\ \A o \in Options(body.task) :
                    s.options[o] = r.options[o] \/ (Optional(body.task, o) /\ r.options[o] \in {"empty", "unset"})
               /\ s.weak = r.weak \/ (r.weak = None /\ ~ same)
               /\ same => s.sources = r.sources /\ s.metrics = r.metrics
               /\ s.subject = r.subject \/ (body.subject = None /\ s.subject = made[j].subject)
  BY DEF SentIsRecorded
<1>1. /\ made[j] # NoJob /\ sent[j].input = Rebuilt(made[j], sent[j].world)
      /\ made[j].input = Recorded(made[j].world) /\ Acceptable(made[j].world)
      /\ made[j].subject = TakenSubject(made[j].world)
  BY DEF Sent, InputInv, SentRebuilt, JobsRecord
<1>2. body.task \in TaskNames
  BY JobInputAssumption DEF InputInv, TaskNames, Rules
<1>3. PICK t, target, subject, pay, params, w, v, s, r, job :
        /\ t = body.task /\ target = body.target /\ subject = AskedSubject(body, made[j].world)
        /\ pay = body.payload /\ params = body.params /\ w = made[j].world /\ v = sent[j].world
        /\ s = sent[j].input /\ r = made[j].input /\ job = made[j].subject
  OBVIOUS
<1>4. r = Input(t, target, subject, pay, params, w) /\ s = Input(t, target, job, r, params, v)
  BY <1>1, <1>3 DEF Recorded, Rebuilt
<1>5. ASSUME NEW o \in Options(t)
      PROVE  s.options[o] = r.options[o] \/ (Optional(t, o) /\ r.options[o] \in {"empty", "unset"})
  <2> DEFINE x == Given(t, pay.options, params)[o]
             n == Normalized(t, o, x)
  <2>1. ValidOption(t, o, x)
    BY <1>1, <1>3 DEF Acceptable, Buildable
  <2>2. r.options[o] = n
    BY <1>4 DEF Input
  <2>3. s.options[o] = Normalized(t, o, Given(t, r.options, params)[o])
    BY <1>4 DEF Input
  <2>4. \/ Optional(t, o) /\ n \in {"empty", "unset"}
        \/ n # Rules[t][o].unset /\ Normalized(t, o, n) = n
    BY <1>2, <1>3, <2>1, RecordedAgain
  <2> HIDE DEF n
  <2>5. n # Rules[t][o].unset => Given(t, r.options, params)[o] = n
    BY <2>2 DEF Given
  <2> QED BY <2>2, <2>3, <2>4, <2>5
<1>6. s.weak = r.weak \/ (r.weak = None /\ v # w)
  BY <1>4 DEF Input, WeakIn
<1>7. v = w => s.sources = r.sources /\ s.metrics = r.metrics
  BY <1>4 DEF Input, MetricsIn
<1>8. s.subject = r.subject \/ (body.subject = None /\ s.subject = job)
  <2>1. job = IF subject # None THEN subject ELSE IF target = NoSource THEN None ELSE w.subject
    BY <1>1, <1>3 DEF TakenSubject
  <2>2. subject = IF body.via = "use" THEN w.subject ELSE body.subject
    BY <1>3 DEF AskedSubject
  <2>3. s.subject = SubjectIn(t, job, r.subject) /\ r.subject = SubjectIn(t, subject, pay.subject)
    BY <1>4 DEF Input
  <2> QED BY <2>1, <2>2, <2>3 DEF SubjectIn
<1> QED BY <1>3, <1>5, <1>6, <1>7, <1>8

(* What was valid when it was recorded is valid when it is built again.    *)
LEMMA ValidAgain ==
  ASSUME NEW t \in TaskNames, NEW o \in Options(t), NEW payload, NEW params, NEW r,
         ValidOption(t, o, Given(t, payload, params)[o]),
         r[o] = Normalized(t, o, Given(t, payload, params)[o]),
         ~ (Optional(t, o) /\ payload[o] = "empty" /\ o \in Fallback /\ ~ ValidOption(t, o, params[o]))
  PROVE  ValidOption(t, o, Given(t, r, params)[o])
<1> DEFINE rule == Rules[t][o]
<1>1. PICK x, y : x = Given(t, payload, params)[o] /\ y = Given(t, r, params)[o]
  OBVIOUS
<1>2. /\ x = IF payload[o] = rule.unset /\ o \in Fallback THEN params[o] ELSE payload[o]
      /\ y = IF r[o] = rule.unset /\ o \in Fallback THEN params[o] ELSE r[o]
  BY <1>1 DEF Given
<1>3. RuleSound(t, o) /\ (x = rule.unset \/ x \in rule.allowed) /\ r[o] = Normalized(t, o, x)
  BY <1>1, RulesAreSound DEF ValidOption
<1>4. CASE Optional(t, o) /\ x \in {"unset", "empty"}
  <2>1. r[o] = "unset" /\ rule.unset = "unset"
    BY <1>3, <1>4 DEF Normalized, RuleSound
  <2>2. CASE o \in Fallback
    <3>1. y = params[o]
      BY <1>2, <2>1, <2>2
    <3>2. CASE payload[o] = "unset"
      BY <1>1, <1>2, <1>3, <2>1, <2>2, <3>1, <3>2 DEF ValidOption
    <3>3. CASE payload[o] # "unset"
      <4>1. payload[o] = "empty"
        BY <1>2, <1>4, <2>1, <3>3
      <4> QED BY <1>1, <1>4, <2>2, <3>1, <4>1
    <3> QED BY <3>2, <3>3
  <2>3. CASE o \notin Fallback
    BY <1>1, <1>2, <2>1, <2>3 DEF ValidOption
  <2> QED BY <2>2, <2>3
<1>5. CASE Optional(t, o) /\ x = "blank"
  <2>1. r[o] = "empty" /\ rule.unset = "unset" /\ "empty" \in rule.allowed
    BY <1>3, <1>5 DEF Normalized, RuleSound
  <2> QED BY <1>1, <1>2, <2>1 DEF ValidOption
<1>6. CASE ~ (Optional(t, o) /\ x \in {"unset", "empty", "blank"})
  <2>1. r[o] \in rule.allowed /\ r[o] # rule.unset
    <3>1. CASE x = rule.unset
      <4>1. ~ Optional(t, o) /\ r[o] = rule.default
        BY <1>3, <1>6, <3>1 DEF Normalized, RuleSound
      <4> QED BY <1>3, <4>1 DEF RuleSound
    <3>2. CASE x # rule.unset
      <4>1. r[o] = x
        BY <1>3, <1>6, <3>2 DEF Normalized
      <4> QED BY <1>3, <3>2, <4>1
    <3> QED BY <3>1, <3>2
  <2> QED BY <1>1, <1>2, <2>1 DEF ValidOption
<1> QED BY <1>4, <1>5, <1>6

LEMMA AcceptedIsSendable == InputInv => AcceptedCanBeSent
<1> SUFFICES ASSUME InputInv, NEW j \in Jobs, sent[j] # NotBuilt, sent[j].input = Refused,
                    sent[j].world = made[j].world,
                    Resolved(body.target, made[j].world) \cap Derived = {},
                    ~ (body.task = "rasheed" /\ EmptyFolder(body.target, made[j].world)),
                    ~ \E o \in Options(body.task) : ClearedForBad(o)
             PROVE  FALSE
  BY DEF AcceptedCanBeSent
<1>1. /\ made[j] # NoJob /\ ~ Sendable(made[j], made[j].world)
      /\ made[j].input = Recorded(made[j].world) /\ Acceptable(made[j].world)
      /\ made[j].subject = TakenSubject(made[j].world)
  BY InputIsNoRefusal DEF InputInv, SentRebuilt, JobsRecord, Rebuilt
<1>2. body.task \in TaskNames
  BY JobInputAssumption DEF InputInv, TaskNames, Rules
<1>3. PICK t, target, subject, pay, params, w, r, job :
        /\ t = body.task /\ target = body.target /\ subject = AskedSubject(body, made[j].world)
        /\ pay = body.payload /\ params = body.params /\ w = made[j].world
        /\ r = made[j].input /\ job = made[j].subject
  OBVIOUS
<1>4. r = Input(t, target, subject, pay, params, w)
  BY <1>1, <1>3 DEF Recorded
<1>5. Buildable(t, target, subject, pay, params, w)
  BY <1>1, <1>3 DEF Acceptable
<1>6. \A o \in Options(t) : ValidOption(t, o, Given(t, r.options, params)[o])
  <2>1. TAKE o \in Options(t)
  <2>2. ValidOption(t, o, Given(t, pay.options, params)[o])
    BY <1>5 DEF Buildable
  <2>3. r.options[o] = Normalized(t, o, Given(t, pay.options, params)[o])
    BY <1>4 DEF Input
  <2>4. ~ (Optional(t, o) /\ pay.options[o] = "empty" /\ o \in Fallback /\ ~ ValidOption(t, o, params[o]))
    BY <1>3 DEF ClearedForBad
  <2> QED BY <1>2, <1>3, <2>2, <2>3, <2>4, ValidAgain
<1>7. ~ EmptyFolder(target, w)
  <2>1. CASE t = "sada"
    BY <1>5, <2>1 DEF Buildable, EmptyFolder, Resolved, FirstOf
  <2>2. CASE t # "sada"
    BY <1>3, <1>5, <2>2 DEF Buildable
  <2> QED BY <2>1, <2>2
<1>8. t = "khota" => SubjectIn(t, job, r.subject) # None
  BY <1>4, <1>5 DEF Buildable, SubjectIn, Input
<1>9. Buildable(t, target, job, r, params, w)
  BY <1>5, <1>6, <1>7, <1>8 DEF Buildable
<1> QED BY <1>1, <1>3, <1>7, <1>9 DEF Sendable, Unreadable

(* A job that was accepted is not refused by its own rules when it is sent *)
(* and nothing has changed, but for what AcceptedCanBeSent lists.          *)
THEOREM AcceptedIsSent == InputSpec => []AcceptedCanBeSent
BY InitInputInv, InputInvInductive, AcceptedIsSendable, PTL DEF InputSpec

(* What is sent to the AI is what was recorded, for any request body, any  *)
(* options within or out of bounds, and whatever happens to folders,       *)
(* sources and topics between the request and the dispatch.                *)
THEOREM SentAlwaysRecorded == InputSpec => []SentIsRecorded
BY InitInputInv, InputInvInductive, SentAsRecorded, PTL DEF InputSpec

----------------------------------------------------------------------------
(* Results.  A quiz is as its questions were validated.  Of a plan the     *)
(* tasks that are kept are looked at one by one: they have a place each,   *)
(* and their minutes add up to what was used of a day.                     *)


(* A quiz that is made, of the questions that passed _validate_question.   *)
LEMMA QuizzesAreGradable ==
  ASSUME NEW job, NEW questions \in Seq(AnyQuestion), NEW quiz,
         quiz = MaterializeFahes(job, questions), quiz.type = "quiz"
  PROVE  QuizIsGradable(quiz)
<1>1. /\ Len(questions) \in 1 .. MaxQuestions /\ \A i \in DOMAIN questions : ValidQuestion(questions[i])
      /\ quiz.count = Len(questions)
      /\ quiz.questions = [order \in DOMAIN questions |->
            [i \in DOMAIN questions[order].choices |-> i - 1 = questions[order].correct]]
  BY DEF MaterializeFahes, Failed
<1>2. DOMAIN questions = 1 .. Len(questions) /\ Len(questions) \in Nat
  BY LenProperties
<1>3. PICK qs : qs = quiz.questions
  OBVIOUS
<1>4. Len(qs) = Len(questions) /\ DOMAIN qs = DOMAIN questions
  BY <1>1, <1>2, <1>3
<1>5. ASSUME NEW q \in DOMAIN questions
      PROVE  Len(qs[q]) >= 2 /\ Cardinality({i \in DOMAIN qs[q] : qs[q][i]}) = 1
  <2>1. PICK choices, correct : choices = questions[q].choices /\ correct = questions[q].correct
    OBVIOUS
  <2>2. choices \in Seq(STRING) /\ correct \in Int
    <3>1. PICK z : z = questions[q]
      OBVIOUS
    <3>2. z \in AnyQuestion
      BY <1>2, <3>1, ElementOfSeq
    <3> QED BY <2>1, <3>1, <3>2 DEF AnyQuestion
  <2>3. DOMAIN choices = 1 .. Len(choices) /\ Len(choices) \in Nat
    BY <2>2, LenProperties
  <2>4. Len(choices) \in 2 .. MaxChoices /\ correct \in 0 .. Len(choices) - 1
    BY <1>1, <2>1 DEF ValidQuestion
  <2>5. PICK row : row = qs[q]
    OBVIOUS
  <2>6. row = [i \in 1 .. Len(choices) |-> i - 1 = correct]
    BY <1>1, <1>3, <2>1, <2>3, <2>5
  <2>7. Len(row) = Len(choices)
    BY <2>3, <2>6
  <2>8. {i \in DOMAIN row : row[i]} = {correct + 1}
    <3>1. DOMAIN row = 1 .. Len(choices) /\ correct + 1 \in 1 .. Len(choices)
      BY <2>2, <2>3, <2>4, <2>6
    <3>2. \A i \in 1 .. Len(choices) : row[i] <=> i - 1 = correct
      BY <2>6, Zenon
    <3>3. \A i \in 1 .. Len(choices) : i - 1 = correct <=> i = correct + 1
      BY <2>2
    <3> QED BY <3>1, <3>2, <3>3, Zenon
  <2>9. Cardinality({correct + 1}) = 1
    BY FS_Singleton
  <2>10. Len(choices) >= 2
    BY <2>3, <2>4, AIResultAssumption
  <2> QED BY <2>5, <2>7, <2>8, <2>9, <2>10
<1>6. quiz.count = Len(qs) /\ quiz.count > 0
  BY <1>1, <1>2, <1>4
<1> QED BY <1>3, <1>4, <1>5, <1>6 DEF QuizIsGradable

(* The minutes used up: Used, which is defined by recursion, is what its   *)
(* equation says.  If not, there is a least number of tasks for which no   *)
(* function solves the equation, and the solution for one less extends.    *)

Step(minutes, limit, i, before) ==
  IF minutes[i] > 0 /\ before + minutes[i] <= limit THEN before + minutes[i] ELSE before

LEMMA UsedIs ==
  ASSUME NEW minutes \in Seq(Int), NEW limit \in Nat
  PROVE  Used(minutes, limit) = [i \in 0 .. Len(minutes) |->
           IF i = 0 THEN 0 ELSE Step(minutes, limit, i, Used(minutes, limit)[i - 1])]
<1>1. PICK n \in Nat : n = Len(minutes)
  BY LenProperties
<1> DEFINE Is(f, k) == f = [i \in 0 .. k |-> IF i = 0 THEN 0 ELSE Step(minutes, limit, i, f[i - 1])]
           B == {k \in Nat : \A f : ~ Is(f, k)}
<1>2. B = {}
  <2>1. SUFFICES ASSUME B # {} PROVE FALSE
    OBVIOUS
  <2>2. PICK k \in B : \A m \in B : k <= m
    <3> HIDE DEF B
    <3>1. B \in SUBSET Nat
      BY DEF B
    <3> QED BY <2>1, <3>1, LeastNumber
  <2>3. CASE k = 0
    <3>1. Is([i \in 0 .. 0 |-> 0], 0)
      OBVIOUS
    <3> QED BY <2>3, <3>1
  <2>4. CASE k # 0
    <3>1. k - 1 \in Nat /\ k - 1 \notin B
      <4> HIDE DEF B
      <4>1. B \subseteq Nat
        BY DEF B
      <4> QED BY <2>2, <2>4, <4>1
    <3>2. PICK f : f = [i \in 0 .. k - 1 |-> IF i = 0 THEN 0 ELSE Step(minutes, limit, i, f[i - 1])]
      BY <3>1
    <3>3. PICK g : g = [i \in 0 .. k |-> IF i = k THEN Step(minutes, limit, k, f[k - 1]) ELSE f[i]]
      OBVIOUS
    <3>4. \A i \in 0 .. k : g[i] = IF i = 0 THEN 0 ELSE Step(minutes, limit, i, g[i - 1])
      <4>1. TAKE i \in 0 .. k
      <4>2. CASE i = 0
        BY <2>4, <3>2, <3>3, <4>2
      <4>3. CASE i = k
        BY <2>4, <3>1, <3>3, <4>3
      <4>4. CASE i # 0 /\ i # k
        <5>1. i \in 0 .. k - 1 /\ i - 1 \in 0 .. k - 1 /\ i - 1 # k /\ i - 1 \in 0 .. k
          BY <4>4
        <5>2. g[i] = f[i] /\ g[i - 1] = f[i - 1]
          BY <3>3, <4>4, <5>1
        <5>3. f[i] = Step(minutes, limit, i, f[i - 1])
          BY <3>2, <4>4, <5>1
        <5> QED BY <4>4, <5>2, <5>3
      <4> QED BY <4>2, <4>3, <4>4
    <3>5. Is(g, k)
      BY <3>3, <3>4
    <3> QED BY <2>2, <3>5
  <2> QED BY <2>3, <2>4
<1>3. \E f : Is(f, n)
  <2>1. n \notin B
    BY <1>2
  <2> HIDE DEF Is
  <2> QED BY <2>1
<1>4. Used(minutes, limit) = CHOOSE f : Is(f, n)
  BY <1>1 DEF Used, Step
<1>5. Is(Used(minutes, limit), n)
  <2> HIDE DEF Is
  <2> QED BY <1>3, <1>4
<1> QED BY <1>1, <1>5

LEMMA UsedIsWithin ==
  ASSUME NEW minutes \in Seq(Int), NEW limit \in Nat
  PROVE  \A i \in 0 .. Len(minutes) : Used(minutes, limit)[i] \in 0 .. limit
<1>1. PICK n, u : n = Len(minutes) /\ n \in Nat /\ u = Used(minutes, limit)
  BY LenProperties
<1>2. u = [i \in 0 .. n |-> IF i = 0 THEN 0 ELSE Step(minutes, limit, i, u[i - 1])]
  BY <1>1, UsedIs
<1> DEFINE B == {i \in 0 .. n : u[i] \notin 0 .. limit}
<1>3. SUFFICES ASSUME B # {} PROVE FALSE
  BY <1>1
<1>4. PICK i \in B : \A j \in B : i <= j
  <2> HIDE DEF B
  <2>1. B \in SUBSET Nat
    BY DEF B
  <2> QED BY <1>3, <2>1, LeastNumber
<1>5. CASE i = 0
  BY <1>2, <1>4, <1>5
<1>6. CASE i # 0
  <2>1. i \in 1 .. n /\ i - 1 \in 0 .. n /\ i - 1 \notin B
    <3>1. i \in 0 .. n /\ n \in Nat
      BY <1>1, <1>4
    <3>2. i \in 1 .. n /\ i - 1 \in 0 .. n /\ ~ (i <= i - 1)
      <4> HIDE DEF B
      <4> QED BY <1>6, <3>1
    <3> HIDE DEF B
    <3> QED BY <1>4, <3>2
  <2>2. u[i - 1] \in 0 .. limit
    BY <2>1
  <2>3. u[i] = Step(minutes, limit, i, u[i - 1])
    BY <1>2, <1>6, <2>1
  <2>4. minutes[i] \in Int
    BY <1>1, <2>1, ElementOfSeq
  <2>5. u[i] \in 0 .. limit
    BY <2>2, <2>3, <2>4 DEF Step
  <2> QED BY <1>4, <2>5
<1> QED BY <1>5, <1>6

(* A task that is kept takes its minutes; one that is not, none.           *)
Takes(u, minutes, i) ==
  /\ minutes[i] \in Int /\ u[i] \in Nat /\ u[i - 1] \in Nat
  /\ u[i] > u[i - 1] => minutes[i] > 0 /\ u[i] = u[i - 1] + minutes[i]
  /\ ~ (u[i] > u[i - 1]) => u[i] = u[i - 1]

LEMMA UsedSteps ==
  ASSUME NEW minutes \in Seq(Int), NEW limit \in Nat, NEW i \in 1 .. Len(minutes)
  PROVE  Takes(Used(minutes, limit), minutes, i)
<1>1. PICK n, u : n = Len(minutes) /\ n \in Nat /\ u = Used(minutes, limit)
  BY LenProperties
<1>2. i \in 0 .. n /\ i - 1 \in 0 .. n /\ i # 0
  BY <1>1
<1>3. u[i] \in Nat /\ u[i - 1] \in Nat
  BY <1>1, <1>2, UsedIsWithin
<1>4. u[i] = Step(minutes, limit, i, u[i - 1])
  BY <1>1, <1>2, UsedIs
<1>5. minutes[i] \in Int
  BY ElementOfSeq
<1>6. Takes(u, minutes, i)
  BY <1>3, <1>4, <1>5 DEF Step, Takes
<1> QED BY <1>1, <1>6

(* The tasks that are kept *)

IsKept(days, start, end, limit, d, i) ==
  /\ d \in DOMAIN days /\ days[d].date \in start .. end
  /\ i \in DOMAIN days[d].minutes
  /\ Used(days[d].minutes, limit)[i] > Used(days[d].minutes, limit)[i - 1]

LEMMA DaysAre ==
  ASSUME NEW days \in Seq(AnyDay), NEW d \in DOMAIN days
  PROVE  days[d].date \in Nat /\ days[d].minutes \in Seq(Int)
<1>1. PICK z : z = days[d]
  OBVIOUS
<1>2. z \in AnyDay
  BY <1>1, LenProperties, ElementOfSeq
<1> QED BY <1>1, <1>2 DEF AnyDay

LEMMA KeptAre ==
  ASSUME NEW days \in Seq(AnyDay), NEW start, NEW end, NEW limit, NEW kept, kept = Kept(days, start, end, limit)
  PROVE  /\ IsFiniteSet(kept)
         /\ \A t \in kept : t = <<t[1], t[2]>> /\ IsKept(days, start, end, limit, t[1], t[2])
         /\ \A d, i : IsKept(days, start, end, limit, d, i) => <<d, i>> \in kept
<1>1. \A t \in kept : t = <<t[1], t[2]>> /\ IsKept(days, start, end, limit, t[1], t[2])
  <2>1. TAKE t \in kept
  <2>2. PICK d \in DOMAIN days : \E i \in DOMAIN days[d].minutes :
          t = <<d, i>> /\ IsKept(days, start, end, limit, d, i)
    BY DEF Kept, IsKept
  <2> QED BY <2>2
<1>2. \A d, i : IsKept(days, start, end, limit, d, i) => <<d, i>> \in kept
  BY DEF Kept, IsKept
<1>3. IsFiniteSet(kept)
  <2>1. PICK D : D = DOMAIN days
    OBVIOUS
  <2>2. IsFiniteSet(D)
    <3>1. D = 1 .. Len(days) /\ Len(days) \in Nat
      BY <2>1, LenProperties
    <3> QED BY <3>1, FS_Interval
  <2>3. PICK f : f = [d \in D |-> {d} \X DOMAIN days[d].minutes]
    OBVIOUS
  <2>4. PICK T : T = {f[d] : d \in D}
    OBVIOUS
  <2>5. IsFiniteSet(T)
    <3>1. f = [d \in D |-> f[d]]
      BY <2>3
    <3> QED BY <2>2, <2>4, <3>1, ImageIsFinite
  <2>6. ASSUME NEW x \in T PROVE IsFiniteSet(x)
    <3>1. PICK d \in D : x = {d} \X DOMAIN days[d].minutes
      BY <2>3, <2>4
    <3>2. days[d].minutes \in Seq(Int)
      BY <2>1, DaysAre
    <3>3. DOMAIN days[d].minutes = 1 .. Len(days[d].minutes) /\ Len(days[d].minutes) \in Nat
      BY <3>2, LenProperties
    <3>4. IsFiniteSet(DOMAIN days[d].minutes)
      BY <3>3, FS_Interval
    <3>5. IsFiniteSet({d})
      BY FS_Singleton
    <3> QED BY <3>1, <3>4, <3>5, FS_Product
  <2>7. IsFiniteSet(UNION T)
    BY <2>5, <2>6, FS_UNION
  <2>8. kept \subseteq UNION T
    <3>1. ASSUME NEW t \in kept PROVE t \in UNION T
      <4>1. PICK d, i : d = t[1] /\ i = t[2] /\ t = <<d, i>> /\ d \in D /\ i \in DOMAIN days[d].minutes
        BY <1>1, <2>1 DEF IsKept
      <4>2. t \in f[d] /\ f[d] \in T
        BY <2>3, <2>4, <4>1
      <4> QED BY <4>2
    <3> QED BY <3>1
  <2> QED BY <2>7, <2>8, FS_Subset
<1> QED BY <1>1, <1>2, <1>3

(* Two tasks of a date have two places: the later one's comes after.       *)
LEMMA PlacesDiffer ==
  ASSUME NEW days \in Seq(AnyDay), NEW start, NEW end, NEW limit, NEW kept, kept = Kept(days, start, end, limit),
         NEW t \in kept, NEW u \in kept, days[t[1]].date = days[u[1]].date,
         t[1] < u[1] \/ (t[1] = u[1] /\ t[2] < u[2])
  PROVE  Place(days, kept, t) # Place(days, kept, u)
<1> DEFINE Upto(v) == {w \in kept : /\ days[w[1]].date = days[v[1]].date
                                    /\ w[1] < v[1] \/ (w[1] = v[1] /\ w[2] <= v[2])}
<1>1. \A v \in kept : v[1] \in Nat /\ v[2] \in Nat
  <2>1. TAKE v \in kept
  <2>2. v[1] \in DOMAIN days /\ v[2] \in DOMAIN days[v[1]].minutes
    BY KeptAre DEF IsKept
  <2>3. v[1] \in Nat
    BY <2>2, LenProperties
  <2>4. PICK minutes : minutes = days[v[1]].minutes /\ minutes \in Seq(Int)
    BY <2>2, DaysAre
  <2>5. v[2] \in Nat
    BY <2>2, <2>4, LenProperties
  <2> QED BY <2>3, <2>5
<1>2. Upto(t) \subseteq Upto(u)
  BY <1>1
<1>3. u \in Upto(u) /\ u \notin Upto(t)
  BY <1>1
<1>4. IsFiniteSet(Upto(u))
  BY KeptAre, FS_Subset
<1>5. Cardinality(Upto(t)) # Cardinality(Upto(u))
  <2> HIDE DEF Upto
  <2> QED BY <1>2, <1>3, <1>4, FS_Subset
<1> QED BY <1>5 DEF Place

On(tasks, day)  == {r \in tasks : r.date = day}
Minutes(tasks)  == [r \in tasks |-> r.minutes]
TaskRows(days, kept) ==
  [t \in kept |-> [date |-> days[t[1]].date, minutes |-> days[t[1]].minutes[t[2]], order |-> Place(days, kept, t)]]

(* The minutes of a date's tasks are a total.                              *)
LEMMA MinutesAreTotal ==
  ASSUME NEW plan, IsFiniteSet(plan.tasks), NEW day
  PROVE  MinutesOn(plan, day) = Total(Minutes(plan.tasks), On(plan.tasks, day))
<1>1. PICK w, S : w = Minutes(plan.tasks) /\ S = On(plan.tasks, day)
  OBVIOUS
<1>2. IsFiniteSet(S) /\ S \subseteq plan.tasks
  <2>1. S \in SUBSET plan.tasks
    BY <1>1 DEF On
  <2> QED BY <2>1, FS_Subset
<1>3. \A t \in SUBSET S : t # {} => w[First(t)] = First(t).minutes
  <2>1. \A r \in plan.tasks : w[r] = r.minutes
    BY <1>1 DEF Minutes
  <2> QED BY <1>2, <2>1, FirstIsIn
<1> DEFINE P(g) == g = [t \in SUBSET S |-> IF t = {} THEN 0 ELSE First(t).minutes + g[t \ {First(t)}]]
<1>4. \A g : P(g) <=> IsSum(g, w, S)
  BY <1>3 DEF IsSum
<1>5. MinutesOn(plan, day) = (CHOOSE g : P(g))[S]
  BY <1>1, Zenon DEF On, MinutesOn, MapThenSumSet, MapThenFoldSet, First
<1>6. PICK g : g = CHOOSE h : P(h)
  OBVIOUS
<1>7. P(g)
  <2>1. \E h : P(h)
    BY <1>2, <1>4, SumExists
  <2> HIDE DEF P
  <2> QED BY <1>6, <2>1
<1>8. IsSum(g, w, S) /\ MinutesOn(plan, day) = g[S]
  <2>1. IsSum(g, w, S)
    BY <1>4, <1>7
  <2>2. MinutesOn(plan, day) = g[S]
    <3> HIDE DEF P
    <3> QED BY <1>5, <1>6
  <2> QED BY <2>1, <2>2
<1>9. PICK h : IsSum(h, w, S) /\ \A t \in SUBSET S : h[t] = Total(w, t)
  BY <1>2, TotalIs
<1>10. g[S] = h[S]
  BY <1>2, <1>8, <1>9, SumIsOne
<1> QED BY <1>1, <1>8, <1>9, <1>10

(* The records made of the tasks that are kept, one for each.              *)
LEMMA RecordsAre ==
  ASSUME NEW days \in Seq(AnyDay), NEW start, NEW end, NEW limit \in Nat,
         NEW kept, kept = Kept(days, start, end, limit),
         NEW g, g = TaskRows(days, kept)
  PROVE  /\ \A t \in kept : g[t].minutes \in Nat \ {0}
         /\ \A t, u \in kept : g[t].date = g[u].date /\ g[t].order = g[u].order => t = u
<1>1. ASSUME NEW t \in kept
      PROVE  /\ t = <<t[1], t[2]>> /\ t[1] \in DOMAIN days /\ days[t[1]].minutes \in Seq(Int)
             /\ t[1] \in Nat /\ t[2] \in 1 .. Len(days[t[1]].minutes) /\ t[2] \in Nat
             /\ Used(days[t[1]].minutes, limit)[t[2]] > Used(days[t[1]].minutes, limit)[t[2] - 1]
  <2>1. t = <<t[1], t[2]>> /\ IsKept(days, start, end, limit, t[1], t[2])
    BY KeptAre
  <2>2. t[1] \in DOMAIN days /\ t[1] \in Nat
    BY <2>1, LenProperties DEF IsKept
  <2>3. PICK minutes : minutes = days[t[1]].minutes /\ minutes \in Seq(Int)
    BY <2>2, DaysAre
  <2>4. t[2] \in 1 .. Len(minutes) /\ t[2] \in Nat
    BY <2>1, <2>3, LenProperties DEF IsKept
  <2> QED BY <2>1, <2>2, <2>3, <2>4 DEF IsKept
<1>2. ASSUME NEW t \in kept PROVE g[t].minutes \in Nat \ {0}
  <2>1. PICK minutes, i : minutes = days[t[1]].minutes /\ i = t[2]
    OBVIOUS
  <2>2. /\ minutes \in Seq(Int) /\ i \in 1 .. Len(minutes)
        /\ Used(minutes, limit)[i] > Used(minutes, limit)[i - 1]
    BY <1>1, <2>1
  <2>3. minutes[i] > 0 /\ minutes[i] \in Int
    BY <2>2, UsedSteps DEF Takes
  <2>4. g[t].minutes = minutes[i]
    BY <2>1 DEF TaskRows
  <2> QED BY <2>3, <2>4
<1>3. ASSUME NEW t \in kept, NEW u \in kept, g[t].date = g[u].date, g[t].order = g[u].order PROVE t = u
  <2>1. days[t[1]].date = days[u[1]].date /\ Place(days, kept, t) = Place(days, kept, u)
    BY <1>3 DEF TaskRows
  <2>2. /\ ~ (t[1] < u[1] \/ (t[1] = u[1] /\ t[2] < u[2]))
        /\ ~ (u[1] < t[1] \/ (u[1] = t[1] /\ u[2] < t[2]))
    BY <2>1, PlacesDiffer
  <2>3. PICK a, b, c, d : a = t[1] /\ b = t[2] /\ c = u[1] /\ d = u[2]
    OBVIOUS
  <2>4. {a, b, c, d} \subseteq Nat /\ t = <<a, b>> /\ u = <<c, d>>
    BY <1>1, <2>3
  <2>5. a = c /\ b = d
    BY <2>2, <2>3, <2>4
  <2> QED BY <2>4, <2>5
<1> QED BY <1>2, <1>3

(* Of a date that the output names once, the records take what was used of *)
(* its minutes, or nothing.                                                *)
LEMMA DayIsWithinLimit ==
  ASSUME NEW days \in Seq(AnyDay), NEW start, NEW end, NEW limit \in Nat,
         NEW kept, kept = Kept(days, start, end, limit),
         NEW g, g = TaskRows(days, kept),
         NEW tasks, tasks = {g[t] : t \in kept},
         NEW d \in DOMAIN days, \A e \in DOMAIN days : days[e].date = days[d].date => e = d
  PROVE  Total(Minutes(tasks), On(tasks, days[d].date)) <= limit
<1>1. PICK minutes, u, n, w :
        /\ minutes = days[d].minutes /\ minutes \in Seq(Int) /\ u = Used(minutes, limit)
        /\ n = Len(minutes) /\ n \in Nat /\ w = Minutes(tasks)
  <2>1. PICK m : m = days[d].minutes /\ m \in Seq(Int)
    BY DaysAre
  <2>2. Len(m) \in Nat
    BY <2>1, LenProperties
  <2> QED BY <2>1, <2>2
<1>2. /\ \A t \in kept : t[1] = d => t = <<d, t[2]>> /\ t[2] \in 1 .. n /\ u[t[2]] > u[t[2] - 1]
      /\ \A t \in kept : t[1] \in DOMAIN days
  <2>1. \A t \in kept : t = <<t[1], t[2]>> /\ IsKept(days, start, end, limit, t[1], t[2])
    BY KeptAre
  <2>2. DOMAIN minutes = 1 .. n
    BY <1>1, LenProperties
  <2> QED BY <1>1, <2>1, <2>2 DEF IsKept
<1>3. PICK K, r : K = {i \in 1 .. n : <<d, i>> \in kept} /\ r = [i \in K |-> g[<<d, i>>]]
  OBVIOUS
<1>4. ASSUME NEW i \in K
      PROVE  <<d, i>> \in kept /\ r[i] = g[<<d, i>>] /\ r[i] \in tasks /\ w[r[i]] = minutes[i]
  <2>1. <<d, i>> \in kept /\ r[i] = g[<<d, i>>] /\ r[i] \in tasks
    BY <1>3
  <2>2. g[<<d, i>>].minutes = minutes[i]
    BY <1>1, <2>1 DEF TaskRows
  <2> QED BY <1>1, <2>1, <2>2 DEF Minutes
<1>5. On(tasks, days[d].date) = {r[i] : i \in K}
  <2>1. ASSUME NEW x \in On(tasks, days[d].date) PROVE \E i \in K : x = r[i]
    <3>1. PICK t \in kept : x = g[t] /\ x.date = days[d].date
      BY DEF On
    <3>2. x.date = days[t[1]].date
      BY <3>1 DEF TaskRows
    <3>3. t[1] = d
      BY <1>2, <3>1, <3>2
    <3>4. t = <<d, t[2]>> /\ t[2] \in K
      BY <1>2, <1>3, <3>3
    <3> QED BY <1>4, <3>1, <3>4
  <2>2. ASSUME NEW i \in K PROVE r[i] \in On(tasks, days[d].date)
    <3>1. g[<<d, i>>].date = days[d].date
      BY <1>4 DEF TaskRows
    <3> QED BY <1>4, <3>1 DEF On
  <2> QED BY <2>1, <2>2
<1>6. \A i, j \in K : r[i] = r[j] => i = j
  <2>1. TAKE i, j \in K
  <2>2. HAVE r[i] = r[j]
  <2>3. PICK a, b : a = <<d, i>> /\ b = <<d, j>>
    OBVIOUS
  <2>4. a = b
    <3>1. a \in kept /\ b \in kept /\ g[a] = g[b]
      BY <1>4, <2>2, <2>3
    <3> QED BY <3>1, RecordsAre
  <2> QED BY <2>3, <2>4
<1>7. \A i \in 0 .. n : u[i] \in Nat /\ u[i] <= limit
  BY <1>1, UsedIsWithin
<1>8. \A i \in 1 .. n : Takes(u, minutes, i)
  BY <1>1, UsedSteps
<1>9. \A i \in K : w[r[i]] \in Nat /\ u[i] = u[i - 1] + w[r[i]]
  <2>1. TAKE i \in K
  <2>2. i \in 1 .. n /\ u[i] > u[i - 1]
    BY <1>2, <1>3, <1>4
  <2>3. minutes[i] \in Int /\ minutes[i] > 0 /\ u[i] = u[i - 1] + minutes[i]
    BY <1>8, <2>2 DEF Takes
  <2>4. w[r[i]] = minutes[i]
    BY <1>4
  <2> QED BY <2>3, <2>4
<1>10. \A i \in (1 .. n) \ K : u[i] >= u[i - 1]
  <2>1. TAKE i \in (1 .. n) \ K
  <2>2. i \in 1 .. n /\ i \in 0 .. n /\ i - 1 \in 0 .. n
    BY <1>1
  <2>3. u[i] \in Nat /\ u[i - 1] \in Nat
    BY <1>7, <2>2
  <2> QED BY <1>8, <2>2, <2>3 DEF Takes
<1>11. K \subseteq 1 .. n
  BY <1>3
<1>12. Total(w, {r[i] : i \in K}) <= u[n]
  <2>1. \A i \in 0 .. n : u[i] \in Nat
    BY <1>7
  <2>2. n \in Nat
    BY <1>1
  <2>3. AddsUp(u, n, r, K, w)
    BY <1>6, <1>9, <1>10, <1>11, <2>1, <2>2, Zenon DEF AddsUp
  <2> QED BY <2>3, AddedInSteps
<1>13. Total(w, {r[i] : i \in K}) \in Nat
  <2>1. PICK X : X = {r[i] : i \in K}
    OBVIOUS
  <2>2. IsFiniteSet(K)
    <3>1. IsFiniteSet(1 .. n)
      <4>1. 1 \in Int /\ n \in Int
        BY <1>1
      <4> QED BY <4>1, FS_Interval, Zenon
    <3> QED BY <1>11, <3>1, FS_Subset
  <2>3. r = [i \in K |-> r[i]]
    BY <1>3
  <2>4. IsFiniteSet(X)
    BY <2>1, <2>2, <2>3, ImageIsFinite
  <2>5. \A x \in X : w[x] \in Nat
    BY <1>9, <2>1
  <2>6. Total(w, X) \in Nat
    BY <2>4, <2>5, TotalIsNat
  <2> QED BY <2>1, <2>6
<1>14. u[n] \in Nat /\ u[n] <= limit
  BY <1>1, <1>7
<1>15. Total(w, {r[i] : i \in K}) <= limit
  <2>1. PICK a, b : a = Total(w, {r[i] : i \in K}) /\ b = u[n]
    OBVIOUS
  <2> QED BY <1>12, <1>13, <1>14, <2>1
<1> QED BY <1>1, <1>5, <1>15

(* A plan that is made, whatever the output says of dates and minutes.     *)
LEMMA PlansAreUsable ==
  ASSUME NEW job \in ResultJobs, NEW days \in Seq(AnyDay), NEW plan,
         plan = MaterializeKhota(job, days), plan.type = "plan"
  PROVE  PlanIsUsable(plan, days)
<1>1. PICK start, end, limit, kept :
        /\ start = IF job.start = Unknown THEN Least(Dates(days)) ELSE job.start
        /\ end = IF job.end = Unknown THEN Greatest(Dates(days)) ELSE job.end
        /\ limit = DailyLimit(job.daily) /\ kept = Kept(days, start, end, limit)
  OBVIOUS
<1>2. PICK g, tasks : g = TaskRows(days, kept) /\ tasks = {g[t] : t \in kept}
  OBVIOUS
<1>3. days # <<>> /\ ~ (start > end) /\ kept # {}
  BY <1>1 DEF MaterializeKhota, Failed
<1>4. plan = [type |-> "plan", start |-> start, end |-> end, limit |-> limit,
              tasks |-> tasks, made |-> Cardinality(kept)]
  <2>1. tasks = {[date |-> days[t[1]].date, minutes |-> days[t[1]].minutes[t[2]],
                  order |-> Place(days, kept, t)] : t \in kept}
    BY <1>2 DEF TaskRows
  <2> QED BY <1>1, <2>1 DEF MaterializeKhota, Failed
<1>5. start \in Nat /\ end \in Nat
  <2>1. PICK D : D = DOMAIN days /\ IsFiniteSet(D) /\ D # {}
    <3>1. DOMAIN days = 1 .. Len(days) /\ Len(days) \in Nat /\ Len(days) # 0
      BY <1>3, EmptySeq, LenProperties
    <3>2. IsFiniteSet(1 .. Len(days))
      BY <3>1, FS_Interval
    <3>3. 1 \in DOMAIN days
      BY <3>1
    <3> QED BY <3>1, <3>2, <3>3
  <2>2. PICK f : f = [d \in D |-> days[d].date]
    OBVIOUS
  <2>3. PICK S : S = {f[d] : d \in D}
    OBVIOUS
  <2>4. f = [d \in D |-> f[d]]
    BY <2>2
  <2>5. IsFiniteSet(S)
    BY <2>1, <2>3, <2>4, ImageIsFinite
  <2>6. S = Dates(days) /\ S # {}
    BY <2>1, <2>2, <2>3 DEF Dates
  <2>7. \A x \in S : x \in Nat
    BY <2>1, <2>2, <2>3, DaysAre
  <2>8. \E x \in S : \A y \in S : x <= y
    <3>1. S \in SUBSET Nat
      BY <2>7
    <3> QED BY <2>6, <3>1, LeastNumber
  <2>9. \E x \in S : \A y \in S : x >= y
    BY <2>5, <2>6, <2>7, GreatestNumber
  <2>10. Least(S) \in S
    BY <2>8, Zenon DEF Least
  <2>11. Greatest(S) \in S
    BY <2>9, Zenon DEF Greatest
  <2>12. job.start \in Nat /\ job.end \in Nat
    BY DEF ResultJobs
  <2> QED BY <1>1, <2>6, <2>7, <2>10, <2>11, <2>12
<1>6. limit \in Nat
  <2>1. job.daily \in Int
    BY DEF ResultJobs
  <2> QED BY <1>1, <2>1, AIResultAssumption DEF DailyLimit
<1>7. \A t \in kept : IsKept(days, start, end, limit, t[1], t[2])
  BY <1>1, KeptAre
<1>8. IsFiniteSet(kept) /\ g = [t \in kept |-> g[t]]
  BY <1>1, <1>2, KeptAre DEF TaskRows
<1>9. /\ \A t \in kept : g[t].minutes \in Nat \ {0}
      /\ \A t, u \in kept : g[t].date = g[u].date /\ g[t].order = g[u].order => t = u
  BY <1>1, <1>2, <1>6, RecordsAre
<1>10. start <= end /\ tasks # {}
  <2>1. start <= end
    BY <1>3, <1>5
  <2> QED BY <1>2, <1>3, <2>1
<1>11. \A r \in tasks : r.date \in start .. end /\ r.minutes > 0
  <2>1. TAKE r \in tasks
  <2>2. PICK t \in kept : r = g[t]
    BY <1>2
  <2>3. r.date = days[t[1]].date
    BY <1>2, <2>2 DEF TaskRows
  <2>4. days[t[1]].date \in start .. end
    BY <1>7 DEF IsKept
  <2>5. r.minutes \in Nat \ {0}
    BY <1>9, <2>2
  <2> QED BY <2>3, <2>4, <2>5
<1>12. Cardinality({<<r.date, r.order>> : r \in tasks}) = Cardinality(kept)
  <2>1. PICK f : f = [t \in kept |-> <<g[t].date, g[t].order>>]
    OBVIOUS
  <2>2. PICK S : S = {f[t] : t \in kept}
    OBVIOUS
  <2>3. f = [t \in kept |-> f[t]]
    BY <2>1
  <2>4. \A t, u \in kept : f[t] = f[u] => t = u
    BY <1>9, <2>1
  <2>5. Cardinality(S) = Cardinality(kept)
    BY <1>8, <2>2, <2>3, <2>4, ImageIsFinite
  <2>6. S = {<<r.date, r.order>> : r \in tasks}
    BY <1>2, <2>1, <2>2
  <2> QED BY <2>5, <2>6
<1>13. ASSUME NEW d \in DOMAIN days, ~ \E e \in DOMAIN days \ {d} : days[e].date = days[d].date
       PROVE  MinutesOn(plan, days[d].date) <= limit
  <2>1. \A e \in DOMAIN days : days[e].date = days[d].date => e = d
    BY <1>13
  <2>2. Total(Minutes(tasks), On(tasks, days[d].date)) <= limit
    BY <1>1, <1>2, <1>6, <2>1, DayIsWithinLimit
  <2>3. plan.tasks = tasks /\ IsFiniteSet(tasks)
    <3>1. IsFiniteSet(tasks)
      BY <1>2, <1>8, ImageIsFinite
    <3> QED BY <1>4, <3>1
  <2>4. MinutesOn(plan, days[d].date) = Total(Minutes(plan.tasks), On(plan.tasks, days[d].date))
    BY <2>3, MinutesAreTotal
  <2> QED BY <2>2, <2>3, <2>4
<1>14. plan.start = start /\ plan.end = end /\ plan.limit = limit /\ plan.tasks = tasks
       /\ plan.made = Cardinality(kept)
  BY <1>4
<1>15. \A d \in DOMAIN days : \/ MinutesOn(plan, days[d].date) <= plan.limit
                              \/ \E e \in DOMAIN days \ {d} : days[e].date = days[d].date
  BY <1>13, <1>14
<1> QED BY <1>10, <1>11, <1>12, <1>14, <1>15 DEF PlanIsUsable

(* MaterializedIsUsable for any jobs, outputs and bounds: what              *)
(* materialize_fahes, materialize_khota and materialize_sada leave behind. *)
THEOREM MaterializedStaysUsable == ResultSpec => []MaterializedIsUsable
<1> DEFINE RInv == case \in Cases /\ MaterializedIsUsable
<1>1. ResultInit => RInv
  BY DEF ResultInit, Nothing, MaterializedIsUsable
<1>2. RInv /\ [ReceiveResult]_resultVars => RInv'
  <2> SUFFICES ASSUME RInv, [ReceiveResult]_resultVars PROVE RInv'
    OBVIOUS
  <2>1. CASE UNCHANGED resultVars
    BY <2>1 DEF resultVars, MaterializedIsUsable
  <2>2. CASE ReceiveResult
    <3>1. PICK job, out, new : job = case.job /\ out = case.out /\ new = result'
      OBVIOUS
    <3>2. case' = case /\ new = MaterializeJob(job, out)
      BY <2>2, <3>1 DEF ReceiveResult
    <3>3. job \in ResultJobs /\ out \in Outputs
      BY <3>1, AIResultAssumption
    <3>4. /\ out.task = "fahes" => new = MaterializeFahes(job, out.questions) /\ out.questions \in Seq(AnyQuestion)
          /\ out.task = "khota" => new = MaterializeKhota(job, out.days) /\ out.days \in Seq(AnyDay)
          /\ out.task = "rasheed" => new = MaterializeRasheed(out.score)
          /\ out.task = "kholasa" => new = MaterializeKholasa
          /\ out.task = "sada" => /\ new = MaterializeSada(job, out.transcript, out.cleaned)
                                  /\ out.transcript \in AnyText /\ out.cleaned \in AnyText
          /\ out.task \in {"fahes", "khota", "rasheed", "kholasa", "sada"}
      BY <3>2, <3>3 DEF Outputs, MaterializeJob
    <3>5. new.type = "quiz" => QuizIsGradable(new)
      <4>1. new.type = "quiz" => out.task = "fahes"
        BY <3>4 DEF MaterializeKhota, MaterializeRasheed, MaterializeKholasa, MaterializeSada, Failed
      <4> QED BY <3>4, <4>1, QuizzesAreGradable
    <3>6. new.type = "plan" => PlanIsUsable(new, out.days)
      <4>1. new.type = "plan" => out.task = "khota"
        BY <3>4 DEF MaterializeFahes, MaterializeRasheed, MaterializeKholasa, MaterializeSada, Failed
      <4> QED BY <3>3, <3>4, <4>1, PlansAreUsable
    <3>7. new.type = "transcription" /\ out.cleaned # "blank" => new.derived
      <4>1. new.type = "transcription" => out.task = "sada"
        BY <3>4 DEF MaterializeFahes, MaterializeRasheed, MaterializeKholasa, MaterializeKhota, Failed
      <4>2. out.task = "sada" /\ new.type = "transcription" =>
              out.transcript = "text" /\ new.derived = (DerivedText(out.transcript, out.cleaned) = "text")
        BY <3>4 DEF MaterializeSada, Failed
      <4>3. out.cleaned \in AnyText /\ out.cleaned # "blank" => DerivedText("text", out.cleaned) = "text"
        BY DEF AnyText, DerivedText
      <4> QED BY <3>4, <4>1, <4>2, <4>3
    <3>8. MaterializedIsUsable'
      BY <3>1, <3>2, <3>5, <3>6, <3>7 DEF MaterializedIsUsable
    <3> QED BY <3>2, <3>8
  <2> QED BY <2>1, <2>2
<1>3. RInv => MaterializedIsUsable
  OBVIOUS
<1> QED BY <1>1, <1>2, <1>3, PTL DEF ResultSpec

=============================================================================
