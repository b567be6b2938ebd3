---------------------------- MODULE QuizAttempts ----------------------------
(***************************************************************************)
(* One student's attempts at one published quiz (apps/quizzes/services.py  *)
(* and the viewsets of apps/quizzes/views.py).                             *)
(*                                                                         *)
(* A request handler fetches its row, then calls a service that decides on *)
(* what was fetched and writes in a transaction of its own.  Only          *)
(* start_quiz_attempt locks anything, and only a row that exists.  The     *)
(* steps of a request are apart where another request's commit may fall    *)
(* between them; with a single member of Requests the student's client     *)
(* waits for every answer before it asks again.                            *)
(***************************************************************************)
EXTENDS Integers, FiniteSets

CONSTANTS
  Questions,   \* the quiz's questions, each worth one point
  Requests,    \* request handlers the student keeps busy
  MaxAttempts  \* bound: attempts the student ever starts

ASSUME QuizAssumption == IsFiniteSet(Questions) /\ Questions # {}
ASSUME RequestAssumption == IsFiniteSet(Requests) /\ Requests # {}
ASSUME AttemptAssumption == MaxAttempts \in Nat

Attempts == 1 .. MaxAttempts     \* in the order of started_at

VARIABLES
  quiz,      \* Quiz.status
  status,    \* QuizAttempt.status; "absent" before the row exists
  expired,   \* the time limit and its grace are over
  answer,    \* StudentAnswer rows, as they were graded
  result,    \* the counts QuizAttempt stores when it is submitted
  request,   \* what each request has read and does next
  shared     \* history: attempts that two requests worked on at once

vars == <<quiz, status, expired, answer, result, request, shared>>

Grades     == {"right", "wrong"}
Answers    == [Questions -> Grades \cup {"none"}]
NoAnswers  == [q \in Questions |-> "none"]
Settled    == {"submitted", "abandoned"}
Counts     == [correct: Nat, wrong: Nat, unanswered: Nat]
NoResult   == [correct |-> 0, wrong |-> 0, unanswered |-> 0]   \* the defaults
Idle       == [op |-> "idle"]
AttemptOps == {"answer", "submit", "abandon"}

(* calculate_attempt_result *)
Answered(given, grade) == Cardinality({q \in Questions : given[q] = grade})
AttemptResult(given) ==
  [correct |-> Answered(given, "right"), wrong |-> Answered(given, "wrong"),
   unanswered |-> Answered(given, "none")]

(* The rows after an update_or_create of every answer given. *)
Merged(saved, given) ==
  [q \in Questions |-> IF given[q] = "none" THEN saved[q] ELSE given[q]]

(* A request between two steps: with the active attempts its query found,  *)
(* the attempt it fetched, or what it will save.                           *)
RequestStates ==
  [op: {"idle", "create"}]
  \cup [op: {"start"}, seen: SUBSET Attempts]
  \cup [op: AttemptOps, attempt: Attempts, seen: {"in_progress"} \cup Settled]
  \cup [op: {"save"}, attempt: Attempts, given: Answers, result: Counts]

Active   == {a \in Attempts : status[a] = "in_progress"}
Absent   == {a \in Attempts : status[a] = "absent"}
Holders(a) ==
  {r \in Requests : request[r].op \in AttemptOps \cup {"save"} /\ request[r].attempt = a}
Doing(S) == {r \in Requests : request[r].op \in S}

(* The active attempts that a start's query has found and that are still  *)
(* active when it holds their lock; the first of them by -started_at.     *)
Found(r)     == request[r].seen \cap Active
Latest(r, a) == a \in Found(r) /\ \A b \in Found(r) : b <= a
NextAttempt(a) == a \in Absent /\ \A b \in Absent : a <= b

TypeOK ==
  /\ quiz \in {"published", "archived"}
  /\ status \in [Attempts -> {"absent", "in_progress"} \cup Settled]
  /\ expired \in [Attempts -> BOOLEAN]
  /\ answer \in [Attempts -> Answers]
  /\ result \in [Attempts -> Counts]
  /\ request \in [Requests -> RequestStates]
  /\ shared \subseteq Attempts

Init ==
  /\ quiz = "published"
  /\ status = [a \in Attempts |-> "absent"]
  /\ expired = [a \in Attempts |-> FALSE]
  /\ answer = [a \in Attempts |-> NoAnswers]
  /\ result = [a \in Attempts |-> NoResult]
  /\ request = [r \in Requests |-> Idle]
  /\ shared = {}

Done(r) == request' = [request EXCEPT ![r] = Idle]

----------------------------------------------------------------------------
(* Starting an attempt *)

(* The view fetches the quiz and finds it published, with questions; the  *)
(* query for active attempts begins.                                      *)
Start(r) ==
  /\ request[r] = Idle
  /\ quiz = "published"
  /\ Cardinality(Absent) > Cardinality(Doing({"start", "create"}))
  /\ request' = [request EXCEPT ![r] = [op |-> "start", seen |-> Active]]
  /\ UNCHANGED <<quiz, status, expired, answer, result, shared>>

(* Mutant: an attempt is looked for, and not used. *)
NoReuse(r) ==
  /\ request[r].op = "start"
  /\ request' = [request EXCEPT ![r] = [op |-> "create"]]
  /\ UNCHANGED <<quiz, status, expired, answer, result, shared>>

(* An active attempt is locked and reused, or submitted as it is when its *)
(* time is over and replaced.  An attempt that was not there when the     *)
(* query began is neither found nor locked.                               *)
Look(r) ==
  /\ request[r].op = "start"
  /\ \/ \E a \in Attempts :
          /\ Latest(r, a) /\ ~expired[a]
          /\ Done(r) /\ UNCHANGED <<status, result, shared>>
     \/ \E a, b \in Attempts :
          /\ Latest(r, a) /\ expired[a] /\ NextAttempt(b)
          /\ status' = [status EXCEPT ![a] = "submitted", ![b] = "in_progress"]
          /\ result' = [result EXCEPT ![a] = AttemptResult(answer[a])]
          /\ shared' = IF Holders(a) = {} THEN shared ELSE shared \cup {a}
          /\ Done(r)
     \/ /\ Found(r) = {}
        /\ request' = [request EXCEPT ![r] = [op |-> "create"]]
        /\ UNCHANGED <<status, result, shared>>
  /\ UNCHANGED <<quiz, expired, answer>>

Create(r) ==
  /\ request[r].op = "create"
  /\ \E a \in Attempts : NextAttempt(a) /\ status' = [status EXCEPT ![a] = "in_progress"]
  /\ Done(r)
  /\ UNCHANGED <<quiz, expired, answer, result, shared>>

----------------------------------------------------------------------------
(* Answering, submitting and abandoning it *)

(* The view's get_object. *)
Fetch(r, a) ==
  /\ request[r] = Idle
  /\ status[a] # "absent"
  /\ \E op \in AttemptOps :
       request' = [request EXCEPT ![r] = [op |-> op, attempt |-> a, seen |-> status[a]]]
  /\ shared' = IF Holders(a) = {} THEN shared ELSE shared \cup {a}
  /\ UNCHANGED <<quiz, status, expired, answer, result>>

(* The services decide on the attempt the view fetched. *)
Accepted(r, op) == request[r].op = op /\ request[r].seen = "in_progress"

(* An answer row another transaction has written and not committed. *)
Held(a, q) ==
  \E s \in Requests :
    request[s].op = "save" /\ request[s].attempt = a /\ request[s].given[q] # "none"

(* Mutant: the fetched attempt is saved with the answer. *)
AnswerSavesAttempt(r) ==
  LET a == request[r].attempt IN
  /\ Accepted(r, "answer")
  /\ ~expired[a]
  /\ \E q \in Questions, g \in Grades : answer' = [answer EXCEPT ![a][q] = g]
  /\ status' = [status EXCEPT ![a] = request[r].seen]
  /\ Done(r)
  /\ UNCHANGED <<quiz, expired, result, shared>>

(* submit_answer *)
SubmitAnswer(r) ==
  LET a == request[r].attempt IN
  /\ Accepted(r, "answer")
  /\ ~expired[a]
  /\ \E q \in Questions, g \in Grades :
       /\ ~Held(a, q)
       /\ answer' = [answer EXCEPT ![a][q] = g]
  /\ Done(r)
  /\ UNCHANGED <<quiz, status, expired, result, shared>>

(* Mutant: the attempt is graded before the answers sent along are written. *)
GradeFirst(r) ==
  LET a == request[r].attempt IN
  /\ Accepted(r, "submit")
  /\ \E given \in Answers :
       request' = [request EXCEPT ![r] =
         [op |-> "save", attempt |-> a, given |-> given, result |-> AttemptResult(answer[a])]]
  /\ UNCHANGED <<quiz, status, expired, answer, result, shared>>

(* submit_quiz_attempt: the answers sent along, which are ignored after   *)
(* the deadline, are written and the whole attempt is graded ...          *)
Grade(r) ==
  LET a == request[r].attempt IN
  /\ Accepted(r, "submit")
  /\ \E given \in Answers :
       /\ expired[a] => given = NoAnswers
       /\ \A q \in Questions : given[q] # "none" => ~Held(a, q)
       /\ request' = [request EXCEPT ![r] =
            [op |-> "save", attempt |-> a, given |-> given,
             result |-> AttemptResult(Merged(answer[a], given))]]
  /\ UNCHANGED <<quiz, status, expired, answer, result, shared>>

(* ... and the attempt is saved, every column of it, and committed.       *)
Save(r) ==
  LET a == request[r].attempt IN
  /\ request[r].op = "save"
  /\ answer' = [answer EXCEPT ![a] = Merged(@, request[r].given)]
  /\ result' = [result EXCEPT ![a] = request[r].result]
  /\ status' = [status EXCEPT ![a] = "submitted"]
  /\ Done(r)
  /\ UNCHANGED <<quiz, expired, shared>>

(* Mutant: the attempt's status is not looked at. *)
AbandonAny(r) ==
  /\ request[r].op = "abandon"
  /\ status' = [status EXCEPT ![request[r].attempt] = "abandoned"]
  /\ Done(r)
  /\ UNCHANGED <<quiz, expired, answer, result, shared>>

AbandonAttempt(r) ==
  /\ Accepted(r, "abandon")
  /\ status' = [status EXCEPT ![request[r].attempt] = "abandoned"]
  /\ Done(r)
  /\ UNCHANGED <<quiz, expired, answer, result, shared>>

(* The service raises a ValidationError and its transaction is rolled     *)
(* back; a submission's when the deadline passes between its answers.     *)
Refuse(r) ==
  /\ request[r].op \in AttemptOps
  /\ \/ request[r].seen # "in_progress"
     \/ request[r].op \in {"answer", "submit"} /\ expired[request[r].attempt]
  /\ Done(r)
  /\ UNCHANGED <<quiz, status, expired, answer, result, shared>>

----------------------------------------------------------------------------
(* archive_quiz and publish_quiz; neither looks at attempts.              *)
ArchiveQuiz ==
  /\ quiz = "published" /\ quiz' = "archived"
  /\ UNCHANGED <<status, expired, answer, result, request, shared>>

PublishQuiz ==
  /\ quiz = "archived" /\ quiz' = "published"
  /\ UNCHANGED <<status, expired, answer, result, request, shared>>

(* All attempts have the quiz's time limit: the first started ends first. *)
TimeIsUp(a) ==
  /\ status[a] # "absent" /\ ~expired[a]
  /\ \A b \in 1 .. a - 1 : expired[b]
  /\ expired' = [expired EXCEPT ![a] = TRUE]
  /\ UNCHANGED <<quiz, status, answer, result, request, shared>>

RequestStep(r) ==
  \/ Start(r) \/ Look(r) \/ Create(r)
  \/ \E a \in Attempts : Fetch(r, a)
  \/ SubmitAnswer(r) \/ Grade(r) \/ Save(r) \/ AbandonAttempt(r) \/ Refuse(r)

Next ==
  \/ \E r \in Requests : RequestStep(r)
  \/ \E a \in Attempts : TimeIsUp(a)
  \/ ArchiveQuiz \/ PublishQuiz

Spec == Init /\ [][Next]_vars

----------------------------------------------------------------------------
(* Properties *)

(* Starts that find no attempt may each create one, and nothing else      *)
(* makes a second: a student has at most as many active attempts as       *)
(* requests at a time, whatever expires, is replaced or abandoned.        *)
ActiveAttemptsBounded == Cardinality(Active) <= Cardinality(Requests)

(* A settled attempt is never active again, however stale the request     *)
(* that writes its row, and a stored result never disappears.             *)
NeverReopened ==
  [][\A a \in Attempts :
       /\ status[a] \in Settled => status'[a] \in Settled
       /\ result[a] # NoResult => result'[a] # NoResult]_vars

(* The result stored with an attempt is that of its answers, as           *)
(* build_attempt_result_payload shows them side by side, unless two       *)
(* requests worked on it at once.                                         *)
ResultIsOfAnswers ==
  \A a \in Attempts \ shared :
    status[a] = "submitted" => result[a] = AttemptResult(answer[a])

(* Nothing settled changes unless two requests worked on it at once: not  *)
(* by a later request, nor by a start, a deadline or another attempt.     *)
SettledUnlessShared ==
  [][\A a \in Attempts \ shared' :
       status[a] \in Settled =>
         status'[a] = status[a] /\ result'[a] = result[a] /\ answer'[a] = answer[a]]_vars

(* Both: a settled attempt stays settled, and as it is unless shared.      *)
SettledStays == NeverReopened /\ SettledUnlessShared

(* "Only in-progress attempts can be abandoned" or submitted              *)
(* (services.py:260, 334): what is settled stays as it was settled.       *)
SettledIsFinal ==
  [][\A a \in Attempts :
       status[a] \in Settled => status'[a] = status[a] /\ result'[a] = result[a]]_vars

=============================================================================
