------------------------------ MODULE AIResult -----------------------------
(***************************************************************************)
(* What the output of an AI job becomes (apps/ai_integration/              *)
(* materializers.py): a published quiz, a study plan, a recommendation, a  *)
(* summary, or a transcription and the text source derived from it.  Each  *)
(* materializer works in one transaction: it makes all of its rows, or     *)
(* fails (a ValidationError, or any exception) and leaves nothing.         *)
(*                                                                         *)
(* AIJob and AIWebhook say when a job completes; here is what it then      *)
(* makes of output that no code but the materializers looks at.  Dates are *)
(* numbers; of texts only what they are tested for is kept.                *)
(***************************************************************************)
EXTENDS Integers, Sequences, SequencesExt

CONSTANTS
  Cases,                          \* the jobs and outputs that are looked at
  MaxQuestions, MaxChoices,       \* 100 and 8 in the code
  MaxTasks,                       \* 500
  LeastDaily, MostDaily           \* 15 and 720 minutes

(* What the checks of the output leave of it: texts by what they are, a    *)
(* number where the code takes nothing else.                               *)
ResultJobs == [subject: BOOLEAN, source: BOOLEAN, start: Nat, end: Nat, daily: Int]
AnyQuestion == [text: STRING, type: STRING, choices: Seq(STRING), correct: Int]
AnyDay      == [date: Nat, minutes: Seq(Int)]
AnyText     == {"text", "blank", ""}
Outputs ==
  [task: {"fahes"}, questions: Seq(AnyQuestion)] \cup [task: {"khota"}, days: Seq(AnyDay)]
  \cup [task: {"rasheed"}, score: {"good", "bad"}] \cup [task: {"kholasa"}]
  \cup [task: {"sada"}, transcript: AnyText, cleaned: AnyText]

ASSUME AIResultAssumption ==
  /\ {MaxQuestions, MaxChoices, MaxTasks, LeastDaily, MostDaily} \subseteq Nat
  /\ LeastDaily <= MostDaily
  /\ Cases \subseteq [job: ResultJobs, out: Outputs]

VARIABLES
  case,       \* the job and its output
  result      \* what has become of it

resultVars == <<case, result>>

Nothing == [type |-> "nothing"]
Failed  == [type |-> "failed"]
Unknown == 0                          \* a date that is not given

ResultInit == case \in Cases /\ result = Nothing

----------------------------------------------------------------------------
(* Quizzes: a question has a text, a type, choices and the index, from 0,  *)
(* of the correct one.  Choices that differ only in case or in blanks      *)
(* around them are the same text.                                          *)

QuestionTypes == {"mcq", "true_false"}

(* Mutant: the index may point one past the choices. *)
ValidIndexOffByOne(q) ==
  /\ q.text = "fine" /\ q.type \in QuestionTypes
  /\ Len(q.choices) \in 2 .. MaxChoices
  /\ q.correct \in 0 .. Len(q.choices)
  /\ "blank" \notin ToSet(q.choices) /\ IsInjective(q.choices)

(* _validate_question *)
ValidQuestion(q) ==
  /\ q.text = "fine" /\ q.type \in QuestionTypes
  /\ Len(q.choices) \in 2 .. MaxChoices
  /\ q.correct \in 0 .. Len(q.choices) - 1
  /\ "blank" \notin ToSet(q.choices) /\ IsInjective(q.choices)

MaterializeFahes(job, questions) ==
  IF /\ job.subject
     /\ Len(questions) \in 1 .. MaxQuestions
     /\ \A i \in DOMAIN questions : ValidQuestion(questions[i])
    THEN [type |-> "quiz", status |-> "published", count |-> Len(questions),
          questions |-> [order \in DOMAIN questions |->
            [i \in DOMAIN questions[order].choices |-> i - 1 = questions[order].correct]]]
    ELSE Failed

----------------------------------------------------------------------------
(* Study plans: days, each with a date and the minutes of its tasks.       *)

DailyLimit(asked) == CASE asked < LeastDaily -> LeastDaily
                       [] asked > MostDaily  -> MostDaily
                       [] OTHER              -> asked

(* The minutes used up after each task of a day: one without minutes, or   *)
(* that does not fit any more, is passed over.                             *)
Used(minutes, limit) ==
  LET used[i \in 0 .. Len(minutes)] ==
        IF i = 0 THEN 0
        ELSE IF minutes[i] > 0 /\ used[i - 1] + minutes[i] <= limit THEN used[i - 1] + minutes[i]
        ELSE used[i - 1]
  IN used

(* The tasks of the output, by day and place in it, that are kept. *)
Kept(days, start, end, limit) ==
  UNION {{<<d, i>> : i \in {i \in DOMAIN days[d].minutes :
                              Used(days[d].minutes, limit)[i] > Used(days[d].minutes, limit)[i - 1]}} :
           d \in {d \in DOMAIN days : days[d].date \in start .. end}}

(* Mutant: the tasks are numbered within each day of the output. *)
PlaceInDay(days, kept, t) == Cardinality({u \in kept : u[1] = t[1] /\ u[2] <= t[2]})

(* per_day numbers the tasks of a date, in the order of the output.        *)
Place(days, kept, t) ==
  Cardinality({u \in kept : /\ days[u[1]].date = days[t[1]].date
                            /\ u[1] < t[1] \/ (u[1] = t[1] /\ u[2] <= t[2])})

Dates(days) == {days[d].date : d \in DOMAIN days}
Least(S)    == CHOOSE x \in S : \A y \in S : x <= y
Greatest(S) == CHOOSE x \in S : \A y \in S : x >= y

(* The dates and the daily minutes are those of the job's parameters, not  *)
(* of its input.  The row's constraint refuses an end before the start.    *)
MaterializeKhota(job, days) ==
  IF ~ job.subject \/ days = <<>> THEN Failed
  ELSE LET start == IF job.start = Unknown THEN Least(Dates(days)) ELSE job.start
           end   == IF job.end = Unknown THEN Greatest(Dates(days)) ELSE job.end
           limit == DailyLimit(job.daily)
           kept  == Kept(days, start, end, limit)
       IN  IF start > end \/ kept = {} \/ Cardinality(kept) > MaxTasks THEN Failed
           ELSE [type |-> "plan", start |-> start, end |-> end, limit |-> limit,
                 tasks |-> {[date |-> days[t[1]].date, minutes |-> days[t[1]].minutes[t[2]],
                             order |-> Place(days, kept, t)] : t \in kept}, made |-> Cardinality(kept)]

----------------------------------------------------------------------------
(* The other tasks *)

MaterializeRasheed(score) == IF score = "bad" THEN Failed ELSE [type |-> "recommendation"]
MaterializeKholasa        == [type |-> "summary"]

(* _create_derived_text_source takes the cleaned transcript, if there is   *)
(* one, be it blank.                                                       *)
DerivedText(transcript, cleaned) == IF cleaned = "" THEN transcript ELSE cleaned
MaterializeSada(job, transcript, cleaned) ==
  IF ~ job.source \/ transcript # "text" THEN Failed
  ELSE [type |-> "transcription", derived |-> DerivedText(transcript, cleaned) = "text"]

(* materialize_job *)
MaterializeJob(job, out) ==
  CASE out.task = "fahes"   -> MaterializeFahes(job, out.questions)
    [] out.task = "khota"   -> MaterializeKhota(job, out.days)
    [] out.task = "rasheed" -> MaterializeRasheed(out.score)
    [] out.task = "kholasa" -> MaterializeKholasa
    [] out.task = "sada"    -> MaterializeSada(job, out.transcript, out.cleaned)

ReceiveResult ==
  /\ result = Nothing
  /\ result' = MaterializeJob(case.job, case.out)
  /\ UNCHANGED case

ResultSpec == ResultInit /\ [][ReceiveResult]_resultVars

----------------------------------------------------------------------------
(* Properties *)

(* What publish_quiz asks of a quiz that a person publishes holds of one   *)
(* that the AI wrote: its questions, as many as it says, have choices, one *)
(* of them correct.                                                        *)
QuizIsGradable(quiz) ==
  /\ quiz.count = Len(quiz.questions) /\ quiz.count > 0
  /\ \A q \in DOMAIN quiz.questions :
       /\ Len(quiz.questions[q]) >= 2
       /\ Cardinality({i \in DOMAIN quiz.questions[q] : quiz.questions[q][i]}) = 1

(* The minutes of a date's tasks. *)
MinutesOn(plan, day) ==
  MapThenSumSet(LAMBDA t : t.minutes, {t \in plan.tasks : t.date = day})

(* What the study plan's own serializers ask of a person's plan holds of   *)
(* one that the AI wrote: it has tasks, on its own days, each in a place   *)
(* of its own; and no date asks for more than the daily minutes, unless    *)
(* the output names it twice.                                              *)
PlanIsUsable(plan, days) ==
  /\ plan.start <= plan.end /\ plan.tasks # {}
  /\ \A t \in plan.tasks : t.date \in plan.start .. plan.end /\ t.minutes > 0
  /\ Cardinality({<<t.date, t.order>> : t \in plan.tasks}) = plan.made
  /\ \A d \in DOMAIN days : \/ MinutesOn(plan, days[d].date) <= plan.limit
                            \/ \E e \in DOMAIN days \ {d} : days[e].date = days[d].date

(* What a materializer makes of any output is what a person's own quiz or  *)
(* plan would have to be to be published or saved, and a transcription     *)
(* whose cleaned text is not blank leaves a source.                        *)
MaterializedIsUsable ==
  /\ result.type = "quiz" => QuizIsGradable(result)
  /\ result.type = "plan" => PlanIsUsable(result, case.out.days)
  /\ result.type = "transcription" /\ case.out.cleaned # "blank" => result.derived

=============================================================================
