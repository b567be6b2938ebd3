--------------------------- MODULE QuizAuthoring ---------------------------
(***************************************************************************)
(* A teacher's or student's manual quizzes until they are published, and   *)
(* after (apps/quizzes/services.py, serializers.py and views.py).          *)
(*                                                                         *)
(* Every handler fetches the quiz, decides on what it fetched and writes   *)
(* later.  PATCH writes the whole quiz row back as it was fetched; the     *)
(* question count is a stored copy of the number of question rows.  A      *)
(* question is gradable when it has two choices or more, one of them       *)
(* correct; it may be added without choices.  Nothing keeps an edit and a  *)
(* publication of the same quiz apart; the history variable crossed says   *)
(* that two such requests met.  DELETE removes the row, and a PATCH that   *)
(* fetched it before inserts it again: the history variable reinserted.    *)
(***************************************************************************)
EXTENDS Integers, FiniteSets

CONSTANTS
  Quizzes,     \* quizzes of one owner
  Questions,   \* question rows that may come to be
  Requests     \* request handlers the owner keeps busy

Nowhere == "nowhere"

ASSUME AuthoringAssumption ==
  /\ IsFiniteSet(Questions) /\ Requests # {}
  /\ Nowhere \notin Quizzes \cup Questions

VARIABLES
  status,     \* Quiz.status
  count,      \* Quiz.questions_count
  home,       \* the quiz of a question, or Nowhere
  gradable,   \* the question's choices pass publish_quiz
  request,    \* what each request has read and does next
  crossed,    \* history: a publication overlapped with another request
  reinserted  \* history: quizzes inserted again and not published since

authoringVars == <<status, count, home, gradable, request, crossed, reinserted>>

Statuses  == {"draft", "published", "archived"}
NoQuiz    == "gone"     \* the row is deleted
Idle      == [op |-> "idle"]
QuizOps   == {"add", "edit", "delete", "patch", "archive", "publish", "destroy"}
Of(z)     == {q \in Questions : home[q] = z}

AuthoringTypeOK ==
  /\ status \in [Quizzes -> Statuses \cup {NoQuiz}] /\ reinserted \subseteq Quizzes
  /\ count \in [Quizzes -> 0 .. Cardinality(Questions)]
  /\ home \in [Questions -> Quizzes \cup {Nowhere}]
  /\ gradable \in [Questions -> BOOLEAN]
  /\ DOMAIN request = Requests /\ crossed \in BOOLEAN
  /\ \A r \in Requests :
       \/ request[r] = Idle
       \/ request[r] \in [op: QuizOps \cup {"recount"}, quiz: Quizzes, seen: Statuses,
                          counted: 0 .. Cardinality(Questions), question: Questions \cup {Nowhere}]

(* create_quiz makes empty drafts. *)
AuthoringInit ==
  /\ status = [z \in Quizzes |-> "draft"]
  /\ count = [z \in Quizzes |-> 0]
  /\ home = [q \in Questions |-> Nowhere]
  /\ gradable = [q \in Questions |-> FALSE]
  /\ request = [r \in Requests |-> Idle]
  /\ crossed = FALSE /\ reinserted = {}

Done(r) == request' = [request EXCEPT ![r] = Idle] /\ UNCHANGED crossed

(* get_object, or the serializer's lookup of the quiz; a question comes   *)
(* with its quiz.                                                         *)
Fetch(r, z, op, q) ==
  /\ request[r] = Idle /\ status[z] # NoQuiz
  /\ IF op \in {"edit", "delete"} THEN q # Nowhere /\ home[q] = z ELSE q = Nowhere
  /\ request' = [request EXCEPT ![r] =
       [op |-> op, quiz |-> z, seen |-> status[z], counted |-> count[z], question |-> q]]
  /\ crossed' = (crossed \/ \E o \in Requests \ {r} :
                              request[o] # Idle /\ "publish" \in {op, request[o].op})
  /\ UNCHANGED <<status, count, home, gradable, reinserted>>

----------------------------------------------------------------------------
(* Questions *)

(* Mutant: the quiz's status is not looked at. *)
EditsAny(r, op) == request[r].op = op

(* validate_quiz, perform_update, perform_destroy: only drafts are edited. *)
EditsDraft(r, op) == request[r].op = op /\ request[r].seen = "draft"

(* _sync_quiz_questions_count: the count is saved when it is not the one  *)
(* that was fetched, and the quiz is still there.                         *)
Synced(r, n) ==
  [count EXCEPT ![request[r].quiz] =
     IF request[r].counted = n \/ status[request[r].quiz] = NoQuiz THEN @ ELSE n]

(* A new row is none that a request still holds. *)
Fresh == {q \in Of(Nowhere) : \A o \in Requests : request[o] = Idle \/ request[o].question # q}

(* A question needs its quiz's row, whose key it refers to. *)
AddQuestion(r) ==
  LET z == request[r].quiz IN
  /\ EditsDraft(r, "add") /\ status[z] # NoQuiz
  /\ \E q \in Fresh, good \in BOOLEAN :
       /\ home' = [home EXCEPT ![q] = z]
       /\ gradable' = [gradable EXCEPT ![q] = good]
  /\ count' = Synced(r, Cardinality(Of(z)) + 1)
  /\ Done(r)
  /\ UNCHANGED <<status, reinserted>>

(* PATCH of a question may give it choices, which are validated, and may  *)
(* move it to another draft; neither quiz is counted again.  Saving a     *)
(* question that was deleted meanwhile inserts it, without its choices.   *)
EditQuestion(r) ==
  LET q == request[r].question IN
  /\ EditsDraft(r, "edit")
  /\ \E z \in Quizzes :
       /\ status[z] # NoQuiz /\ (z = request[r].quiz \/ status[z] = "draft")
       /\ home' = [home EXCEPT ![q] = z]
  /\ gradable' \in {gradable, [gradable EXCEPT ![q] = TRUE]}
  /\ Done(r)
  /\ UNCHANGED <<status, count, reinserted>>

(* perform_destroy deletes the question in one transaction ...            *)
DeleteQuestion(r) ==
  LET q == request[r].question IN
  /\ EditsDraft(r, "delete")
  /\ home' = [home EXCEPT ![q] = Nowhere]
  /\ gradable' = [gradable EXCEPT ![q] = FALSE]
  /\ request' = [request EXCEPT ![r].op = "recount"]
  /\ UNCHANGED <<status, count, crossed, reinserted>>

(* ... and counts the rest in another, if the process lives.              *)
CountRest(r) ==
  /\ request[r].op = "recount"
  /\ count' \in {count, Synced(r, Cardinality(Of(request[r].quiz)))}
  /\ Done(r)
  /\ UNCHANGED <<status, home, gradable, reinserted>>

----------------------------------------------------------------------------
(* Quizzes *)

(* QuizUpdateSerializer.validate *)
MayBecome(seen) ==
  CASE seen = "draft"     -> {"draft", "archived"}
    [] seen = "published" -> {"published", "archived"}
    [] OTHER              -> {}

(* update_quiz saves every column of the fetched row; a row that is gone  *)
(* is inserted again, without its questions.                              *)
PatchQuiz(r) ==
  LET z == request[r].quiz IN
  /\ request[r].op = "patch"
  /\ \E next \in MayBecome(request[r].seen) : status' = [status EXCEPT ![z] = next]
  /\ count' = [count EXCEPT ![z] = request[r].counted]
  /\ reinserted' = IF status[z] = NoQuiz THEN reinserted \cup {z} ELSE reinserted
  /\ Done(r)
  /\ UNCHANGED <<home, gradable>>

ArchiveQuiz(r) ==
  /\ request[r].op = "archive" /\ request[r].seen # "archived" /\ status[request[r].quiz] # NoQuiz
  /\ status' = [status EXCEPT ![request[r].quiz] = "archived"]
  /\ Done(r)
  /\ UNCHANGED <<count, home, gradable, reinserted>>

(* QuizViewSet.destroy: a hard delete, which takes the questions along.   *)
DeleteQuiz(r) ==
  LET z == request[r].quiz IN
  /\ request[r].op = "destroy"
  /\ status' = [status EXCEPT ![z] = NoQuiz]
  /\ count' = [count EXCEPT ![z] = 0]
  /\ home' = [q \in Questions |-> IF home[q] = z THEN Nowhere ELSE home[q]]
  /\ gradable' = [q \in Questions |-> home[q] # z /\ gradable[q]]
  /\ reinserted' = reinserted \ {z}
  /\ Done(r)

(* Mutant: the questions' choices are not looked at. *)
SomeQuestions(z) == Of(z) # {}

Publishable(z) == Of(z) # {} /\ \A q \in Of(z) : gradable[q]

(* publish_quiz does not look at the quiz's status, only finds its row.   *)
PublishQuiz(r) ==
  LET z == request[r].quiz IN
  /\ request[r].op = "publish" /\ status[z] # NoQuiz /\ Publishable(z)
  /\ status' = [status EXCEPT ![z] = "published"]
  /\ count' = Synced(r, Cardinality(Of(z)))
  /\ reinserted' = reinserted \ {z}
  /\ Done(r)
  /\ UNCHANGED <<home, gradable>>

(* A ValidationError, an error of the database, or nothing to do. *)
Refuse(r) ==
  /\ \/ request[r].op \in {"add", "edit", "delete"} /\ request[r].seen # "draft"
     \/ request[r].op = "add" /\ Fresh = {}     \* the model's bound
     \/ request[r].op \in {"add", "edit", "archive"} /\ status[request[r].quiz] = NoQuiz
     \/ request[r].op \in {"patch", "archive"} /\ request[r].seen = "archived"
     \/ request[r].op = "publish" /\ ~Publishable(request[r].quiz)
  /\ Done(r)
  /\ UNCHANGED <<status, count, home, gradable, reinserted>>

AuthoringNext ==
  \E r \in Requests :
    \/ \E z \in Quizzes, op \in QuizOps, q \in Questions \cup {Nowhere} : Fetch(r, z, op, q)
    \/ AddQuestion(r) \/ EditQuestion(r) \/ DeleteQuestion(r) \/ CountRest(r)
    \/ PatchQuiz(r) \/ ArchiveQuiz(r) \/ DeleteQuiz(r) \/ PublishQuiz(r) \/ Refuse(r)

AuthoringSpec == AuthoringInit /\ [][AuthoringNext]_authoringVars

----------------------------------------------------------------------------
(* Properties *)

(* Every question of a published quiz can be graded, as start_quiz_attempt *)
(* and _grade_answer rely on; and the quiz shows how many there are, though*)
(* moving, deleting, and requests that overlap, leave a draft's count      *)
(* behind.  Only a quiz that a PATCH inserted again after its deletion is  *)
(* published without questions.                                            *)
PublishedIsGradable ==
  crossed \/ \A z \in Quizzes \ reinserted : status[z] = "published" =>
    /\ Of(z) # {} /\ \A q \in Of(z) : gradable[q]
    /\ count[z] = Cardinality(Of(z))

(* "Published quiz content is immutable" (serializers.py:                 *)
(* QuizUpdateSerializer.validate), and attempts are graded against it:    *)
(* true of a quiz until it is deleted, its attempts with it, while no     *)
(* publication overlaps with another request.                             *)
PublishedContentIsImmutable ==
  [][crossed \/ \A z \in Quizzes \ reinserted :
       status[z] = "published" =>
         \/ status'[z] = NoQuiz
         \/ /\ Of(z)' = Of(z)
            /\ \A q \in Of(z) : gradable'[q] = gradable[q]]_authoringVars

=============================================================================
