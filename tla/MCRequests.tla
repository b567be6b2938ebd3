----------------------------- MODULE MCRequests -----------------------------
(***************************************************************************)
(* Instances for TLC of eight components that share nothing with each      *)
(* other, one per behaviour, as in MCStudy: an account (its codes or its   *)
(* keys), the administrators' console, a support ticket, a feedback, the   *)
(* input of an AI job, a subscription, the projects of a user (with the    *)
(* requests about what is in them, or about the projects), and the result  *)
(* of an AI job.                                                           *)
(***************************************************************************)
EXTENDS Account, AdminConsole, Support, Feedback, JobInput, Subscription, Projects, AIResult, TLC

CONSTANTS super, support, staff     \* roles
CONSTANTS u1, u2, u3                \* administrators
CONSTANTS free, pro                 \* plans
CONSTANTS p1, p2                    \* projects

VARIABLE focus

Symmetry == Permutations(Posts) \cup Permutations(Tokens)

AllPerms == {PermissionMap[op] : op \in DOMAIN PermissionMap}
SupportPerms == {"admins.assign_roles", "admins.create", "admins.delete", "roles.create"}
SomePermSets == {{}, {"admins.assign_roles"}, {"users.update", "roles.update"}}
SeededPerms  == super :> AllPerms @@ support :> SupportPerms

(* A superuser, and a second administrator of either role. *)
Administrator(s) == [live |-> TRUE, made |-> TRUE, active |-> TRUE, super |-> s]
TwoAdmins ==
  {[account |-> u1 :> Administrator(TRUE) @@ u2 :> Administrator(FALSE) @@ u3 :> NoAdmin,
    holds   |-> u1 :> {} @@ u2 :> {r} @@ u3 :> {}] : r \in {super, support}}

(* Request bodies: every target, subject and topic with no options given,  *)
(* and every option, in the payload and in the parameters, at the values   *)
(* around its bounds.                                                      *)
Unset(t) == [o \in Options(t) |-> Rules[t][o].unset]
BodyOf(t, target, subject, named, weak, payload, params) ==
  [via |-> "jobs", task |-> t, target |-> target, subject |-> subject, params |-> params,
   payload |-> [options |-> payload, subject |-> named, weak |-> weak]]
PlainBodies ==
  {BodyOf(t, target, subject, named, weak, Unset(t), Unset(t)) :
     t \in TaskNames, target \in AllSources \cup {NoSource, Folder},
     subject \in {None, "s1"}, named \in {None, "s2"}, weak \in {None, "w1"}}
UseBodies == {[b EXCEPT !.via = "use"] : b \in {b \in PlainBodies : b.subject = None /\ b.payload.subject = None
                                                                  /\ b.payload.weak = None}}
Bound(t, o) == LET allowed == Rules[t][o].allowed
                   least   == CHOOSE x \in allowed : \A y \in allowed : x <= y
                   most    == CHOOSE x \in allowed : \A y \in allowed : x >= y
               IN  {-1, least, most, most + 1} \cup {n \in {least - 1} : n >= 0}
Numbers == {"question_count", "daily_available_minutes", "preferred_session_minutes", "days"}
Values(t, o) ==
  CASE o \in Numbers          -> Bound(t, o)
    [] Rules[t][o] = Text     -> {"unset", "text", "blank", "empty", "bad"}
    [] OTHER -> {"unset", "bad", CHOOSE v \in Rules[t][o].allowed : v # Rules[t][o].default}
OptionBodies ==
  UNION {{BodyOf(t, IF t = "sada" THEN 1 ELSE 2, "s1", None, None,
                 [Unset(t) EXCEPT ![o] = v], [Unset(t) EXCEPT ![o] = w]) :
            v \in Values(t, o), w \in Values(t, o)} :
         <<t, o>> \in UNION {{t} \X Options(t) : t \in TaskNames}}
SomeBodies   == PlainBodies \cup UseBodies \cup OptionBodies
ThreeSources == 1 .. 3

OnlyFree  == {free}
Trialing  == {"trialing"}
StillOpen == {"running"}

(* Results: every quiz of one question at the bounds, and of several; every*)
(* plan of two days, on dates around those of the job, the same twice too. *)
ResultJob(subject, source, start, end, daily) ==
  [subject |-> subject, source |-> source, start |-> start, end |-> end, daily |-> daily]
Asked(text, type, choices, correct) ==
  [text |-> text, type |-> type, choices |-> choices, correct |-> correct]
SomeChoices   == {<<>>, <<"one">>, <<"one", "two">>, <<"one", "one">>, <<"one", "blank">>,
                  <<"one", "two", "three">>, <<"one", "two", "one">>, <<"one", "two", "three", "four">>}
OneQuestion == {Asked(text, type, choices, correct) :
                    text \in {"fine", "bad"}, type \in QuestionTypes \cup {"essay"},
                    choices \in SomeChoices, correct \in -1 .. 4}
Fine == Asked("fine", "mcq", <<"one", "two">>, 1)
QuizCases ==
  {[job |-> ResultJob(subject, TRUE, Unknown, Unknown, 2), out |-> [task |-> "fahes", questions |-> qs]] :
     subject \in BOOLEAN,
     qs \in {<<>>, <<Fine, Fine>>, <<Fine, Fine, Fine>>} \cup {<<q>> : q \in OneQuestion}
          \cup {<<Fine, q>> : q \in {q \in OneQuestion : Len(q.choices) = 2}}}
SomeDays == {[date |-> d, minutes |-> m] : d \in 1 .. 3, m \in {<<>>, <<1>>, <<2, 1>>, <<1, 0, 1>>}}
PlanCases ==
  {[job |-> ResultJob(TRUE, TRUE, start, end, daily), out |-> [task |-> "khota", days |-> days]] :
     start \in {Unknown, 1, 2}, end \in {Unknown, 1, 3}, daily \in {0, 2, 3},
     days \in {<<>>} \cup {<<d>> : d \in SomeDays} \cup {<<d, e>> : d \in SomeDays, e \in SomeDays}}
OtherCases ==
  {[job |-> ResultJob(subject, source, Unknown, Unknown, 2), out |-> out] :
     subject \in BOOLEAN, source \in BOOLEAN,
     out \in [task : {"sada"}, transcript : {"text", "blank", ""}, cleaned : {"text", "blank", ""}]
          \cup [task : {"rasheed"}, score : {"good", "bad"}] \cup {[task |-> "kholasa"]}
          \cup {[task |-> "khota", days |-> <<[date |-> 1, minutes |-> <<1>>]>>]}}
SomeCases == QuizCases \cup PlanCases \cup OtherCases

----------------------------------------------------------------------------
(* Plain bodies meet every kind of folder, the others one with a recording *)
(* and a text.                                                             *)
InputFocusInit ==
  IF focus = "input"
    THEN /\ InputInit
         /\ world.members \in IF body \in PlainBodies \cup UseBodies THEN {{}, {1, 2}, ThreeSources} ELSE {{1, 2}}
    ELSE /\ body = CHOOSE b \in Bodies : TRUE
         /\ world = CHOOSE w \in [members: {{}}, failed: {{}}, gone: {{}}, subject: {None}, weak: {None}, metrics: {0}] : TRUE
         /\ drift = 0
         /\ post = [r \in Posts |-> NotBuilt]
         /\ made = [j \in Jobs |-> NoJob] /\ sent = [j \in Jobs |-> NotBuilt]

ResultFocusInit ==
  IF focus = "result" THEN ResultInit
  ELSE case = (CHOOSE c \in OtherCases : TRUE) /\ result = Nothing

(* A user who has the free plan, where there are others, is a reachable    *)
(* state too.                                                              *)
PlansFocusInit ==
  \/ SubscriptionInit
  \/ /\ focus = "plans"
     /\ tier = [p \in Tiers |-> "active"] /\ member = OnFree
     /\ planClerk = [h \in PlanClerks |-> Unoccupied]
     /\ told = [plan |-> FreeTier, canceled |-> FALSE, sure |-> TRUE]

(* The first project is p1 (they are alike); elsewhere there is no row. *)
ProjectsFocusInit ==
  IF focus \in {"rows", "projects"} THEN ProjectsInit /\ project[p1].live
  ELSE /\ project = [p \in ProjectIds |-> NotMade] /\ scope = [k \in Kinds |-> Absent]
       /\ over = [k \in Kinds |-> Alone] /\ command = NotRunning
       /\ owner = [h \in OwnerRequests |-> Resting] /\ here = TRUE /\ crossed = FALSE

RequestsInit ==
  /\ focus \in {"codes", "keys", "admin", "ticket", "feedback", "input",
               "plans", "rows", "projects", "result"}
  /\ AccountInit /\ AdminInit /\ SupportInit /\ FeedbackInit /\ InputFocusInit
  /\ PlansFocusInit /\ ProjectsFocusInit /\ ResultFocusInit
  /\ focus # "admin" => holds[u2] = {super}

AccountFocus ==
  \/ focus \in {"codes", "keys"} /\ JoinStep
  \/ focus = "codes" /\ CodeStep
  \/ focus = "keys" /\ KeyStep

(* A behaviour is followed until a request meets the command, but for what *)
(* the command then still does.                                            *)
ProjectsFocus ==
  \/ (~ crossed \/ command.read) /\ CommandStep
  \/ ~ crossed /\ focus = "rows" /\ RowRequest
  \/ ~ crossed /\ focus = "projects" /\ ProjectRequest

firstVars == <<accountVars, adminVars, supportVars, feedbackVars, inputVars>>
addedVars == <<subscriptionVars, projectsVars, resultVars>>

RequestsNext ==
  /\ UNCHANGED focus
  /\ \/ AccountFocus /\ UNCHANGED <<adminVars, supportVars, feedbackVars, inputVars, addedVars>>
     \/ focus = "admin" /\ AdminNext
        /\ UNCHANGED <<accountVars, supportVars, feedbackVars, inputVars, addedVars>>
     \/ focus = "ticket" /\ SupportNext
        /\ UNCHANGED <<accountVars, adminVars, feedbackVars, inputVars, addedVars>>
     \/ focus = "feedback" /\ FeedbackNext
        /\ UNCHANGED <<accountVars, adminVars, supportVars, inputVars, addedVars>>
     \/ focus = "input" /\ InputNext
        /\ UNCHANGED <<accountVars, adminVars, supportVars, feedbackVars, addedVars>>
     \/ focus = "plans" /\ SubscriptionNext /\ UNCHANGED <<firstVars, projectsVars, resultVars>>
     \/ focus \in {"rows", "projects"} /\ ProjectsFocus
        /\ UNCHANGED <<firstVars, subscriptionVars, resultVars>>
     \/ focus = "result" /\ ReceiveResult /\ UNCHANGED <<firstVars, subscriptionVars, projectsVars>>

=============================================================================
