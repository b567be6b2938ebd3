------------------------------ MODULE JobInput ------------------------------
(***************************************************************************)
(* The input of an AI job (build_task_input and its builders, create_ai_job*)
(* and build_service_payload of apps/ai_integration/services.py, and       *)
(* AIJobCreateSerializer).                                                 *)
(*                                                                         *)
(* The input is built twice: from the request, to be recorded on the job   *)
(* and to make its idempotency key, and again from the recorded input when *)
(* the job is sent to the AI service, with the sources, recommendations    *)
(* and results of that moment.  An option is a number or a text; -1 and    *)
(* "unset" stand for a key that is missing.                                *)
(***************************************************************************)
EXTENDS Integers, FiniteSets

CONSTANTS
  Bodies,         \* request bodies: [via, task, target, subject, payload, params]
  AllSources,     \* the student's sources: numbers, in the order of their ids
  Audio, Derived, \* those that are recordings, those without a file
  SourceLimit,    \* sources taken from a folder
  Posts,          \* requests with one body at a time
  MaxDrift        \* changes of the world that are explored

NoSource == 0
Folder   == -1    \* the target is the folder
None     == "none"

ASSUME JobInputAssumption ==
  /\ AllSources \subseteq Nat \ {0} /\ IsFiniteSet(AllSources)
  /\ Audio \subseteq AllSources /\ Derived \subseteq AllSources \ Audio
  /\ SourceLimit \in Nat \ {0} /\ Posts # {} /\ MaxDrift \in Nat
  /\ \A b \in Bodies : /\ b.task \in {"fahes", "kholasa", "khota", "rasheed", "sada"}
                      /\ b.target \in AllSources \cup {NoSource, Folder}

VARIABLES
  body,     \* the request body
  world,    \* what the builders read besides
  drift,    \* how often it has changed
  post,     \* the input each request has built
  made,     \* the jobs, in the order of their creation
  sent      \* what was sent for each job, or the refusal to

inputVars == <<body, world, drift, post, made, sent>>

NotBuilt == [kind |-> "not built"]
Refused  == [kind |-> "refused"]
NoJob    == [kind |-> "no job"]
Jobs     == {1, 2}

----------------------------------------------------------------------------
(* Options *)

Number(lo, hi, std) == [allowed |-> lo .. hi, default |-> std, unset |-> -1]
Choice(set, std)    == [allowed |-> set, default |-> std, unset |-> "unset"]
Text                == Choice({"text", "blank", "empty"}, "unset")
Language            == Choice({"ar", "en"}, "ar")

(* The options of each builder, their bounds and defaults: build_fahes,   *)
(* _kholasa, _khota, _rasheed and _sada_job_input.                        *)
FahesRules   == [question_count |-> Number(3, 50, 10),
                 difficulty |-> Choice({"easy", "medium", "hard"}, "unset"),
                 topic |-> Text, language |-> Language]
KholasaRules == [summary_length |-> Choice({"short", "medium", "detailed"}, "medium"),
                 instructions |-> Text, language |-> Language]
KhotaRules   == [daily_available_minutes |-> Number(20, 720, 60),
                 preferred_session_minutes |-> Number(15, 180, 45),
                 days |-> Number(0, 180, 6), language |-> Language]
RasheedRules == [learner_goal |-> Text, language |-> Language]
SadaRules    == [cleanup_level |-> Choice({"literal", "light", "educational"}, "educational"),
                 language |-> Choice({"ar", "en", "fr"}, "ar")]
Rules == [fahes |-> FahesRules, kholasa |-> KholasaRules, khota |-> KhotaRules,
          rasheed |-> RasheedRules, sada |-> SadaRules]

TaskNames  == DOMAIN Rules       \* TASK_CHARACTER
Options(t) == DOMAIN Rules[t]
Optional(t, o) == o \in {"topic", "instructions", "learner_goal", "difficulty"}

(* payload.get(key, params.get(key)), for the options that have a fallback *)
Fallback == {"question_count", "topic", "difficulty", "summary_length",
             "daily_available_minutes", "preferred_session_minutes", "days"}
Given(t, payload, params) ==
  [o \in Options(t) |-> IF payload[o] = Rules[t][o].unset /\ o \in Fallback THEN params[o] ELSE payload[o]]

ValidOption(t, o, v) == v = Rules[t][o].unset \/ v \in Rules[t][o].allowed

(* Mutant: the last day of a plan is recorded as the day after it. *)
DayAfter(t, o, v) ==
  CASE v = Rules[t][o].unset -> Rules[t][o].default
    [] o = "days" -> v + 1
    [] OTHER -> v

(* What an option is recorded as; _optional_text keeps a blank text as an *)
(* empty one and leaves an empty one out.                                 *)
Normalized(t, o, v) ==
  CASE v = Rules[t][o].unset -> Rules[t][o].default
    [] Optional(t, o) /\ v = "blank" -> "empty"
    [] Optional(t, o) /\ v = "empty" -> "unset"
    [] OTHER -> v

----------------------------------------------------------------------------
(* Sources and the rest *)

FirstOf(S, n) == {s \in S : Cardinality({o \in S : o < s}) < n}
Usable(w)     == w.members \ (w.gone \cup w.failed)

(* _resolve_sources; a deleted source leaves its job without one (SET_NULL) *)
Resolved(target, w) ==
  CASE target = Folder   -> FirstOf(Usable(w), SourceLimit)
    [] target = NoSource -> {}
    [] OTHER             -> {target} \ w.gone
EmptyFolder(target, w) == target = Folder /\ Usable(w) = {}

(* subject_id of a quiz, subject_ids of a plan: the job's subject first.  *)
SubjectIn(t, subject, named) ==
  CASE t = "fahes" -> subject
    [] t = "khota" -> IF subject # None THEN subject ELSE named
    [] OTHER       -> None

(* _latest_weak_topics, unless some are named *)
WeakIn(t, named, w) == IF t # "khota" THEN None ELSE IF named # None THEN named ELSE w.weak

(* _topic_performance and _recent_quiz_actions *)
MetricsIn(t, w) == IF t = "rasheed" THEN w.metrics ELSE 0

(* What the builders refuse: an option out of bounds, a folder without    *)
(* usable sources, a plan without subject, a transcription of no audio.   *)
Buildable(t, target, subject, payload, params, w) ==
  /\ \A o \in Options(t) : ValidOption(t, o, Given(t, payload.options, params)[o])
  /\ t \notin {"rasheed", "sada"} => ~ EmptyFolder(target, w)
  /\ t = "khota" => SubjectIn(t, subject, payload.subject) # None
  /\ t = "sada" => Resolved(target, w) # {} /\ Resolved(target, w) \subseteq Audio

Input(t, target, subject, payload, params, w) ==
  [kind    |-> "input",
   options |-> [o \in Options(t) |-> Normalized(t, o, Given(t, payload.options, params)[o])],
   sources |-> IF t = "rasheed" THEN {} ELSE Resolved(target, w),
   subject |-> SubjectIn(t, subject, payload.subject),
   weak    |-> WeakIn(t, payload.weak, w),
   metrics |-> MetricsIn(t, w)]

(* build_task_input *)
BuildTaskInput(t, target, subject, payload, params, w) ==
  IF Buildable(t, target, subject, payload, params, w)
    THEN Input(t, target, subject, payload, params, w) ELSE Refused

----------------------------------------------------------------------------
(* Requests *)

Ready(b, w) == b.target \in AllSources => b.target \notin w.gone \cup w.failed

(* AIJobCreateSerializer.validate *)
ValidRequest(b, w) ==
  /\ b.task \in {"fahes", "kholasa"} => b.target # NoSource
  /\ b.task = "sada" => b.target \in Audio
  /\ Ready(b, w)

(* use_source_with_character and use_collection_with_character: the body  *)
(* names a source or the folder, a character and nothing else.            *)
ValidUse(b, w) ==
  /\ b.target # NoSource
  /\ b.task # "rasheed" => ~ EmptyFolder(b.target, w)
  /\ b.task = "sada" => b.target \in Audio
  /\ Ready(b, w)

(* The subject create_ai_job is called with. *)
AskedSubject(b, w) == IF b.via = "use" THEN w.subject ELSE b.subject

(* validate_job_ownership *)
Owned(b, w) == b.target \in AllSources => AskedSubject(b, w) \in {None, w.subject} \/ w.subject = None

ValidBody(b, w) == Owned(b, w) /\ IF b.via = "use" THEN ValidUse(b, w) ELSE ValidRequest(b, w)

Worlds == [members: SUBSET AllSources, failed: SUBSET AllSources, gone: SUBSET AllSources,
           subject: {None, "s1", "s2"}, weak: {None, "w1", "w2"}, metrics: 0 .. MaxDrift]

InputInit ==
  /\ body \in Bodies
  /\ world \in [members: SUBSET AllSources, failed: {{}}, gone: {{}}, subject: {None, "s1"}, weak: {None}, metrics: {0}]
  /\ drift = 0
  /\ post = [r \in Posts |-> NotBuilt]
  /\ made = [j \in Jobs |-> NoJob]
  /\ sent = [j \in Jobs |-> NotBuilt]

Key(input)  == <<body.task, body.target, input, body.params>>   \* build_idempotency_key
KeyExists(k) == \E j \in Jobs : made[j] # NoJob /\ made[j].key = k

(* create_ai_job up to the look for an existing job, which would answer   *)
(* the request.                                                           *)
Build(r) ==
  LET input == BuildTaskInput(body.task, body.target, AskedSubject(body, world),
                                body.payload, body.params, world) IN
  /\ post[r] = NotBuilt /\ ValidBody(body, world)
  /\ input # Refused /\ ~ KeyExists(Key(input))
  /\ post' = [post EXCEPT ![r] = [kind |-> "built", input |-> input, world |-> world]]
  /\ UNCHANGED <<body, world, drift, made, sent>>

(* The job takes the subject of its source or folder when none is named.  *)
JobOf(p) ==
  [kind |-> "job", key |-> Key(p.input), input |-> p.input, world |-> p.world,
   subject |-> IF AskedSubject(body, p.world) # None THEN AskedSubject(body, p.world)
               ELSE IF body.target = NoSource THEN None ELSE p.world.subject]

Added(p) == \E j \in Jobs : /\ made[j] = NoJob /\ (j = 2 => made[1] # NoJob)
                           /\ made' = [made EXCEPT ![j] = JobOf(p)]

(* Mutant: the key is not unique. *)
InsertAnyway(r) ==
  /\ post[r] # NotBuilt
  /\ IF body.target \in world.gone THEN UNCHANGED made ELSE Added(post[r])
  /\ post' = [post EXCEPT ![r] = NotBuilt]
  /\ UNCHANGED <<body, world, drift, sent>>

(* The job is inserted; the constraints refuse a second one with the key, *)
(* and one whose source is gone.                                          *)
Insert(r) ==
  /\ post[r] # NotBuilt
  /\ IF KeyExists(Key(post[r].input)) \/ body.target \in world.gone
       THEN UNCHANGED made ELSE Added(post[r])
  /\ post' = [post EXCEPT ![r] = NotBuilt]
  /\ UNCHANGED <<body, world, drift, sent>>

(* content_sha256 finds no file. *)
Unreadable(S) == S \cap Derived # {}

(* build_service_payload: sources first, with the checksum of their       *)
(* files, then the input once more.                                       *)
Payload(job) ==
  IF EmptyFolder(body.target, world) \/ Unreadable(Resolved(body.target, world)) THEN Refused
  ELSE BuildTaskInput(body.task, body.target, job.subject, job.input, body.params, world)

Send(j) ==
  /\ made[j] # NoJob /\ sent[j] = NotBuilt
  /\ sent' = [sent EXCEPT ![j] = [input |-> Payload(made[j]), world |-> world, kind |-> "sent"]]
  /\ UNCHANGED <<body, world, drift, post, made>>

(* Sources are deleted, fail or join the folder, a recommendation or a    *)
(* result arrives.                                                        *)
Change ==
  /\ drift < MaxDrift /\ drift' = drift + 1
  /\ \/ \E s \in AllSources :
          \/ world' = [world EXCEPT !.gone = @ \cup {s}]
          \/ world' = [world EXCEPT !.failed = @ \cup {s}]
          \/ world' = [world EXCEPT !.members = @ \cup {s}]
     \/ \E w \in {"w1", "w2"} : world' = [world EXCEPT !.weak = w]
     \/ world' = [world EXCEPT !.metrics = @ + 1]
  /\ world' # world
  /\ UNCHANGED <<body, post, made, sent>>

InputNext ==
  \/ \E r \in Posts : Build(r) \/ Insert(r)
  \/ \E j \in Jobs : Send(j)
  \/ Change

InputSpec == InputInit /\ [][InputNext]_inputVars

----------------------------------------------------------------------------
(* Properties *)

Sent(j) == sent[j] # NotBuilt /\ sent[j].input # Refused

(* What is sent is what is recorded and what the key was made of: the      *)
(* options (but for a text that was cleared and that the parameters give   *)
(* again), named topics, and, while the world stays as it was, the sources *)
(* and numbers, and the subject unless the job has taken over its source's.*)
SentIsRecorded ==
  \A j \in Jobs : Sent(j) =>
    LET s == sent[j].input  r == made[j].input  same == sent[j].world = made[j].world IN
    /\ \A o \in Options(body.task) :
         s.options[o] = r.options[o] \/ (Optional(body.task, o) /\ r.options[o] \in {"empty", "unset"})
    /\ s.weak = r.weak \/ (r.weak = None /\ ~ same)
    /\ same => s.sources = r.sources /\ s.metrics = r.metrics
    /\ s.subject = r.subject \/ (body.subject = None /\ s.subject = made[j].subject)

(* A text that was cleared in the request's input is recorded as missing,  *)
(* and is then taken from the parameters, which were not looked at.        *)
ClearedForBad(o) ==
  /\ Optional(body.task, o) /\ body.payload.options[o] = "empty"
  /\ o \in Fallback /\ ~ ValidOption(body.task, o, body.params[o])

(* A job that was accepted can be sent, as long as its sources stay as     *)
(* they are; except with a source that a transcription left without a      *)
(* file, advice about a folder that is empty, and a text that was cleared  *)
(* for one that is too long.                                               *)
AcceptedCanBeSent ==
  \A j \in Jobs :
    sent[j] # NotBuilt /\ sent[j].input = Refused =>
      \/ sent[j].world # made[j].world
      \/ Resolved(body.target, made[j].world) \cap Derived # {}
      \/ body.task = "rasheed" /\ EmptyFolder(body.target, made[j].world)
      \/ \E o \in Options(body.task) : ClearedForBad(o)

(* One body makes one job, however often it is posted at once. *)
OneJobPerInput ==
  \A i, j \in Jobs : i # j /\ made[i] # NoJob /\ made[j] # NoJob => made[i].key # made[j].key

=============================================================================
