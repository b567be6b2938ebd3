----------------------------- MODULE StudyProofs ----------------------------
(***************************************************************************)
(* What a student's or teacher's own material keeps to, for any number of  *)
(* handlers at a time: a published quiz, the sources with their files and  *)
(* folders, the quotas they are held to, and the progress of a study plan. *)
(***************************************************************************)
EXTENDS QuizAuthoring, Library, StudyPlan, Sums

----------------------------------------------------------------------------
(* Quizzes.  A published quiz may be edited only by a handler that fetched *)
(* it as a draft, and such a handler overlaps with the publication.  To be *)
(* inductive, this is said of a quiz that is published or that a PATCH     *)
(* will yet write back as published; not of one that is deleted, or that   *)
(* such a PATCH inserts again.                                             *)

Reading == [op: QuizOps \cup {"recount"}, quiz: Quizzes, seen: Statuses,
            counted: 0 .. Cardinality(Questions), question: Questions \cup {Nowhere}]
Pending(r) == request[r] # Idle

Publishes(r)  == Pending(r) /\ request[r].op = "publish"
WritesBack(r, z) == /\ Pending(r) /\ request[r].op = "patch" /\ request[r].quiz = z
                    /\ request[r].seen = "published"
There(z) == status[z] # NoQuiz /\ z \notin reinserted
Fixed(z) == There(z) /\ (status[z] = "published" \/ \E r \in Requests : WritesBack(r, z))

(* A publication has the quizzes to itself, with the count it fetched.     *)
PublishesAlone ==
  \A r \in Requests : Publishes(r) =>
    /\ \A o \in Requests \ {r} : request[o] = Idle
    /\ request[r].counted = count[request[r].quiz]

(* Nobody who read a draft is about to change z. *)
OutOfReach(z) ==
  \A r \in Requests :
    Pending(r) /\ request[r].op # "publish" /\ (request[r].seen = "draft" \/ request[r].op = "recount") =>
      request[r].quiz # z /\ request[r].question \notin Of(z)

Sound(z) ==
  /\ Of(z) # {} /\ \A q \in Of(z) : gradable[q]
  /\ count[z] = Cardinality(Of(z))
  /\ status[z] # "draft"
  /\ OutOfReach(z)
  /\ \A r \in Requests : WritesBack(r, z) => request[r].counted = count[z]

FixedAreSound == \A z \in Quizzes : Fixed(z) => Sound(z)

QInv == AuthoringTypeOK /\ (crossed \/ (PublishesAlone /\ FixedAreSound))

(* The number of a quiz's questions is within the bound of the counts. *)
LEMMA CountsBounded ==
  ASSUME NEW z
  PROVE  Cardinality(Of(z)) \in 0 .. Cardinality(Questions)
<1>1. IsFiniteSet(Questions) /\ Of(z) \subseteq Questions
  BY AuthoringAssumption DEF Of
<1>2. /\ IsFiniteSet(Of(z)) /\ Cardinality(Of(z)) <= Cardinality(Questions)
  BY <1>1, FS_Subset
<1> QED BY <1>1, <1>2, FS_CardinalityType

LEMMA InitQInv == AuthoringInit => QInv
<1> SUFFICES ASSUME AuthoringInit PROVE QInv
  OBVIOUS
<1>1. 0 \in 0 .. Cardinality(Questions)
  BY AuthoringAssumption, FS_CardinalityType
<1>2. AuthoringTypeOK
  BY <1>1 DEF AuthoringInit, AuthoringTypeOK, Statuses, Idle
<1>3. PublishesAlone
  BY DEF AuthoringInit, PublishesAlone, Publishes, Pending
<1>4. FixedAreSound
  BY DEF AuthoringInit, FixedAreSound, Fixed, WritesBack, Pending
<1> QED BY <1>2, <1>3, <1>4 DEF QInv

(* What a pending request is. *)
LEMMA PendingReads ==
  ASSUME AuthoringTypeOK, NEW r \in Requests, request[r].op \in QuizOps \cup {"recount"}
  PROVE  Pending(r) /\ request[r] \in Reading
BY DEF AuthoringTypeOK, Pending, Reading, Idle, QuizOps

(* The end of a request keeps the types of the others. *)
LEMMA DoneTypes ==
  ASSUME AuthoringTypeOK, NEW r \in Requests, Done(r)
  PROVE  /\ DOMAIN request' = Requests /\ crossed' \in BOOLEAN
         /\ \A o \in Requests : request'[o] = Idle \/ request'[o] \in Reading
         /\ request'[r] = Idle /\ \A o \in Requests \ {r} : request'[o] = request[o]
         /\ crossed' = crossed
BY DEF AuthoringTypeOK, Done, Reading

(* A step of a request that publishes nothing leaves no publisher.         *)
LEMMA OthersPublishNothing ==
  ASSUME PublishesAlone, NEW r \in Requests, Pending(r), ~ Publishes(r),
         \A o \in Requests \ {r} : request'[o] = request[o],
         request'[r] = Idle \/ request'[r].op = "recount"
  PROVE  PublishesAlone'
<1> SUFFICES ASSUME NEW o \in Requests, request'[o] # Idle, request'[o].op = "publish"
    PROVE  FALSE
  BY DEF PublishesAlone, Publishes, Pending
<1>1. o # r /\ request[o] = request'[o]
  OBVIOUS
<1>2. Publishes(o)
  BY <1>1 DEF Publishes, Pending
<1> QED BY <1>1, <1>2 DEF PublishesAlone, Pending

(* ... and a fixed quiz as it is, if it leaves its rows and its count.     *)
LEMMA SoundStays ==
  ASSUME AuthoringTypeOK, NEW z \in Quizzes, Sound(z), NEW r \in Requests, Pending(r), ~ Publishes(r),
         \A o \in Requests \ {r} : request'[o] = request[o],
         \/ request'[r] = Idle
         \/ request[r].seen = "draft" /\ request'[r] = [request[r] EXCEPT !.op = "recount"],
         Of(z)' = Of(z), \A q \in Of(z) : gradable[q] => gradable'[q],
         count'[z] = count[z], status'[z] # "draft"
  PROVE  Sound(z)'
<1>1. request[r] \in Reading
  BY DEF Pending, AuthoringTypeOK, Reading
<1>2. ASSUME NEW o \in Requests, request'[o] # Idle, request'[o].op # "publish",
             request'[o].seen = "draft" \/ request'[o].op = "recount"
      PROVE  request'[o].quiz # z /\ request'[o].question \notin Of(z)
  <2>1. CASE o # r
    BY <1>2, <2>1 DEF Sound, OutOfReach, Pending
  <2>2. CASE o = r
    <3>1. /\ request'[r].seen = request[r].seen /\ request'[r].quiz = request[r].quiz
          /\ request'[r].question = request[r].question
      BY <1>1, <1>2, <2>2 DEF Reading
    <3> QED BY <1>2, <2>2, <3>1 DEF Sound, OutOfReach, Pending, Publishes
  <2> QED BY <2>1, <2>2
<1>3. ASSUME NEW o \in Requests, request'[o] # Idle, request'[o].op = "patch", request'[o].quiz = z,
             request'[o].seen = "published"
      PROVE  request'[o].counted = count'[z]
  <2>1. o # r
    BY <1>1, <1>3 DEF Reading
  <2> QED BY <1>3, <2>1 DEF Sound, WritesBack, Pending
<1>4. OutOfReach(z)'
  BY <1>2 DEF OutOfReach, Pending
<1> QED BY <1>3, <1>4 DEF Sound, WritesBack, Pending

(* A quiz is fixed by a publication only, or by a PATCH that fetched it so. *)
LEMMA NotNewlyFixed ==
  ASSUME NEW z \in Quizzes, Fixed(z)', NEW r \in Requests,
         \A o \in Requests \ {r} : request'[o] = request[o],
         request'[r] = Idle \/ request'[r].op = "recount",
         There(z)' => There(z), status'[z] = "published" => status[z] = "published" \/ WritesBack(r, z)
  PROVE  Fixed(z)
BY DEF Fixed, WritesBack, Pending

LEMMA FetchKeeps ==
  ASSUME QInv, NEW r \in Requests, NEW z \in Quizzes, NEW op \in QuizOps,
         NEW q \in Questions \cup {Nowhere}, Fetch(r, z, op, q)
  PROVE  QInv'
<1> DEFINE reads == [op |-> op, quiz |-> z, seen |-> status[z], counted |-> count[z], question |-> q]
<1>1. /\ request[r] = Idle /\ request' = [request EXCEPT ![r] = reads]
      /\ UNCHANGED <<status, count, home, gradable, reinserted>> /\ status[z] # NoQuiz
      /\ IF op \in {"edit", "delete"} THEN q # Nowhere /\ home[q] = z ELSE q = Nowhere
  BY DEF Fetch
<1>2. DOMAIN request = Requests /\ reads \in Reading /\ reads # Idle
  BY <1>1 DEF QInv, AuthoringTypeOK, Reading, Idle
<1>3. /\ request'[r] = reads /\ \A o \in Requests \ {r} : request'[o] = request[o]
      /\ DOMAIN request' = Requests
  BY <1>1, <1>2
<1>4. crossed' \in BOOLEAN
  BY DEF Fetch
<1>5. AuthoringTypeOK'
  <2>1. \A o \in Requests : request'[o] = Idle \/ request'[o] \in Reading
    BY <1>2, <1>3 DEF QInv, AuthoringTypeOK, Reading
  <2> QED BY <1>1, <1>3, <1>4, <2>1 DEF QInv, AuthoringTypeOK, Reading
<1>6. ASSUME ~ crossed' PROVE PublishesAlone' /\ FixedAreSound'
  <2>1. /\ ~ crossed
        /\ \A o \in Requests \ {r} : request[o] # Idle => op # "publish" /\ request[o].op # "publish"
    BY <1>6 DEF Fetch
  <2>2. PublishesAlone'
    <3>1. ASSUME NEW o \in Requests, request'[o] # Idle, request'[o].op = "publish"
          PROVE  /\ \A p \in Requests \ {o} : request'[p] = Idle
                 /\ request'[o].counted = count'[request'[o].quiz]
      <4>1. o = r /\ op = "publish"
        BY <1>3, <2>1, <3>1
      <4> QED BY <1>1, <1>3, <2>1, <4>1
    <3> QED BY <3>1 DEF PublishesAlone, Publishes, Pending
  <2>3. ASSUME NEW y \in Quizzes, Fixed(y)' PROVE Sound(y)'
    <3>1. Fixed(y)
      <4>0. There(y)
        BY <1>1, <2>3 DEF Fixed, There
      <4>1. status'[y] = "published" => Fixed(y)
        BY <1>1, <4>0 DEF Fixed
      <4>2. ASSUME NEW o \in Requests, WritesBack(o, y)' PROVE Fixed(y)
        BY <1>1, <1>3, <4>0, <4>2 DEF WritesBack, Pending, Fixed
      <4> QED BY <2>3, <4>1, <4>2 DEF Fixed
    <3>2. Sound(y)
      BY <2>1, <3>1 DEF QInv, FixedAreSound
    <3>3. Of(y)' = Of(y)
      BY <1>1 DEF Of
    <3>4. ASSUME NEW o \in Requests, request'[o] # Idle, request'[o].op # "publish",
                 request'[o].seen = "draft" \/ request'[o].op = "recount"
          PROVE  request'[o].quiz # y /\ request'[o].question \notin Of(y)
      <4>1. CASE o # r
        BY <1>3, <3>2, <3>4, <4>1 DEF Sound, OutOfReach, Pending
      <4>2. CASE o = r
        <5>1. status[z] = "draft" /\ z # y
          BY <1>3, <3>2, <3>4, <4>2 DEF Sound, QuizOps
        <5>2. q \notin Of(y)
          BY <1>1, <5>1, AuthoringAssumption DEF Of
        <5> QED BY <1>3, <4>2, <5>1, <5>2
      <4> QED BY <4>1, <4>2
    <3>5. ASSUME NEW o \in Requests, WritesBack(o, y)'
          PROVE  request'[o].counted = count'[y]
      BY <1>1, <1>3, <3>2, <3>5 DEF Sound, WritesBack, Pending
    <3>6. OutOfReach(y)'
      BY <3>3, <3>4 DEF OutOfReach, Pending
    <3> QED BY <1>1, <3>2, <3>3, <3>5, <3>6 DEF Sound
  <2> QED BY <2>2, <2>3 DEF FixedAreSound
<1> QED BY <1>5, <1>6 DEF QInv

(* Questions are added, changed and deleted by those who read a draft.     *)
LEMMA AddKeeps ==
  ASSUME QInv, NEW r \in Requests, AddQuestion(r)
  PROVE  QInv'
<1>1. /\ request[r].op = "add" /\ request[r].seen = "draft" /\ Done(r) /\ UNCHANGED <<status, reinserted>>
      /\ AuthoringTypeOK
  BY DEF AddQuestion, EditsDraft, QInv
<1>2. Pending(r) /\ request[r] \in Reading /\ ~ Publishes(r)
  BY <1>1, PendingReads DEF QuizOps, Publishes
<1>3. PICK q \in Fresh, good \in BOOLEAN :
        /\ home' = [home EXCEPT ![q] = request[r].quiz]
        /\ gradable' = [gradable EXCEPT ![q] = good]
  BY DEF AddQuestion
<1>4. q \in Questions /\ home[q] = Nowhere /\ request[r].quiz \in Quizzes
  BY <1>2 DEF Fresh, Of, Reading
<1>5. count' = [count EXCEPT ![request[r].quiz] =
                  IF request[r].counted = Cardinality(Of(request[r].quiz)) + 1
                       \/ status[request[r].quiz] = NoQuiz THEN @
                  ELSE Cardinality(Of(request[r].quiz)) + 1]
  BY DEF AddQuestion, Synced
<1>6. Cardinality(Of(request[r].quiz)) + 1 \in 0 .. Cardinality(Questions)
  <2> DEFINE Y == Of(request[r].quiz)
  <2>1. q \notin Y /\ Y \cup {q} \subseteq Questions /\ IsFiniteSet(Questions)
    BY <1>4, AuthoringAssumption DEF Of
  <2>2. IsFiniteSet(Y) /\ Cardinality(Y) \in Nat
    BY <2>1, FS_Subset, FS_CardinalityType
  <2> HIDE DEF Y
  <2>3. Cardinality(Y \cup {q}) = Cardinality(Y) + 1
    BY <2>1, <2>2, FS_AddElement
  <2>4. Cardinality(Y \cup {q}) <= Cardinality(Questions) /\ Cardinality(Questions) \in Nat
    BY <2>1, FS_Subset, FS_CardinalityType
  <2> QED BY <2>2, <2>3, <2>4 DEF Y
<1>7. AuthoringTypeOK'
  BY <1>1, <1>3, <1>4, <1>5, <1>6, DoneTypes DEF AuthoringTypeOK, Reading
<1>8. ASSUME ~ crossed' PROVE PublishesAlone' /\ FixedAreSound'
  <2>1. ~ crossed /\ PublishesAlone /\ FixedAreSound
    BY <1>1, <1>8, DoneTypes DEF QInv
  <2>2. PublishesAlone'
    BY <1>1, <1>2, <2>1, DoneTypes, OthersPublishNothing
  <2>3. ASSUME NEW z \in Quizzes, Fixed(z)' PROVE Sound(z)'
    <3>1. Sound(z)
      BY <1>1, <2>1, <2>3, DoneTypes, NotNewlyFixed DEF FixedAreSound, There
    <3>2. request[r].quiz # z /\ z # Nowhere
      BY <1>1, <1>2, <3>1, AuthoringAssumption DEF Sound, OutOfReach
    <3>3. Of(z)' = Of(z) /\ \A p \in Of(z) : gradable'[p] = gradable[p]
      BY <1>3, <1>4, <3>2, <1>1 DEF Of, AuthoringTypeOK
    <3>4. count'[z] = count[z] /\ status'[z] # "draft"
      BY <1>1, <1>5, <3>1, <3>2 DEF AuthoringTypeOK, Sound
    <3> QED BY <1>1, <1>2, <3>1, <3>3, <3>4, DoneTypes, SoundStays
  <2> QED BY <2>2, <2>3 DEF FixedAreSound
<1> QED BY <1>7, <1>8 DEF QInv

LEMMA EditKeeps ==
  ASSUME QInv, NEW r \in Requests, EditQuestion(r)
  PROVE  QInv'
<1>1. /\ request[r].op = "edit" /\ request[r].seen = "draft" /\ Done(r) /\ UNCHANGED <<status, count, reinserted>>
      /\ AuthoringTypeOK
  BY DEF EditQuestion, EditsDraft, QInv
<1>2. Pending(r) /\ request[r] \in Reading /\ ~ Publishes(r)
  BY <1>1, PendingReads DEF QuizOps, Publishes
<1> DEFINE q == request[r].question
<1>3. PICK y \in Quizzes : /\ y = request[r].quiz \/ status[y] = "draft"
                           /\ home' = [home EXCEPT ![q] = y]
  BY DEF EditQuestion
<1>4. gradable' \in {gradable, [gradable EXCEPT ![q] = TRUE]}
  BY DEF EditQuestion
<1>5. AuthoringTypeOK'
  <2>1. home' \in [Questions -> Quizzes \cup {Nowhere}] /\ gradable' \in [Questions -> BOOLEAN]
    BY <1>1, <1>3, <1>4 DEF AuthoringTypeOK
  <2> QED BY <1>1, <2>1, DoneTypes DEF AuthoringTypeOK, Reading
<1>6. ASSUME ~ crossed' PROVE PublishesAlone' /\ FixedAreSound'
  <2>1. ~ crossed /\ PublishesAlone /\ FixedAreSound
    BY <1>1, <1>6, DoneTypes DEF QInv
  <2>2. PublishesAlone'
    BY <1>1, <1>2, <2>1, DoneTypes, OthersPublishNothing
  <2>3. ASSUME NEW z \in Quizzes, Fixed(z)' PROVE Sound(z)'
    <3>1. Sound(z)
      BY <1>1, <2>1, <2>3, DoneTypes, NotNewlyFixed DEF FixedAreSound, There
    <3>2. y # z /\ q \notin Of(z)
      BY <1>1, <1>2, <1>3, <3>1 DEF Sound, OutOfReach
    <3>3. Of(z)' = Of(z) /\ \A p \in Of(z) : gradable'[p] = gradable[p]
      BY <1>1, <1>3, <1>4, <3>2 DEF Of, AuthoringTypeOK
    <3>4. count'[z] = count[z] /\ status'[z] # "draft"
      BY <1>1, <3>1 DEF Sound
    <3> QED BY <1>1, <1>2, <3>1, <3>3, <3>4, DoneTypes, SoundStays
  <2> QED BY <2>2, <2>3 DEF FixedAreSound
<1> QED BY <1>5, <1>6 DEF QInv

LEMMA DeleteKeeps ==
  ASSUME QInv, NEW r \in Requests, DeleteQuestion(r)
  PROVE  QInv'
<1> DEFINE q == request[r].question
<1>1. /\ request[r].op = "delete" /\ request[r].seen = "draft" /\ UNCHANGED <<status, count, crossed, reinserted>>
      /\ home' = [home EXCEPT ![q] = Nowhere] /\ gradable' = [gradable EXCEPT ![q] = FALSE]
      /\ request' = [request EXCEPT ![r].op = "recount"]
      /\ AuthoringTypeOK
  BY DEF DeleteQuestion, EditsDraft, QInv
<1>2. Pending(r) /\ request[r] \in Reading /\ ~ Publishes(r)
  BY <1>1, PendingReads DEF QuizOps, Publishes
<1>3. /\ DOMAIN request' = Requests /\ \A o \in Requests \ {r} : request'[o] = request[o]
      /\ request'[r] = [request[r] EXCEPT !.op = "recount"]
  BY <1>1 DEF AuthoringTypeOK
<1>4. request'[r] \in Reading /\ request'[r].op = "recount"
  BY <1>2, <1>3 DEF Reading
<1>5. AuthoringTypeOK'
  <2>1. \A o \in Requests : request'[o] = Idle \/ request'[o] \in Reading
    BY <1>1, <1>3, <1>4 DEF AuthoringTypeOK, Reading
  <2>2. home' \in [Questions -> Quizzes \cup {Nowhere}] /\ gradable' \in [Questions -> BOOLEAN]
    BY <1>1 DEF AuthoringTypeOK
  <2> QED BY <1>1, <1>3, <2>1, <2>2 DEF AuthoringTypeOK, Reading
<1>6. ASSUME ~ crossed' PROVE PublishesAlone' /\ FixedAreSound'
  <2>1. ~ crossed /\ PublishesAlone /\ FixedAreSound
    BY <1>1, <1>6 DEF QInv
  <2>2. PublishesAlone'
    BY <1>2, <1>3, <1>4, <2>1, OthersPublishNothing
  <2>3. ASSUME NEW z \in Quizzes, Fixed(z)' PROVE Sound(z)'
    <3>1. Sound(z)
      BY <1>1, <1>3, <1>4, <2>1, <2>3, NotNewlyFixed DEF FixedAreSound, There
    <3>2. q \notin Of(z) /\ z # Nowhere
      BY <1>1, <1>2, <3>1, AuthoringAssumption DEF Sound, OutOfReach
    <3>3. Of(z)' = Of(z) /\ \A p \in Of(z) : gradable'[p] = gradable[p]
      BY <1>1, <3>2 DEF Of, AuthoringTypeOK
    <3>4. count'[z] = count[z] /\ status'[z] # "draft"
      BY <1>1, <3>1 DEF Sound
    <3> QED BY <1>1, <1>2, <1>3, <3>1, <3>3, <3>4, SoundStays
  <2> QED BY <2>2, <2>3 DEF FixedAreSound
<1> QED BY <1>5, <1>6 DEF QInv

LEMMA CountRestKeeps ==
  ASSUME QInv, NEW r \in Requests, CountRest(r)
  PROVE  QInv'
<1>1. /\ request[r].op = "recount" /\ Done(r) /\ UNCHANGED <<status, home, gradable, reinserted>>
      /\ AuthoringTypeOK
  BY DEF CountRest, QInv
<1>2. Pending(r) /\ request[r] \in Reading /\ ~ Publishes(r)
  BY <1>1, PendingReads DEF Publishes
<1>3. \/ count' = count
      \/ count' = [count EXCEPT ![request[r].quiz] =
                     IF request[r].counted = Cardinality(Of(request[r].quiz))
                          \/ status[request[r].quiz] = NoQuiz THEN @
                     ELSE Cardinality(Of(request[r].quiz))]
  BY DEF CountRest, Synced
<1>4. AuthoringTypeOK'
  <2>1. Cardinality(Of(request[r].quiz)) \in 0 .. Cardinality(Questions)
    BY CountsBounded
  <2>2. count' \in [Quizzes -> 0 .. Cardinality(Questions)]
    BY <1>1, <1>3, <2>1 DEF AuthoringTypeOK
  <2> QED BY <1>1, <2>2, DoneTypes DEF AuthoringTypeOK, Reading
<1>5. ASSUME ~ crossed' PROVE PublishesAlone' /\ FixedAreSound'
  <2>1. ~ crossed /\ PublishesAlone /\ FixedAreSound
    BY <1>1, <1>5, DoneTypes DEF QInv
  <2>2. PublishesAlone'
    BY <1>1, <1>2, <2>1, DoneTypes, OthersPublishNothing
  <2>3. ASSUME NEW z \in Quizzes, Fixed(z)' PROVE Sound(z)'
    <3>1. Sound(z)
      BY <1>1, <2>1, <2>3, DoneTypes, NotNewlyFixed DEF FixedAreSound, There
    <3>2. Of(z)' = Of(z) /\ gradable' = gradable /\ status'[z] # "draft"
      BY <1>1, <3>1 DEF Of, Sound
    <3>3. request[r].quiz # z
      BY <1>1, <1>2, <3>1 DEF Sound, OutOfReach
    <3> QED BY <1>1, <1>2, <1>3, <3>1, <3>2, <3>3, DoneTypes, SoundStays DEF AuthoringTypeOK
  <2> QED BY <2>2, <2>3 DEF FixedAreSound
<1> QED BY <1>4, <1>5 DEF QInv

(* A PATCH writes a fixed quiz back with the count it has.                 *)
LEMMA PatchKeeps ==
  ASSUME QInv, NEW r \in Requests, PatchQuiz(r)
  PROVE  QInv'
<1> DEFINE y == request[r].quiz
<1>1. /\ request[r].op = "patch" /\ Done(r) /\ UNCHANGED <<home, gradable>>
      /\ count' = [count EXCEPT ![y] = request[r].counted]
      /\ reinserted' = IF status[y] = NoQuiz THEN reinserted \cup {y} ELSE reinserted
      /\ AuthoringTypeOK
  BY DEF PatchQuiz, QInv
<1>2. Pending(r) /\ request[r] \in Reading /\ ~ Publishes(r)
  BY <1>1, PendingReads DEF QuizOps, Publishes
<1>3. PICK next \in MayBecome(request[r].seen) : status' = [status EXCEPT ![y] = next]
  BY DEF PatchQuiz
<1>4. /\ next \in Statuses /\ request[r].seen \in {"draft", "published"}
      /\ next = "draft" => request[r].seen = "draft"
      /\ next = "published" => request[r].seen = "published"
  BY <1>2, <1>3 DEF MayBecome, Statuses, Reading
<1>5. AuthoringTypeOK'
  <2>1. y \in Quizzes /\ request[r].counted \in 0 .. Cardinality(Questions)
    BY <1>2 DEF Reading
  <2>2. /\ status' \in [Quizzes -> Statuses \cup {NoQuiz}] /\ reinserted' \subseteq Quizzes
        /\ count' \in [Quizzes -> 0 .. Cardinality(Questions)]
    BY <1>1, <1>3, <1>4, <2>1 DEF AuthoringTypeOK
  <2> QED BY <1>1, <2>2, DoneTypes DEF AuthoringTypeOK, Reading
<1>6. ASSUME ~ crossed' PROVE PublishesAlone' /\ FixedAreSound'
  <2>1. ~ crossed /\ PublishesAlone /\ FixedAreSound
    BY <1>1, <1>6, DoneTypes DEF QInv
  <2>2. PublishesAlone'
    BY <1>1, <1>2, <2>1, DoneTypes, OthersPublishNothing
  <2>3. ASSUME NEW z \in Quizzes, Fixed(z)' PROVE Sound(z)'
    <3>1. status'[z] = "published" => status[z] = "published" \/ WritesBack(r, z)
      BY <1>1, <1>2, <1>3, <1>4 DEF WritesBack, AuthoringTypeOK
    <3>0. There(z)' => There(z)
      BY <1>1, <1>3 DEF There, AuthoringTypeOK
    <3>2. Sound(z)
      BY <1>1, <2>1, <2>3, <3>0, <3>1, DoneTypes, NotNewlyFixed DEF FixedAreSound
    <3>3. Of(z)' = Of(z) /\ gradable' = gradable
      BY <1>1 DEF Of
    <3>4. count'[z] = count[z] /\ status'[z] # "draft"
      <4>1. CASE y = z
        <5>1. request[r].seen = "published" /\ WritesBack(r, z)
          BY <1>1, <1>2, <1>4, <3>2, <4>1 DEF Sound, OutOfReach, WritesBack
        <5> QED BY <1>1, <1>3, <1>4, <3>2, <4>1, <5>1 DEF Sound, AuthoringTypeOK
      <4>2. CASE y # z
        BY <1>1, <1>3, <3>2, <4>2 DEF Sound, AuthoringTypeOK
      <4> QED BY <4>1, <4>2
    <3> QED BY <1>1, <1>2, <3>2, <3>3, <3>4, DoneTypes, SoundStays
  <2> QED BY <2>2, <2>3 DEF FixedAreSound
<1> QED BY <1>5, <1>6 DEF QInv

LEMMA ArchiveOrRefuseKeeps ==
  ASSUME QInv, NEW r \in Requests, Done(r), request[r].op \in QuizOps,
         \/ request[r].op # "publish" /\ status' = [status EXCEPT ![request[r].quiz] = "archived"]
         \/ UNCHANGED status,
         status[request[r].quiz] # NoQuiz \/ UNCHANGED status,
         UNCHANGED <<count, home, gradable, reinserted>>
  PROVE  QInv'
<1>1. AuthoringTypeOK /\ Pending(r) /\ request[r] \in Reading
  BY PendingReads DEF QInv
<1>2. AuthoringTypeOK'
  <2>1. status' \in [Quizzes -> Statuses \cup {NoQuiz}]
    BY <1>1 DEF AuthoringTypeOK, Statuses
  <2> QED BY <1>1, <2>1, DoneTypes DEF AuthoringTypeOK, Reading
<1>3. ASSUME ~ crossed' PROVE PublishesAlone' /\ FixedAreSound'
  <2>1. ~ crossed /\ PublishesAlone /\ FixedAreSound
    BY <1>1, <1>3, DoneTypes DEF QInv
  <2>2. CASE Publishes(r)
    <3>1. \A o \in Requests : request'[o] = Idle
      BY <1>1, <2>1, <2>2, DoneTypes DEF PublishesAlone
    <3>2. UNCHANGED status
      BY <2>2 DEF Publishes
    <3>3. PublishesAlone'
      BY <3>1 DEF PublishesAlone, Publishes, Pending
    <3>4. ASSUME NEW z \in Quizzes, Fixed(z)' PROVE Sound(z)'
      <4>1. Sound(z)
        BY <2>1, <3>1, <3>2, <3>4 DEF FixedAreSound, Fixed, There, WritesBack, Pending
      <4>2. Of(z)' = Of(z)
        BY DEF Of
      <4> QED BY <3>1, <3>2, <4>1, <4>2 DEF Sound, OutOfReach, WritesBack, Pending
    <3> QED BY <3>3, <3>4 DEF FixedAreSound
  <2>3. CASE ~ Publishes(r)
    <3>1. PublishesAlone'
      BY <1>1, <2>1, <2>3, DoneTypes, OthersPublishNothing
    <3>2. ASSUME NEW z \in Quizzes, Fixed(z)' PROVE Sound(z)'
      <4>1. status'[z] = "published" => status[z] = "published"
        BY <1>1 DEF AuthoringTypeOK
      <4>0. There(z)' => There(z)
        BY <1>1 DEF There, AuthoringTypeOK
      <4>2. Sound(z)
        BY <1>1, <2>1, <3>2, <4>0, <4>1, DoneTypes, NotNewlyFixed DEF FixedAreSound
      <4>3. Of(z)' = Of(z) /\ status'[z] # "draft"
        BY <1>1, <4>2 DEF Of, Sound, AuthoringTypeOK
      <4> QED BY <1>1, <2>3, <4>2, <4>3, DoneTypes, SoundStays
    <3> QED BY <3>1, <3>2 DEF FixedAreSound
  <2> QED BY <2>2, <2>3
<1> QED BY <1>2, <1>3 DEF QInv

(* A deletion takes a quiz and its questions away, and leaves the others.  *)
LEMMA DropKeeps ==
  ASSUME QInv, NEW r \in Requests, DeleteQuiz(r)
  PROVE  QInv'
<1> DEFINE y == request[r].quiz
<1>1. /\ request[r].op = "destroy" /\ Done(r)
      /\ status' = [status EXCEPT ![y] = NoQuiz] /\ count' = [count EXCEPT ![y] = 0]
      /\ home' = [q \in Questions |-> IF home[q] = y THEN Nowhere ELSE home[q]]
      /\ gradable' = [q \in Questions |-> home[q] # y /\ gradable[q]]
      /\ reinserted' = reinserted \ {y}
      /\ AuthoringTypeOK
  BY DEF DeleteQuiz, QInv
<1>2. Pending(r) /\ request[r] \in Reading /\ ~ Publishes(r)
  BY <1>1, PendingReads DEF QuizOps, Publishes
<1>3. AuthoringTypeOK'
  <2>1. 0 \in 0 .. Cardinality(Questions)
    BY AuthoringAssumption, FS_CardinalityType
  <2>2. /\ status' \in [Quizzes -> Statuses \cup {NoQuiz}] /\ reinserted' \subseteq Quizzes
        /\ count' \in [Quizzes -> 0 .. Cardinality(Questions)]
    BY <1>1, <2>1 DEF AuthoringTypeOK
  <2>3. home' \in [Questions -> Quizzes \cup {Nowhere}] /\ gradable' \in [Questions -> BOOLEAN]
    BY <1>1 DEF AuthoringTypeOK
  <2> QED BY <1>1, <2>2, <2>3, DoneTypes DEF AuthoringTypeOK, Reading
<1>4. ASSUME ~ crossed' PROVE PublishesAlone' /\ FixedAreSound'
  <2>1. ~ crossed /\ PublishesAlone /\ FixedAreSound
    BY <1>1, <1>4, DoneTypes DEF QInv
  <2>2. PublishesAlone'
    BY <1>1, <1>2, <2>1, DoneTypes, OthersPublishNothing
  <2>3. ASSUME NEW z \in Quizzes, Fixed(z)' PROVE Sound(z)'
    <3>1. z # y
      BY <1>1, <2>3 DEF Fixed, There, AuthoringTypeOK
    <3>2. (There(z)' => There(z)) /\ status'[z] = status[z] /\ count'[z] = count[z]
      BY <1>1, <3>1 DEF There, AuthoringTypeOK
    <3>3. Sound(z)
      BY <1>1, <2>1, <2>3, <3>2, DoneTypes, NotNewlyFixed DEF FixedAreSound
    <3>4. Of(z)' = Of(z) /\ \A p \in Of(z) : gradable'[p] = gradable[p]
      BY <1>1, <3>1, AuthoringAssumption DEF Of, AuthoringTypeOK
    <3>5. status'[z] # "draft"
      BY <3>2, <3>3 DEF Sound
    <3> QED BY <1>1, <1>2, <3>2, <3>3, <3>4, <3>5, DoneTypes, SoundStays
  <2> QED BY <2>2, <2>3 DEF FixedAreSound
<1> QED BY <1>3, <1>4 DEF QInv

LEMMA PublishKeeps ==
  ASSUME QInv, NEW r \in Requests, PublishQuiz(r)
  PROVE  QInv'
<1> DEFINE y == request[r].quiz
           n == Cardinality(Of(y))
<1>1. /\ request[r].op = "publish" /\ Publishable(y) /\ Done(r) /\ UNCHANGED <<home, gradable>>
      /\ status' = [status EXCEPT ![y] = "published"] /\ reinserted' = reinserted \ {y}
      /\ AuthoringTypeOK /\ status[y] # NoQuiz
  BY DEF PublishQuiz, QInv
<1>2. Pending(r) /\ request[r] \in Reading /\ Publishes(r)
  BY <1>1, PendingReads DEF QuizOps, Publishes
<1>3. count' = [count EXCEPT ![y] = IF request[r].counted = n \/ status[y] = NoQuiz THEN @ ELSE n]
  BY DEF PublishQuiz, Synced
<1>4. AuthoringTypeOK'
  <2>1. n \in 0 .. Cardinality(Questions)
    BY CountsBounded
  <2> HIDE DEF n
  <2>2. /\ status' \in [Quizzes -> Statuses \cup {NoQuiz}] /\ reinserted' \subseteq Quizzes
        /\ count' \in [Quizzes -> 0 .. Cardinality(Questions)]
    BY <1>1, <1>3, <2>1 DEF AuthoringTypeOK, Statuses
  <2> QED BY <1>1, <2>2, DoneTypes DEF AuthoringTypeOK, Reading
<1>5. ASSUME ~ crossed' PROVE PublishesAlone' /\ FixedAreSound'
  <2>1. ~ crossed /\ PublishesAlone /\ FixedAreSound
    BY <1>1, <1>5, DoneTypes DEF QInv
  <2>2. \A o \in Requests : request'[o] = Idle
    BY <1>1, <1>2, <2>1, DoneTypes DEF PublishesAlone
  <2>3. PublishesAlone'
    BY <2>2 DEF PublishesAlone, Publishes, Pending
  <2>4. y \in Quizzes /\ request[r].counted = count[y]
    BY <1>2, <2>1 DEF Reading, PublishesAlone
  <2>5. ASSUME NEW z \in Quizzes, Fixed(z)' PROVE Sound(z)'
    <3>1. Of(z)' = Of(z) /\ OutOfReach(z)' /\ \A o \in Requests : ~ WritesBack(o, z)'
      BY <1>1, <2>2 DEF Of, OutOfReach, WritesBack, Pending
    <3>2. CASE z = y
      <4>1. count'[y] = n
        BY <1>1, <1>3, <2>4 DEF AuthoringTypeOK
      <4> QED BY <1>1, <2>4, <3>1, <3>2, <4>1 DEF Sound, Publishable, AuthoringTypeOK
    <3>3. CASE z # y
      <4>1. status'[z] = status[z] /\ count'[z] = count[z]
        BY <1>1, <1>3, <3>3 DEF AuthoringTypeOK
      <4>2. Sound(z)
        BY <1>1, <2>1, <2>5, <3>1, <3>3, <4>1 DEF FixedAreSound, Fixed, There
      <4> QED BY <1>1, <3>1, <4>1, <4>2 DEF Sound
    <3> QED BY <3>2, <3>3
  <2> QED BY <2>3, <2>5 DEF FixedAreSound
<1> QED BY <1>4, <1>5 DEF QInv

LEMMA QInvInductive == QInv /\ [AuthoringNext]_authoringVars => QInv'
<1> SUFFICES ASSUME QInv, [AuthoringNext]_authoringVars PROVE QInv'
  OBVIOUS
<1>1. CASE UNCHANGED authoringVars
  <2>1. AuthoringTypeOK'
    BY <1>1 DEF authoringVars, QInv, AuthoringTypeOK
  <2>2. (crossed \/ (PublishesAlone /\ FixedAreSound))'
    BY <1>1 DEF authoringVars, QInv, PublishesAlone, FixedAreSound, Publishes, Pending, Fixed, Sound,
               There, OutOfReach, WritesBack, Of
  <2> QED BY <2>1, <2>2 DEF QInv
<1>2. ASSUME NEW r \in Requests, ArchiveQuiz(r) PROVE QInv'
  <2>1. /\ request[r].op = "archive" /\ status' = [status EXCEPT ![request[r].quiz] = "archived"]
        /\ Done(r) /\ UNCHANGED <<count, home, gradable, reinserted>> /\ status[request[r].quiz] # NoQuiz
    BY <1>2 DEF ArchiveQuiz
  <2> QED BY <2>1, ArchiveOrRefuseKeeps DEF QuizOps
<1>3. ASSUME NEW r \in Requests, Refuse(r) PROVE QInv'
  <2>1. request[r].op \in QuizOps /\ Done(r) /\ UNCHANGED <<status, count, home, gradable, reinserted>>
    BY <1>3 DEF Refuse, QuizOps
  <2> QED BY <2>1, ArchiveOrRefuseKeeps
<1> QED BY <1>1, <1>2, <1>3, FetchKeeps, AddKeeps, EditKeeps, DeleteKeeps, CountRestKeeps, PatchKeeps,
           DropKeeps, PublishKeeps DEF AuthoringNext

(* Types of the quizzes, their questions and the requests.                 *)
THEOREM AuthoringTypeCorrect == AuthoringSpec => []AuthoringTypeOK
<1>1. QInv => AuthoringTypeOK
  BY DEF QInv
<1> QED BY <1>1, InitQInv, QInvInductive, PTL DEF AuthoringSpec

(* Whatever requests overlap, but for a publication with another request,  *)
(* a published quiz can be graded and shows its number of questions.       *)
THEOREM PublishedStaysGradable == AuthoringSpec => []PublishedIsGradable
<1>1. QInv => PublishedIsGradable
  BY DEF QInv, PublishedIsGradable, FixedAreSound, Fixed, There, NoQuiz, Sound
<1> QED BY <1>1, InitQInv, QInvInductive, PTL DEF AuthoringSpec

(* ... and no step adds, removes or changes a question of a published quiz *)
(* (QuizUpdateSerializer.validate: "Published quiz content is immutable").  *)
THEOREM PublishedStaysAsItIs == AuthoringSpec => PublishedContentIsImmutable
<1>1. ASSUME QInv, [AuthoringNext]_authoringVars, ~ crossed, NEW z \in Quizzes \ reinserted,
             status[z] = "published"
      PROVE  status'[z] = NoQuiz \/ (Of(z)' = Of(z) /\ \A q \in Of(z) : gradable'[q] = gradable[q])
  <2>1. AuthoringTypeOK /\ Sound(z) /\ z # Nowhere
    BY <1>1, AuthoringAssumption DEF QInv, FixedAreSound, Fixed, There, NoQuiz
  <2>2. CASE UNCHANGED <<home, gradable>>
    BY <2>2 DEF Of
  <2>3. ASSUME NEW r \in Requests, AddQuestion(r)
        PROVE  Of(z)' = Of(z) /\ \A q \in Of(z) : gradable'[q] = gradable[q]
    <3>1. request[r].op = "add" /\ request[r].seen = "draft"
      BY <2>3 DEF AddQuestion, EditsDraft
    <3>2. request[r].quiz # z
      BY <2>1, <3>1, PendingReads DEF QuizOps, Sound, OutOfReach
    <3>3. PICK q \in Of(Nowhere), good \in BOOLEAN :
            /\ home' = [home EXCEPT ![q] = request[r].quiz]
            /\ gradable' = [gradable EXCEPT ![q] = good]
      BY <2>3 DEF AddQuestion, Fresh
    <3> QED BY <2>1, <3>2, <3>3 DEF Of, AuthoringTypeOK
  <2>4. ASSUME NEW r \in Requests, EditQuestion(r)
        PROVE  Of(z)' = Of(z) /\ \A q \in Of(z) : gradable'[q] = gradable[q]
    <3>1. request[r].op = "edit" /\ request[r].seen = "draft"
      BY <2>4 DEF EditQuestion, EditsDraft
    <3>2. request[r].quiz # z /\ request[r].question \notin Of(z)
      BY <2>1, <3>1, PendingReads DEF QuizOps, Sound, OutOfReach
    <3>3. PICK y \in Quizzes : /\ y = request[r].quiz \/ status[y] = "draft"
                               /\ home' = [home EXCEPT ![request[r].question] = y]
      BY <2>4 DEF EditQuestion
    <3>4. y # z /\ gradable' \in {gradable, [gradable EXCEPT ![request[r].question] = TRUE]}
      BY <1>1, <2>4, <3>2, <3>3 DEF EditQuestion
    <3> QED BY <2>1, <3>2, <3>3, <3>4 DEF Of, AuthoringTypeOK
  <2>5. ASSUME NEW r \in Requests, DeleteQuestion(r)
        PROVE  Of(z)' = Of(z) /\ \A q \in Of(z) : gradable'[q] = gradable[q]
    <3>1. /\ request[r].op = "delete" /\ request[r].seen = "draft"
          /\ home' = [home EXCEPT ![request[r].question] = Nowhere]
          /\ gradable' = [gradable EXCEPT ![request[r].question] = FALSE]
      BY <2>5 DEF DeleteQuestion, EditsDraft
    <3>2. request[r].question \notin Of(z)
      BY <2>1, <3>1, PendingReads DEF QuizOps, Sound, OutOfReach
    <3> QED BY <2>1, <3>1, <3>2 DEF Of, AuthoringTypeOK
  <2>6. ASSUME NEW r \in Requests, DeleteQuiz(r)
        PROVE  status'[z] = NoQuiz \/ (Of(z)' = Of(z) /\ \A q \in Of(z) : gradable'[q] = gradable[q])
    <3> DEFINE y == request[r].quiz
    <3>1. /\ status' = [status EXCEPT ![y] = NoQuiz]
          /\ home' = [q \in Questions |-> IF home[q] = y THEN Nowhere ELSE home[q]]
          /\ gradable' = [q \in Questions |-> home[q] # y /\ gradable[q]]
      BY <2>6 DEF DeleteQuiz
    <3>2. CASE y = z
      BY <2>1, <3>1, <3>2 DEF AuthoringTypeOK
    <3>3. CASE y # z
      <4>1. ASSUME NEW q \in Questions PROVE home'[q] = z <=> home[q] = z
        BY <2>1, <3>1, <3>3
      <4>2. Of(z)' = Of(z)
        BY <4>1 DEF Of
      <4>3. ASSUME NEW q \in Of(z) PROVE gradable'[q] = gradable[q]
        <5>1. q \in Questions /\ home[q] # y /\ gradable[q] \in BOOLEAN
          BY <2>1, <3>3, <4>3 DEF Of, AuthoringTypeOK
        <5>2. gradable'[q] = (home[q] # y /\ gradable[q])
          BY <3>1, <5>1
        <5> QED BY <5>1, <5>2
      <4> QED BY <4>2, <4>3
    <3> QED BY <3>2, <3>3
  <2>7. CASE \E r \in Requests : \/ \E y \in Quizzes, op \in QuizOps, q \in Questions \cup {Nowhere} :
                                     Fetch(r, y, op, q)
                                \/ CountRest(r)
                                \/ PatchQuiz(r)
                                \/ ArchiveQuiz(r)
                                \/ PublishQuiz(r)
                                \/ Refuse(r)
    BY <2>2, <2>7 DEF Fetch, CountRest, PatchQuiz, ArchiveQuiz, PublishQuiz, Refuse
  <2>8. CASE UNCHANGED authoringVars
    BY <2>2, <2>8 DEF authoringVars
  <2> QED BY <1>1, <2>3, <2>4, <2>5, <2>6, <2>7, <2>8 DEF AuthoringNext
<1>2. QInv /\ [AuthoringNext]_authoringVars =>
        [crossed \/ \A z \in Quizzes \ reinserted :
           status[z] = "published" =>
             \/ status'[z] = NoQuiz
             \/ /\ Of(z)' = Of(z)
                /\ \A q \in Of(z) : gradable'[q] = gradable[q]]_authoringVars
  BY <1>1
<1> QED BY <1>2, InitQInv, QInvInductive, PTL DEF AuthoringSpec, PublishedContentIsImmutable

----------------------------------------------------------------------------
(* Sources.  What a handler holds still fits what it finds when it writes:  *)
(* the row of a PATCH is of the kind of the row it replaces, the file that  *)
(* is unlinked belongs to no row but a revived one, and what is about to    *)
(* join a folder has the folder's project.                                  *)

RowStatuses == {"uploaded", "ready", "failed"}
Jobs == [op: {"upload"}, kind: Kinds, folder: Folders \cup {NoFolder}, project: MaybeProjects]
        \cup [op: {"patch"}, source: Sources, row: SourceRow]
        \cup [op: {"work"}, source: Sources, seen: RowStatuses]
        \cup [op: {"unlink"}, source: Sources]
        \cup [op: {"folder"}, project: LibProjects]
        \cup [op: {"refolder"}, folder: Folders, project: MaybeProjects]
        \cup [op: {"unfolder"}, folder: Folders]

HasText(row)    == row.status = "ready" => row.kind # "audio" /\ row.text = TRUE
InProject(f, p) == f \in FoldersMade => folder[f] \in {p, NoProject}

Fits(w) ==
  /\ w.op = "upload" => parted \/ InProject(w.folder, w.project)
  /\ w.op = "patch"  => /\ HasText(w.row)
                        /\ w.source \in Present => w.row.kind = source[w.source].kind
                        /\ parted \/ InProject(w.row.folder, w.row.project)
  /\ w.op = "work"   => w.seen # "ready"
  /\ w.op = "unlink" => w.source \notin Present \/ w.source \in revived

PatchesAgree ==
  \A h, k \in LibHandlers :
    worker[h].op = "patch" /\ worker[k].op = "patch" /\ worker[h].source = worker[k].source =>
      worker[h].row.kind = worker[k].row.kind

WorkersFit == \A h \in LibHandlers : (worker[h] = Vacant \/ worker[h] \in Jobs) /\ Fits(worker[h])
RowsFit    == \A s \in Present : /\ HasText(source[s])
                                 /\ parted \/ InProject(source[s].folder, source[s].project)

LInv == LibraryTypeOK /\ WorkersFit /\ PatchesAgree /\ RowsFit /\ FileOfSource

LEMMA InitLInv == LibraryInit => LInv
<1> SUFFICES ASSUME LibraryInit PROVE LInv
  OBVIOUS
<1>1. LibraryTypeOK
  BY DEF LibraryInit, LibraryTypeOK, Present
<1>2. WorkersFit /\ PatchesAgree
  BY DEF LibraryInit, WorkersFit, PatchesAgree, Fits, Vacant
<1>3. RowsFit /\ FileOfSource
  BY DEF LibraryInit, RowsFit, FileOfSource, Present
<1> QED BY <1>1, <1>2, <1>3 DEF LInv

(* The job of a handler that has one. *)
LEMMA JobOf ==
  ASSUME WorkersFit, NEW h \in LibHandlers, worker[h] # Vacant
  PROVE  worker[h] \in Jobs /\ Fits(worker[h])
BY DEF WorkersFit

LEMMA JobKinds ==
  ASSUME NEW w \in Jobs
  PROVE  /\ w.op = "upload" => w \in [op: {"upload"}, kind: Kinds, folder: Folders \cup {NoFolder},
                                      project: MaybeProjects]
         /\ w.op = "patch"  => w \in [op: {"patch"}, source: Sources, row: SourceRow]
         /\ w.op = "work"   => w \in [op: {"work"}, source: Sources, seen: RowStatuses]
         /\ w.op = "unlink" => w \in [op: {"unlink"}, source: Sources]
         /\ w.op = "folder" => w \in [op: {"folder"}, project: LibProjects]
         /\ w.op = "refolder" => w \in [op: {"refolder"}, folder: Folders, project: MaybeProjects]
         /\ w.op = "unfolder" => w \in [op: {"unfolder"}, folder: Folders]
BY DEF Jobs

(* A handler that takes up a job, or ends it, without touching a row.      *)
LEMMA JobChange ==
  ASSUME LInv, NEW h \in LibHandlers, NEW job, job = Vacant \/ job \in Jobs, Fits(job),
         job.op = "patch" => job.source \in Present,
         worker' = [worker EXCEPT ![h] = job] \/ (worker' = worker /\ job = worker[h]),
         queued' \subseteq Sources,
         UNCHANGED <<quota, source, folder, file, exceeded, revived, parted>>
  PROVE  LInv'
<1>1. Present' = Present /\ FoldersMade' = FoldersMade
  BY DEF Present, FoldersMade
<1>2. /\ DOMAIN worker' = LibHandlers /\ worker'[h] = job
      /\ \A k \in LibHandlers \ {h} : worker'[k] = worker[k]
  BY DEF LInv, LibraryTypeOK
<1>3. LibraryTypeOK'
  BY <1>1, <1>2 DEF LInv, LibraryTypeOK
<1>4. WorkersFit'
  <2>1. ASSUME NEW k \in LibHandlers
        PROVE  (worker'[k] = Vacant \/ worker'[k] \in Jobs) /\ Fits(worker'[k])
    BY <1>2, <2>1 DEF LInv, WorkersFit
  <2>2. \A k \in LibHandlers : Fits(worker[k])'
    BY <1>1, <2>1 DEF Fits, InProject, HasText
  <2> QED BY <2>1, <2>2 DEF WorkersFit
<1>5. PatchesAgree'
  BY <1>2 DEF LInv, PatchesAgree, WorkersFit, Fits
<1>6. RowsFit' /\ FileOfSource'
  BY <1>1 DEF LInv, RowsFit, FileOfSource, InProject, HasText
<1> QED BY <1>3, <1>4, <1>5, <1>6 DEF LInv

(* What takes up a job, or drops it. *)
LEMMA VacantFits == Fits(Vacant) /\ Vacant.op # "patch"
BY DEF Fits, Vacant

LEMMA UploadKeeps ==
  ASSUME LInv, NEW h \in LibHandlers, NEW kind \in Kinds, NEW f \in Folders \cup {NoFolder},
         NEW p \in MaybeProjects, Upload(h, kind, f, p)
  PROVE  LInv'
<1> DEFINE job == [op |-> "upload", kind |-> kind, folder |-> f, project |-> ProjectIn(f, p)]
<1>1. ProjectIn(f, p) \in MaybeProjects /\ InProject(f, ProjectIn(f, p))
  BY DEF LInv, LibraryTypeOK, ProjectIn, InProject, FoldersMade, MaybeProjects
<1>2. job \in Jobs /\ Fits(job) /\ job.op # "patch"
  BY <1>1 DEF Jobs, Fits
<1> HIDE DEF job
<1>3. worker' = [worker EXCEPT ![h] = job]
  BY DEF Upload, Begin, job
<1> QED BY <1>2, <1>3, JobChange DEF Upload, LInv, LibraryTypeOK

LEMMA FetchSourceKeeps ==
  ASSUME LInv, NEW h \in LibHandlers, NEW s \in Sources, NEW f \in Folders \cup {NoFolder},
         NEW p \in MaybeProjects, FetchSource(h, s, f, p)
  PROVE  LInv'
<1> DEFINE row == Updated(source[s], f, p)
           job == [op |-> "patch", source |-> s, row |-> row]
<1>1. s \in Present /\ source[s] \in SourceRow /\ HasText(source[s])
  <2>1. s \in Present
    BY DEF FetchSource
  <2>2. source[s] \in SourceRow
    BY <2>1 DEF LInv, LibraryTypeOK, Present
  <2>3. HasText(source[s])
    BY <2>1 DEF LInv, RowsFit, HasText
  <2> QED BY <2>1, <2>2, <2>3
<1>2. ProjectIn(f, p) \in MaybeProjects /\ InProject(f, ProjectIn(f, p))
  BY DEF LInv, LibraryTypeOK, ProjectIn, InProject, FoldersMade, MaybeProjects
<1>3. /\ row \in SourceRow /\ row.kind = source[s].kind /\ row.status = source[s].status
      /\ row.text = source[s].text /\ row.folder = f /\ row.project = ProjectIn(f, p)
  BY <1>1, <1>2 DEF Updated, SourceRow
<1>4. HasText(row) /\ InProject(row.folder, row.project)
  BY <1>1, <1>2, <1>3 DEF HasText
<1> HIDE DEF row
<1>5. job \in Jobs /\ Fits(job) /\ job.source \in Present
  BY <1>1, <1>3, <1>4 DEF Jobs, Fits
<1>6. worker' = [worker EXCEPT ![h] = job]
  BY DEF FetchSource, Begin, row
<1> HIDE DEF job
<1> QED BY <1>5, <1>6, JobChange DEF FetchSource, LInv, LibraryTypeOK

LEMMA StartWorkKeeps ==
  ASSUME LInv, NEW h \in LibHandlers, NEW s \in Sources, StartWork(h, s)
  PROVE  LInv'
<1> DEFINE job == [op |-> "work", source |-> s, seen |-> source[s].status]
<1>1. /\ queued' \subseteq Sources /\ worker[h] \in {Vacant} \cup Jobs /\ Fits(worker[h])
      /\ UNCHANGED <<quota, source, folder, file, exceeded, revived, parted>>
  BY DEF StartWork, LInv, LibraryTypeOK, WorkersFit
<1>2. CASE s \in Present /\ source[s].status # "ready"
  <2>1. source[s].status \in RowStatuses
    BY <1>2 DEF LInv, LibraryTypeOK, Present, SourceRow, RowStatuses
  <2>2. job \in Jobs /\ Fits(job) /\ job.op # "patch"
    BY <1>2, <2>1 DEF Jobs, Fits
  <2>3. worker' = [worker EXCEPT ![h] = job]
    BY <1>2 DEF StartWork, Begin
  <2> HIDE DEF job
  <2> QED BY <1>1, <2>2, <2>3, JobChange
<1>3. CASE ~ (s \in Present /\ source[s].status # "ready")
  <2>1. worker[h] = Vacant /\ worker' = worker
    BY <1>3 DEF StartWork
  <2> QED BY <1>1, <2>1, VacantFits, JobChange
<1> QED BY <1>2, <1>3

LEMMA AbortKeeps ==
  ASSUME LInv, NEW h \in LibHandlers, Abort(h)
  PROVE  LInv'
BY VacantFits, JobChange DEF Abort, End, LInv, LibraryTypeOK

(* What begins with folders. *)
LEMMA FolderJobsKeep ==
  ASSUME LInv, NEW h \in LibHandlers
  PROVE  /\ \A p \in LibProjects : CreateFolder(h, p) => LInv'
         /\ \A f \in Folders, p \in MaybeProjects : FetchFolder(h, f, p) => LInv'
         /\ \A f \in Folders : FetchEmptyFolder(h, f) => LInv'
<1>0. queued \subseteq Sources
  BY DEF LInv, LibraryTypeOK
<1>1. ASSUME NEW p \in LibProjects, CreateFolder(h, p) PROVE LInv'
  <2> DEFINE job == [op |-> "folder", project |-> p]
  <2>1. job \in Jobs /\ Fits(job) /\ job.op # "patch" /\ worker' = [worker EXCEPT ![h] = job]
    BY <1>1 DEF Jobs, Fits, CreateFolder, Begin
  <2> HIDE DEF job
  <2> QED BY <1>0, <1>1, <2>1, JobChange DEF CreateFolder
<1>2. ASSUME NEW f \in Folders, NEW p \in MaybeProjects, FetchFolder(h, f, p) PROVE LInv'
  <2> DEFINE job == [op |-> "refolder", folder |-> f, project |-> p]
  <2>1. job \in Jobs /\ Fits(job) /\ job.op # "patch" /\ worker' = [worker EXCEPT ![h] = job]
    BY <1>2 DEF Jobs, Fits, FetchFolder, Begin
  <2> HIDE DEF job
  <2> QED BY <1>0, <1>2, <2>1, JobChange DEF FetchFolder
<1>3. ASSUME NEW f \in Folders, FetchEmptyFolder(h, f) PROVE LInv'
  <2> DEFINE job == [op |-> "unfolder", folder |-> f]
  <2>1. job \in Jobs /\ Fits(job) /\ job.op # "patch" /\ worker' = [worker EXCEPT ![h] = job]
    BY <1>3 DEF Jobs, Fits, FetchEmptyFolder, Begin
  <2> HIDE DEF job
  <2> QED BY <1>0, <1>3, <2>1, JobChange DEF FetchEmptyFolder
<1> QED BY <1>1, <1>2, <1>3

LEMMA AskProcessingKeeps ==
  ASSUME LInv, NEW s \in Sources, AskProcessing(s)
  PROVE  LInv'
<1>1. LibraryTypeOK' /\ FileOfSource'
  BY DEF AskProcessing, LInv, LibraryTypeOK, Present, FoldersMade, FileOfSource
<1>2. WorkersFit' /\ PatchesAgree' /\ RowsFit'
  BY DEF AskProcessing, LInv, WorkersFit, PatchesAgree, RowsFit, Fits, InProject, HasText, Present, FoldersMade
<1> QED BY <1>1, <1>2 DEF LInv

(* A handler writes a row that fits what the others hold of it. *)
LEMMA RowSaved ==
  ASSUME LInv, NEW s \in Sources, NEW row \in SourceRow, HasText(row),
         row.folder \in FoldersMade \cup {NoFolder}, parted \/ InProject(row.folder, row.project),
         source' = [source EXCEPT ![s] = row], UNCHANGED <<quota, folder, parted>>,
         file \subseteq file', file' \subseteq Sources, queued' \subseteq Sources, exceeded' \in BOOLEAN,
         revived' \subseteq Sources, \A x \in Sources \ {s} : x \in revived' <=> x \in revived,
         DOMAIN worker' = LibHandlers,
         \A k \in LibHandlers : worker'[k] \in {worker[k], Vacant},
         \A k \in LibHandlers :
           /\ worker'[k].op = "patch" /\ worker'[k].source = s => worker'[k].row.kind = row.kind
           /\ worker'[k].op = "unlink" /\ worker'[k].source = s => s \in revived',
         row.kind = "derived" \/ s \in revived' \/ s \in file'
  PROVE  LInv'
<1>1. DOMAIN source = Sources
  BY DEF LInv, LibraryTypeOK
<1>2. /\ source'[s] = row /\ \A x \in Sources \ {s} : source'[x] = source[x]
      /\ s \in Present' /\ \A x \in Sources \ {s} : x \in Present' <=> x \in Present
  BY <1>1 DEF Present, Absent, SourceRow
<1>3. FoldersMade' = FoldersMade /\ Present' \subseteq Sources
  BY DEF FoldersMade, Present
<1>4. LibraryTypeOK'
  BY <1>2, <1>3 DEF LInv, LibraryTypeOK
<1>5. WorkersFit'
  <2>1. ASSUME NEW k \in LibHandlers
        PROVE  (worker'[k] = Vacant \/ worker'[k] \in Jobs) /\ Fits(worker[k])'
    <3>1. CASE worker'[k] = Vacant
      BY <3>1 DEF Fits, Vacant
    <3>2. CASE worker'[k] # Vacant
      <4>1. worker'[k] = worker[k] /\ worker[k] \in Jobs /\ Fits(worker[k])
        BY <3>2 DEF LInv, WorkersFit
      <4>2. /\ worker[k].op = "upload" => parted \/ InProject(worker[k].folder, worker[k].project)
            /\ worker[k].op = "patch" => /\ HasText(worker[k].row)
                                         /\ parted \/ InProject(worker[k].row.folder, worker[k].row.project)
            /\ worker[k].op = "work" => worker[k].seen # "ready"
        BY <4>1 DEF Fits
      <4>3. ASSUME worker[k].op = "patch", worker[k].source \in Present'
            PROVE  worker[k].row.kind = source'[worker[k].source].kind
        BY <1>2, <1>3, <4>1, <4>3 DEF Fits
      <4>4. ASSUME worker[k].op = "unlink"
            PROVE  worker[k].source \notin Present' \/ worker[k].source \in revived'
        <5>1. worker[k].source \in Sources
          BY <4>1, <4>4, JobKinds
        <5> QED BY <1>2, <4>1, <4>4, <5>1 DEF Fits
      <4> QED BY <1>3, <4>1, <4>2, <4>3, <4>4 DEF Fits, InProject, HasText
    <3> QED BY <3>1, <3>2
  <2> QED BY <2>1 DEF WorkersFit
<1>6. PatchesAgree'
  <2>1. \A k \in LibHandlers : worker'[k].op = "patch" => worker'[k] = worker[k]
    BY DEF Vacant
  <2> QED BY <2>1 DEF LInv, PatchesAgree
<1>7. RowsFit'
  <2>1. ASSUME NEW x \in Present'
        PROVE  HasText(source'[x]) /\ (parted \/ InProject(source'[x].folder, source'[x].project))
    <3>1. CASE x = s
      BY <1>2, <3>1
    <3>2. CASE x # s
      <4>1. x \in Present /\ source'[x] = source[x]
        BY <1>2, <1>3, <3>2
      <4> QED BY <4>1 DEF LInv, RowsFit
    <3> QED BY <3>1, <3>2
  <2> QED BY <1>3, <2>1 DEF RowsFit, InProject, HasText
<1>8. FileOfSource'
  BY <1>2, <1>3 DEF LInv, FileOfSource
<1> QED BY <1>4, <1>5, <1>6, <1>7, <1>8 DEF LInv

(* What a handler that ends leaves to the others. *)
LEMMA EndLeaves ==
  ASSUME LInv, NEW h \in LibHandlers, End(h)
  PROVE  /\ DOMAIN worker' = LibHandlers /\ worker'[h] = Vacant
         /\ \A k \in LibHandlers \ {h} : worker'[k] = worker[k]
         /\ \A k \in LibHandlers : worker'[k] \in {worker[k], Vacant}
BY DEF LInv, LibraryTypeOK, End

LEMMA FlagIsBoolean ==
  ASSUME NEW P
  PROVE  /\ exceeded' = (exceeded /\ P) /\ exceeded \in BOOLEAN => exceeded' \in BOOLEAN
         /\ parted' = (parted \/ P) /\ parted \in BOOLEAN => parted' \in BOOLEAN
BY Zenon

LEMMA ExceedsIsBoolean ==
  ASSUME LInv, NEW q, NEW sr, NEW fo
  PROVE  /\ Exceeds(q, sr, fo) => exceeded' \in BOOLEAN
         /\ StillExceeds(sr, fo) => exceeded' \in BOOLEAN
<1>1. exceeded \in BOOLEAN
  BY DEF LInv, LibraryTypeOK
<1> QED BY <1>1, Zenon DEF Exceeds, StillExceeds

LEMMA SaveUploadKeeps ==
  ASSUME LInv, NEW h \in LibHandlers, SaveUpload(h)
  PROVE  LInv'
<1>1. worker[h].op = "upload" /\ worker[h].folder \in FoldersMade \cup {NoFolder} /\ worker[h] # Vacant
  BY DEF SaveUpload, Vacant
<1>2. /\ worker[h] \in [op: {"upload"}, kind: Kinds, folder: Folders \cup {NoFolder}, project: MaybeProjects]
      /\ parted \/ InProject(worker[h].folder, worker[h].project)
  BY <1>1, JobOf, JobKinds DEF LInv, Fits
<1> DEFINE row == [kind |-> worker[h].kind, status |-> "uploaded", text |-> FALSE,
                   folder |-> worker[h].folder, project |-> worker[h].project]
<1>3. PICK s \in FreshSource : /\ source' = [source EXCEPT ![s] = row]
                               /\ file' = file \cup {s} /\ queued' \in {queued, queued \cup {s}}
                               /\ revived' = revived \ {s}
  BY DEF SaveUpload
<1>4. /\ s \in Sources
      /\ \A k \in LibHandlers : worker[k].op \in {"patch", "work", "unlink"} => worker[k].source # s
  BY <1>3 DEF FreshSource
<1>5. row \in SourceRow /\ HasText(row)
  BY <1>2 DEF SourceRow, HasText
<1>6. row.folder = worker[h].folder /\ row.project = worker[h].project
  OBVIOUS
<1> HIDE DEF row
<1>7. exceeded' \in BOOLEAN /\ UNCHANGED <<quota, folder, parted>> /\ End(h)
  BY ExceedsIsBoolean DEF SaveUpload
<1>8. file \subseteq file' /\ file' \subseteq Sources /\ queued' \subseteq Sources /\ revived' \subseteq Sources
      /\ \A x \in Sources \ {s} : x \in revived' <=> x \in revived
  BY <1>3, <1>4 DEF LInv, LibraryTypeOK
<1>9. \A k \in LibHandlers :
        /\ worker'[k].op = "patch" /\ worker'[k].source = s => worker'[k].row.kind = row.kind
        /\ worker'[k].op = "unlink" /\ worker'[k].source = s => s \in revived'
  BY <1>4, <1>7, EndLeaves DEF Vacant
<1>10. s \in file' /\ source' = [source EXCEPT ![s] = row]
  BY <1>3
<1>11. /\ DOMAIN worker' = LibHandlers /\ \A k \in LibHandlers : worker'[k] \in {worker[k], Vacant}
       /\ row.folder \in FoldersMade \cup {NoFolder} /\ (parted \/ InProject(row.folder, row.project))
  BY <1>1, <1>2, <1>6, <1>7, EndLeaves
<1> QED BY <1>4, <1>5, <1>7, <1>8, <1>9, <1>10, <1>11, RowSaved

LEMMA DeriveKeeps ==
  ASSUME LInv, NEW p \in LibProjects, Derive(p)
  PROVE  LInv'
<1> DEFINE row == [kind |-> "derived", status |-> "ready", text |-> TRUE, folder |-> NoFolder, project |-> p]
<1>1. PICK s \in FreshSource : source' = [source EXCEPT ![s] = row]
  BY DEF Derive
<1>2. /\ s \in Sources
      /\ \A k \in LibHandlers : worker[k].op \in {"patch", "work", "unlink"} => worker[k].source # s
  BY <1>1 DEF FreshSource
<1>3. row \in SourceRow /\ HasText(row) /\ row.folder = NoFolder /\ row.kind = "derived"
  BY DEF SourceRow, HasText, MaybeProjects
<1>4. InProject(row.folder, row.project)
  BY <1>3, LibraryAssumption DEF InProject, FoldersMade
<1> HIDE DEF row
<1>5. /\ exceeded' \in BOOLEAN /\ UNCHANGED <<quota, folder, file, queued, worker, revived, parted>>
      /\ file \subseteq Sources /\ queued \subseteq Sources /\ revived \subseteq Sources
      /\ DOMAIN worker = LibHandlers
  <2>1. exceeded' \in BOOLEAN
    <3>1. Exceeds(quota, source', folder)
      BY DEF Derive
    <3> QED BY <3>1, ExceedsIsBoolean
  <2>2. UNCHANGED <<quota, folder, file, queued, worker, revived, parted>>
    BY DEF Derive
  <2> QED BY <2>1, <2>2 DEF LInv, LibraryTypeOK
<1>6. file \subseteq file' /\ file' \subseteq Sources /\ queued' \subseteq Sources /\ revived' \subseteq Sources
      /\ \A x \in Sources \ {s} : x \in revived' <=> x \in revived
  BY <1>5
<1>7. \A k \in LibHandlers :
        /\ worker'[k].op = "patch" /\ worker'[k].source = s => worker'[k].row.kind = row.kind
        /\ worker'[k].op = "unlink" /\ worker'[k].source = s => s \in revived'
  BY <1>2, <1>5
<1>8. DOMAIN worker' = LibHandlers /\ \A k \in LibHandlers : worker'[k] \in {worker[k], Vacant}
  BY <1>5
<1>9. row \in SourceRow /\ HasText(row) /\ row.folder \in FoldersMade \cup {NoFolder}
      /\ (parted \/ InProject(row.folder, row.project)) /\ row.kind = "derived"
  BY <1>3, <1>4
<1>10. exceeded' \in BOOLEAN /\ UNCHANGED <<quota, folder, parted>> /\ s \in Sources
       /\ source' = [source EXCEPT ![s] = row]
  BY <1>1, <1>2, <1>5
<1> QED BY <1>6, <1>7, <1>8, <1>9, <1>10, RowSaved

LEMMA SaveSourceKeeps ==
  ASSUME LInv, NEW h \in LibHandlers, SaveSource(h)
  PROVE  LInv'
<1>1. worker[h].op = "patch" /\ worker[h] # Vacant
  BY DEF SaveSource, Vacant
<1>2. worker[h] \in [op: {"patch"}, source: Sources, row: SourceRow] /\ Fits(worker[h])
  BY <1>1, JobOf, JobKinds DEF LInv
<1>3. PICK s \in Sources, row \in SourceRow : worker[h].source = s /\ worker[h].row = row
  BY <1>2
<1>4. /\ row \in SourceRow /\ HasText(row) /\ row.folder \in FoldersMade \cup {NoFolder}
      /\ parted \/ InProject(row.folder, row.project)
      /\ s \in Present => row.kind = source[s].kind
  BY <1>1, <1>2, <1>3 DEF Fits, SaveSource
<1>5. /\ source' = [source EXCEPT ![s] = row]
      /\ revived' = IF s \in Present THEN revived ELSE revived \cup {s}
      /\ UNCHANGED <<quota, folder, file, queued, parted>> /\ End(h)
  BY <1>3 DEF SaveSource
<1>6. exceeded' \in BOOLEAN
  <2>1. exceeded \in BOOLEAN
    BY DEF LInv, LibraryTypeOK
  <2> QED BY <2>1, ExceedsIsBoolean DEF SaveSource
<1>7. file \subseteq file' /\ file' \subseteq Sources /\ queued' \subseteq Sources
  BY <1>5 DEF LInv, LibraryTypeOK
<1>8. revived' \subseteq Sources /\ \A x \in Sources \ {s} : x \in revived' <=> x \in revived
  <2>1. revived \subseteq Sources
    BY DEF LInv, LibraryTypeOK
  <2> QED BY <1>5, <2>1
<1>9. ASSUME NEW k \in LibHandlers
      PROVE  /\ worker'[k].op = "patch" /\ worker'[k].source = s => worker'[k].row.kind = row.kind
             /\ worker'[k].op = "unlink" /\ worker'[k].source = s => s \in revived'
  <2>1. CASE worker'[k] = Vacant
    BY <2>1 DEF Vacant
  <2>2. CASE worker'[k] # Vacant
    <3>1. worker'[k] = worker[k] /\ Fits(worker[k])
      BY <1>5, <2>2, EndLeaves, JobOf DEF LInv
    <3>2. worker[k].op = "patch" /\ worker[k].source = s => worker[k].row.kind = row.kind
      BY <1>1, <1>3 DEF LInv, PatchesAgree
    <3>3. worker[k].op = "unlink" /\ worker[k].source = s => s \notin Present \/ s \in revived
      BY <3>1 DEF Fits
    <3> QED BY <1>5, <3>1, <3>2, <3>3
  <2> QED BY <2>1, <2>2
<1>10. row.kind = "derived" \/ s \in revived' \/ s \in file'
  <2>1. CASE s \in Present
    BY <1>4, <1>5, <2>1 DEF LInv, FileOfSource
  <2>2. CASE s \notin Present
    BY <1>5, <2>2
  <2> QED BY <2>1, <2>2
<1>11. /\ DOMAIN worker' = LibHandlers /\ \A k \in LibHandlers : worker'[k] \in {worker[k], Vacant}
       /\ UNCHANGED <<quota, folder, parted>>
  BY <1>5, EndLeaves
<1>12. source' = [source EXCEPT ![s] = row]
  BY <1>5
<1> QED BY <1>4, <1>6, <1>7, <1>8, <1>9, <1>10, <1>11, <1>12, RowSaved

(* A file that can be read gives text, unless it is a recording. *)
LEMMA ProcessedFits ==
  ASSUME NEW row \in SourceRow, NEW readable \in BOOLEAN
  PROVE  /\ Processed(row, readable) \in SourceRow /\ HasText(Processed(row, readable))
         /\ Processed(row, readable).kind = row.kind
         /\ Processed(row, readable).folder = row.folder /\ Processed(row, readable).project = row.project
<1> DEFINE gives == row.text \/ (readable /\ row.kind # "audio")
           new == IF ~ readable THEN "failed" ELSE IF row.kind = "audio" THEN "uploaded" ELSE "ready"
<1>1. Processed(row, readable) = [row EXCEPT !.status = new, !.text = gives]
  BY Zenon DEF Processed
<1>2. row.text \in BOOLEAN /\ new \in RowStatuses
  BY DEF SourceRow, RowStatuses
<1>3. new = "ready" => gives /\ row.kind # "audio"
  BY Zenon
<1>4. gives = TRUE \/ gives = FALSE
  BY <1>2, Zenon
<1>5. ASSUME gives = TRUE
      PROVE  /\ Processed(row, readable) \in SourceRow /\ HasText(Processed(row, readable))
             /\ Processed(row, readable).kind = row.kind
             /\ Processed(row, readable).folder = row.folder /\ Processed(row, readable).project = row.project
  <2>1. Processed(row, readable) = [row EXCEPT !.status = new, !.text = TRUE]
    BY <1>1, <1>5, Zenon
  <2> HIDE DEF new, gives
  <2> QED BY <1>2, <1>3, <2>1 DEF SourceRow, HasText, RowStatuses
<1>6. ASSUME gives = FALSE
      PROVE  /\ Processed(row, readable) \in SourceRow /\ HasText(Processed(row, readable))
             /\ Processed(row, readable).kind = row.kind
             /\ Processed(row, readable).folder = row.folder /\ Processed(row, readable).project = row.project
  <2>1. Processed(row, readable) = [row EXCEPT !.status = new, !.text = FALSE] /\ new # "ready"
    BY <1>1, <1>3, <1>6, Zenon
  <2> HIDE DEF new, gives
  <2> QED BY <1>2, <2>1 DEF SourceRow, HasText, RowStatuses
<1> QED BY <1>4, <1>5, <1>6

LEMMA WorkKeeps ==
  ASSUME LInv, NEW h \in LibHandlers, Work(h)
  PROVE  LInv'
<1> DEFINE s == worker[h].source
<1>1. worker[h].op = "work" /\ worker[h] # Vacant /\ End(h)
      /\ UNCHANGED <<quota, folder, file, queued, exceeded, revived, parted>>
  BY DEF Work, Vacant
<1>2. s \in Sources
  BY <1>1, JobOf, JobKinds DEF LInv
<1>3. /\ file \subseteq Sources /\ queued \subseteq Sources /\ revived \subseteq Sources
      /\ exceeded \in BOOLEAN
  BY DEF LInv, LibraryTypeOK
<1>4. CASE s \in Present
  <2>1. PICK readable \in BOOLEAN : source' = [source EXCEPT ![s] = Processed(source[s], readable)]
    BY <1>4 DEF Work
  <2> DEFINE row == Processed(source[s], readable)
  <2>2. source[s] \in SourceRow
    BY <1>4 DEF LInv, LibraryTypeOK, Present
  <2>3. row \in SourceRow /\ HasText(row) /\ row.kind = source[s].kind
        /\ row.folder = source[s].folder /\ row.project = source[s].project
    BY <2>2, ProcessedFits
  <2>4. row.folder \in FoldersMade \cup {NoFolder} /\ (parted \/ InProject(row.folder, row.project))
    BY <1>4, <2>3 DEF LInv, LibraryTypeOK, RowsFit
  <2>5. ASSUME NEW k \in LibHandlers
        PROVE  /\ worker'[k].op = "patch" /\ worker'[k].source = s => worker'[k].row.kind = row.kind
               /\ worker'[k].op = "unlink" /\ worker'[k].source = s => s \in revived'
    <3>1. CASE worker'[k] = Vacant
      BY <3>1 DEF Vacant
    <3>2. CASE worker'[k] # Vacant
      <4>1. worker'[k] = worker[k] /\ Fits(worker[k])
        BY <1>1, <3>2, EndLeaves, JobOf DEF LInv
      <4> QED BY <1>1, <1>4, <2>3, <4>1 DEF Fits
    <3> QED BY <3>1, <3>2
  <2>6. row.kind = "derived" \/ s \in revived' \/ s \in file'
    BY <1>1, <1>4, <2>3 DEF LInv, FileOfSource
  <2> HIDE DEF row, s
  <2> QED BY <1>1, <1>2, <1>3, <2>1, <2>3, <2>4, <2>5, <2>6, EndLeaves, RowSaved DEF row
<1>5. CASE s \notin Present
  <2>1. UNCHANGED source /\ worker' = [worker EXCEPT ![h] = Vacant]
    BY <1>1, <1>5 DEF Work, End
  <2> QED BY <1>1, <1>3, <2>1, VacantFits, JobChange
<1> QED BY <1>4, <1>5

LEMMA DeleteSourceKeeps ==
  ASSUME LInv, NEW h \in LibHandlers, NEW s \in Sources, DeleteSource(h, s)
  PROVE  LInv'
<1> DEFINE job == [op |-> "unlink", source |-> s]
<1>1. /\ source' = [source EXCEPT ![s] = Absent] /\ worker[h] = Vacant
      /\ worker' = [worker EXCEPT ![h] = job]
      /\ UNCHANGED <<quota, folder, file, queued, revived, parted>>
      /\ exceeded' \in BOOLEAN
  BY ExceedsIsBoolean DEF DeleteSource, Begin
<1>2. /\ DOMAIN source' = Sources /\ source'[s] = Absent
      /\ \A x \in Sources \ {s} : source'[x] = source[x]
      /\ DOMAIN worker' = LibHandlers /\ worker'[h] = job
      /\ \A k \in LibHandlers \ {h} : worker'[k] = worker[k]
  BY <1>1 DEF LInv, LibraryTypeOK
<1>3. Present' = Present \ {s} /\ FoldersMade' = FoldersMade
  BY <1>1, <1>2 DEF Present, FoldersMade
<1>4. LibraryTypeOK'
  BY <1>1, <1>2, <1>3 DEF LInv, LibraryTypeOK, Present
<1>5. WorkersFit'
  <2>1. ASSUME NEW k \in LibHandlers
        PROVE  (worker'[k] = Vacant \/ worker'[k] \in Jobs) /\ Fits(worker[k])'
    <3>1. CASE k = h
      <4>1. worker'[k] = job /\ job \in Jobs
        BY <1>2, <3>1 DEF Jobs
      <4> QED BY <1>3, <4>1 DEF Fits
    <3>2. CASE k # h
      <4>1. worker'[k] = worker[k] /\ (worker[k] = Vacant \/ worker[k] \in Jobs) /\ Fits(worker[k])
        BY <1>2, <3>2 DEF LInv, WorkersFit
      <4>2. worker[k].op = "patch" /\ worker[k].source \in Present' =>
              worker[k].row.kind = source'[worker[k].source].kind
        BY <1>2, <1>3, <4>1 DEF Fits, Present
      <4> QED BY <1>1, <1>3, <4>1, <4>2 DEF Fits, InProject, HasText
    <3> QED BY <3>1, <3>2
  <2> QED BY <2>1 DEF WorkersFit
<1>6. PatchesAgree'
  <2>1. \A k \in LibHandlers : worker'[k].op = "patch" => worker'[k] = worker[k]
    BY <1>2
  <2> QED BY <2>1 DEF LInv, PatchesAgree
<1>7. RowsFit' /\ FileOfSource'
  <2>1. \A x \in Present' : x \in Present /\ source'[x] = source[x]
    BY <1>2, <1>3 DEF Present
  <2> QED BY <1>1, <1>3, <2>1 DEF LInv, RowsFit, FileOfSource, InProject, HasText
<1> QED BY <1>4, <1>5, <1>6, <1>7 DEF LInv

(* The file goes when its row is gone. *)
LEMMA UnlinkKeeps ==
  ASSUME LInv, NEW h \in LibHandlers, Unlink(h)
  PROVE  LInv'
<1>1. worker[h].op = "unlink" /\ worker[h] # Vacant /\ End(h) /\ file' = file \ {worker[h].source}
      /\ UNCHANGED <<quota, source, folder, queued, exceeded, revived, parted>>
  BY DEF Unlink, Vacant
<1>2. Present' = Present /\ FoldersMade' = FoldersMade
  BY <1>1 DEF Present, FoldersMade
<1>3. LibraryTypeOK'
  BY <1>1, <1>2, EndLeaves DEF LInv, LibraryTypeOK
<1>4. WorkersFit'
  <2>1. ASSUME NEW k \in LibHandlers
        PROVE  (worker'[k] = Vacant \/ worker'[k] \in Jobs) /\ Fits(worker[k])'
    <3>1. CASE worker'[k] = Vacant
      BY <3>1 DEF Fits, Vacant
    <3>2. CASE worker'[k] # Vacant
      <4>1. worker'[k] = worker[k] /\ worker[k] \in Jobs /\ Fits(worker[k])
        BY <1>1, <3>2, EndLeaves DEF LInv, WorkersFit
      <4> QED BY <1>1, <1>2, <4>1 DEF Fits, InProject, HasText
    <3> QED BY <3>1, <3>2
  <2> QED BY <2>1 DEF WorkersFit
<1>5. PatchesAgree'
  <2>1. \A k \in LibHandlers : worker'[k].op = "patch" => worker'[k] = worker[k]
    BY <1>1, EndLeaves DEF Vacant
  <2> QED BY <2>1 DEF LInv, PatchesAgree
<1>6. RowsFit'
  BY <1>1, <1>2 DEF LInv, RowsFit, InProject, HasText
<1>7. FileOfSource'
  <2>1. worker[h].source \notin Present \/ worker[h].source \in revived
    BY <1>1, JobOf DEF LInv, Fits
  <2> QED BY <1>1, <1>2, <2>1 DEF LInv, FileOfSource
<1> QED BY <1>3, <1>4, <1>5, <1>6, <1>7 DEF LInv

(* A folder f gets the project p.  What is in it, or is joining it, has p, *)
(* or the folder has parted from it.                                       *)
LEMMA FolderSaved ==
  ASSUME LInv, NEW h \in LibHandlers, End(h), NEW f \in Folders, NEW p \in MaybeProjects,
         folder' = [folder EXCEPT ![f] = p],
         UNCHANGED <<quota, source, file, queued, revived>>,
         exceeded' \in BOOLEAN, parted' \in BOOLEAN, parted => parted',
         parted' \/ folder[f] = p \/ ~ Joining(f)
  PROVE  LInv'
<1>1. Present' = Present /\ FoldersMade' = FoldersMade \cup {f}
  <2>1. p # Gone
    BY LibraryAssumption DEF MaybeProjects, Gone, NoProject
  <2> QED BY <2>1 DEF Present, FoldersMade, LInv, LibraryTypeOK
<1>2. /\ folder'[f] = p /\ \A g \in Folders \ {f} : folder'[g] = folder[g]
      /\ folder' \in [Folders -> MaybeProjects \cup {Gone}]
  BY DEF LInv, LibraryTypeOK
<1>3. LibraryTypeOK'
  BY <1>1, <1>2, EndLeaves DEF LInv, LibraryTypeOK
<1>4. ASSUME NEW g, g # f \/ folder[f] = p, NEW q, InProject(g, q)
      PROVE  InProject(g, q)'
  <2>1. CASE g # f
    BY <1>1, <1>2, <1>4, <2>1 DEF InProject, FoldersMade
  <2>2. CASE g = f /\ folder[f] = p
    <3>1. f \in FoldersMade
      BY <2>2, LibraryAssumption DEF FoldersMade, MaybeProjects, Gone, NoProject
    <3> QED BY <1>1, <1>2, <1>4, <2>2, <3>1 DEF InProject
  <2> QED BY <1>4, <2>1, <2>2
<1>5. WorkersFit'
  <2>1. ASSUME NEW k \in LibHandlers
        PROVE  (worker'[k] = Vacant \/ worker'[k] \in Jobs) /\ Fits(worker[k])'
    <3>1. CASE worker'[k] = Vacant
      BY <3>1 DEF Fits, Vacant
    <3>2. CASE worker'[k] # Vacant
      <4>1. worker'[k] = worker[k] /\ worker[k] \in Jobs /\ Fits(worker[k])
        BY <3>2, EndLeaves DEF LInv, WorkersFit
      <4>2. PICK w : w = worker[k]
        OBVIOUS
      <4>3. ASSUME w.op = "upload"
            PROVE  parted' \/ InProject(w.folder, w.project)'
        <5>1. (parted \/ InProject(w.folder, w.project)) /\ (parted' \/ w.folder # f \/ folder[f] = p)
          BY <4>1, <4>2, <4>3 DEF Fits, Joining
        <5> QED BY <1>4, <5>1
      <4>4. ASSUME w.op = "patch"
            PROVE  parted' \/ InProject(w.row.folder, w.row.project)'
        <5>1. (parted \/ InProject(w.row.folder, w.row.project)) /\ (parted' \/ w.row.folder # f \/ folder[f] = p)
          BY <4>1, <4>2, <4>4 DEF Fits, Joining
        <5> QED BY <1>4, <5>1
      <4> QED BY <1>1, <4>1, <4>2, <4>3, <4>4 DEF Fits, HasText, InProject
    <3> QED BY <3>1, <3>2
  <2> QED BY <2>1 DEF WorkersFit
<1>6. PatchesAgree'
  <2>1. \A k \in LibHandlers : worker'[k].op = "patch" => worker'[k] = worker[k]
    BY EndLeaves DEF Vacant
  <2> QED BY <2>1 DEF LInv, PatchesAgree
<1>7. RowsFit'
  <2>1. ASSUME NEW s \in Present
        PROVE  /\ HasText(source[s])
               /\ parted' \/ (source[s].folder \in FoldersMade' => folder'[source[s].folder] \in {source[s].project, NoProject})
    <3>1. PICK row : row = source[s]
      OBVIOUS
    <3>2. HasText(row) /\ (parted \/ InProject(row.folder, row.project))
      BY <2>1, <3>1 DEF LInv, RowsFit
    <3>3. parted' \/ row.folder # f \/ folder[f] = p
      BY <2>1, <3>1 DEF Joining
    <3>4. parted' \/ InProject(row.folder, row.project)'
      BY <1>4, <3>2, <3>3
    <3> QED BY <3>1, <3>2, <3>4 DEF InProject
  <2> QED BY <1>1, <2>1 DEF RowsFit, InProject, HasText
<1>8. FileOfSource'
  BY <1>1 DEF LInv, FileOfSource
<1> QED BY <1>3, <1>5, <1>6, <1>7, <1>8 DEF LInv

LEMMA SaveFolderKeeps ==
  ASSUME LInv, NEW h \in LibHandlers, SaveFolder(h)
  PROVE  LInv'
<1>1. worker[h].op = "folder" /\ worker[h] # Vacant /\ End(h)
      /\ UNCHANGED <<quota, source, file, queued, exceeded, revived, parted>>
  BY DEF SaveFolder, Vacant
<1>2. PICK f \in FreshFolder : folder' = [folder EXCEPT ![f] = worker[h].project]
  BY DEF SaveFolder
<1>3. PICK p \in MaybeProjects : worker[h].project = p
  <2>1. worker[h] \in [op: {"folder"}, project: LibProjects]
    BY <1>1, JobOf, JobKinds DEF LInv
  <2> QED BY <2>1 DEF MaybeProjects
<1>4. f \in Folders /\ folder[f] = Gone
  BY <1>2 DEF FreshFolder
<1>5. ~ Joining(f)
  <2>1. \A s \in Present : source[s].folder # f
    BY <1>4, LibraryAssumption DEF LInv, LibraryTypeOK, FoldersMade
  <2>2. \A k \in LibHandlers : /\ worker[k].op = "upload" => worker[k].folder # f
                               /\ worker[k].op = "patch" => worker[k].row.folder # f
    BY <1>2 DEF FreshFolder
  <2> QED BY <2>1, <2>2 DEF Joining
<1>6. exceeded' \in BOOLEAN /\ parted' \in BOOLEAN /\ (parted => parted')
  BY <1>1 DEF LInv, LibraryTypeOK
<1> QED BY <1>1, <1>2, <1>3, <1>4, <1>5, <1>6, FolderSaved

LEMMA SaveFolderAgainKeeps ==
  ASSUME LInv, NEW h \in LibHandlers, SaveFolderAgain(h)
  PROVE  LInv'
<1>1. worker[h].op = "refolder" /\ worker[h] # Vacant /\ End(h)
      /\ UNCHANGED <<quota, source, file, queued, revived>>
  BY DEF SaveFolderAgain, Vacant
<1>2. worker[h] \in [op: {"refolder"}, folder: Folders, project: MaybeProjects]
  BY <1>1, JobOf, JobKinds DEF LInv
<1>3. PICK f \in Folders : worker[h].folder = f
  BY <1>2
<1>4. PICK p \in MaybeProjects : worker[h].project = p
  BY <1>2
<1>5. /\ folder' = [folder EXCEPT ![f] = p]
      /\ IF folder[f] = Gone THEN Exceeds(quota, source, folder') ELSE UNCHANGED exceeded
      /\ parted' = (parted \/ (Joining(f) /\ folder[f] # p))
  BY <1>3, <1>4 DEF SaveFolderAgain
<1>6. exceeded \in BOOLEAN /\ parted \in BOOLEAN
  BY DEF LInv, LibraryTypeOK
<1>7. exceeded' \in BOOLEAN
  BY <1>5, <1>6, ExceedsIsBoolean
<1>8. parted' \in BOOLEAN
  BY <1>5, <1>6, FlagIsBoolean, Zenon
<1>9. (parted => parted') /\ (parted' \/ folder[f] = p \/ ~ Joining(f))
  BY <1>5, Zenon
<1> QED BY <1>1, <1>5, <1>7, <1>8, <1>9, FolderSaved

(* The sources of a folder that goes stay, without it. *)
LEMMA DeleteFolderKeeps ==
  ASSUME LInv, NEW h \in LibHandlers, DeleteFolder(h)
  PROVE  LInv'
<1>1. worker[h].op = "unfolder" /\ worker[h] # Vacant /\ End(h)
      /\ UNCHANGED <<quota, file, queued, revived, parted>>
  BY DEF DeleteFolder, Vacant
<1>2. worker[h] \in [op: {"unfolder"}, folder: Folders]
  BY <1>1, JobOf, JobKinds DEF LInv
<1>3. PICK f \in Folders : worker[h].folder = f
  BY <1>2
<1>4. /\ folder' = [folder EXCEPT ![f] = Gone]
      /\ source' = [s \in Sources |-> IF s \in Present /\ source[s].folder = f
                                        THEN [source[s] EXCEPT !.folder = NoFolder] ELSE source[s]]
      /\ exceeded' \in BOOLEAN
  BY <1>3, ExceedsIsBoolean DEF DeleteFolder
<1>5. /\ FoldersMade' = FoldersMade \ {f} /\ \A g \in FoldersMade' : folder'[g] = folder[g]
      /\ folder' \in [Folders -> MaybeProjects \cup {Gone}]
  BY <1>4 DEF FoldersMade, LInv, LibraryTypeOK
<1>6. ASSUME NEW s \in Sources
      PROVE  /\ s \notin Present => source'[s] = Absent
             /\ s \in Present =>
                  /\ source'[s] \in SourceRow /\ source'[s] # Absent
                  /\ source'[s].kind = source[s].kind /\ source'[s].status = source[s].status
                  /\ source'[s].text = source[s].text /\ source'[s].project = source[s].project
                  /\ source'[s].folder = IF source[s].folder = f THEN NoFolder ELSE source[s].folder
  <2>1. CASE s \notin Present
    BY <1>4, <2>1 DEF Present
  <2>2. CASE s \in Present
    <3>1. source[s] \in SourceRow
      BY <2>2 DEF LInv, LibraryTypeOK, Present
    <3>2. source'[s] = IF source[s].folder = f THEN [source[s] EXCEPT !.folder = NoFolder] ELSE source[s]
      BY <1>4, <2>2
    <3> QED BY <2>2, <3>1, <3>2 DEF SourceRow, Absent
  <2> QED BY <2>1, <2>2
<1>7. Present' = Present
  BY <1>6 DEF Present
<1>8. LibraryTypeOK'
  <2>1. \A s \in Present : source'[s].folder \in FoldersMade' \cup {NoFolder}
    BY <1>5, <1>6 DEF LInv, LibraryTypeOK, Present
  <2>2. \A s \in Sources : source'[s] = Absent \/ source'[s] \in SourceRow
    BY <1>6
  <2>3. DOMAIN source' = Sources
    BY <1>4
  <2> QED BY <1>1, <1>4, <1>5, <1>7, <2>1, <2>2, <2>3, EndLeaves DEF LInv, LibraryTypeOK
<1>9. ASSUME NEW g, NEW q, InProject(g, q) PROVE InProject(g, q)'
  BY <1>5, <1>9 DEF InProject
<1>10. WorkersFit'
  <2>1. ASSUME NEW k \in LibHandlers
        PROVE  (worker'[k] = Vacant \/ worker'[k] \in Jobs) /\ Fits(worker[k])'
    <3>1. CASE worker'[k] = Vacant
      BY <3>1 DEF Fits, Vacant
    <3>2. CASE worker'[k] # Vacant
      <4>1. worker'[k] = worker[k] /\ worker[k] \in Jobs /\ Fits(worker[k])
        BY <1>1, <3>2, EndLeaves DEF LInv, WorkersFit
      <4>2. PICK w : w = worker[k]
        OBVIOUS
      <4>3. w.op = "upload" => parted \/ InProject(w.folder, w.project)'
        BY <1>9, <4>1, <4>2 DEF Fits
      <4>4. w.op = "patch" => parted \/ InProject(w.row.folder, w.row.project)'
        BY <1>9, <4>1, <4>2 DEF Fits
      <4>5. w.op = "patch" /\ w.source \in Present => w.row.kind = source'[w.source].kind
        BY <1>6, <4>1, <4>2 DEF Fits, Present
      <4> QED BY <1>1, <1>7, <4>1, <4>2, <4>3, <4>4, <4>5 DEF Fits, HasText, InProject
    <3> QED BY <3>1, <3>2
  <2> QED BY <2>1 DEF WorkersFit
<1>11. PatchesAgree'
  <2>1. \A k \in LibHandlers : worker'[k].op = "patch" => worker'[k] = worker[k]
    BY <1>1, EndLeaves DEF Vacant
  <2> QED BY <2>1 DEF LInv, PatchesAgree
<1>12. RowsFit'
  <2>1. ASSUME NEW s \in Present
        PROVE  /\ HasText(source'[s])
               /\ \/ parted
                  \/ source'[s].folder \in FoldersMade' => folder'[source'[s].folder] \in {source'[s].project, NoProject}
    <3>1. HasText(source[s]) /\ (parted \/ InProject(source[s].folder, source[s].project)) /\ s \in Sources
      BY <2>1 DEF LInv, RowsFit, Present
    <3>2. HasText(source'[s])
      BY <1>6, <2>1, <3>1 DEF HasText
    <3>3. CASE source[s].folder = f
      BY <1>5, <1>6, <2>1, <3>1, <3>2, <3>3, LibraryAssumption DEF FoldersMade
    <3>4. CASE source[s].folder # f
      BY <1>5, <1>6, <2>1, <3>1, <3>2, <3>4 DEF InProject
    <3> QED BY <3>3, <3>4
  <2> QED BY <1>1, <1>7, <2>1 DEF RowsFit, InProject, HasText
<1>13. FileOfSource'
  BY <1>1, <1>6, <1>7 DEF LInv, FileOfSource, Present
<1> QED BY <1>8, <1>10, <1>11, <1>12, <1>13 DEF LInv

LEMMA ChangeQuotaKeeps ==
  ASSUME LInv, NEW q \in Quotas, ChangeQuota(q)
  PROVE  LInv'
<1>1. /\ quota' = q /\ exceeded' \in BOOLEAN
      /\ UNCHANGED <<source, folder, file, queued, worker, revived, parted>>
  BY ExceedsIsBoolean DEF ChangeQuota
<1>2. LibraryTypeOK' /\ FileOfSource'
  BY <1>1 DEF LInv, LibraryTypeOK, Present, FoldersMade, FileOfSource
<1>3. WorkersFit' /\ PatchesAgree' /\ RowsFit'
  BY <1>1 DEF LInv, WorkersFit, PatchesAgree, RowsFit, Fits, InProject, HasText, Present, FoldersMade
<1> QED BY <1>2, <1>3 DEF LInv

LEMMA LInvInductive == LInv /\ [LibraryNext]_libraryVars => LInv'
<1> SUFFICES ASSUME LInv, [LibraryNext]_libraryVars PROVE LInv'
  OBVIOUS
<1>1. CASE UNCHANGED libraryVars
  <2>1. LibraryTypeOK' /\ FileOfSource'
    BY <1>1 DEF libraryVars, LInv, LibraryTypeOK, Present, FoldersMade, FileOfSource
  <2>2. WorkersFit' /\ PatchesAgree' /\ RowsFit'
    BY <1>1 DEF libraryVars, LInv, WorkersFit, PatchesAgree, RowsFit, Fits, InProject, HasText, Present,
                FoldersMade
  <2> QED BY <2>1, <2>2 DEF LInv
<1>2. CASE SourceStep(Kinds, Folders \cup {NoFolder}, MaybeProjects)
  BY <1>2, UploadKeeps, SaveUploadKeeps, AbortKeeps, DeleteSourceKeeps, FetchSourceKeeps, UnlinkKeeps,
     SaveSourceKeeps DEF SourceStep
<1>3. CASE WorkStep(LibProjects)
  BY <1>3, WorkKeeps, StartWorkKeeps, AskProcessingKeeps, DeriveKeeps, ChangeQuotaKeeps DEF WorkStep
<1>4. CASE FolderStep
  BY <1>4, FolderJobsKeep, SaveFolderKeeps, SaveFolderAgainKeeps, DeleteFolderKeeps DEF FolderStep
<1> QED BY <1>1, <1>2, <1>3, <1>4 DEF LibraryNext

(* Types of sources, folders, files and messages.                          *)
THEOREM LibraryTypeCorrect == LibrarySpec => []LibraryTypeOK
<1>1. LInv => LibraryTypeOK
  BY DEF LInv
<1> QED BY <1>1, InitLInv, LInvInductive, PTL DEF LibrarySpec

(* For any number of handlers and workers, whatever dies: the file of a    *)
(* source is there as long as its row, unless a stale save made the row.   *)
THEOREM SourcesHaveFiles == LibrarySpec => []FileOfSource
<1>1. LInv => FileOfSource
  BY DEF LInv
<1> QED BY <1>1, InitLInv, LInvInductive, PTL DEF LibrarySpec

(* A source has the project of its folder, until a folder in use moves.    *)
THEOREM FoldersAndSourcesAgree == LibrarySpec => []SourceInProjectOfFolder
<1>1. ASSUME LInv PROVE SourceInProjectOfFolder
  <2>1. \A s \in Present : source[s].folder # NoFolder => source[s].folder \in FoldersMade
    BY <1>1 DEF LInv, LibraryTypeOK
  <2> QED BY <1>1, <2>1 DEF LInv, RowsFit, InProject, SourceInProjectOfFolder
<1> QED BY <1>1, InitLInv, LInvInductive, PTL DEF LibrarySpec

(* What is ready has its text, and is made unready only by a worker or a   *)
(* PATCH that looked at it before.                                         *)
THEOREM ReadyRemainsReady == LibrarySpec => ReadyStaysReady
<1> DEFINE Excused(s) ==
      \E h \in LibHandlers :
        \/ worker[h].op = "work" /\ worker[h].source = s /\ worker[h].seen # "ready"
        \/ worker[h].op = "patch" /\ worker[h].source = s /\ worker[h].row.status # "ready"
           Stays(s) == source'[s] = Absent \/ source'[s].status = "ready" \/ Excused(s)
<1>1. ASSUME LInv, [LibraryNext]_libraryVars, NEW s \in Present, source[s].status = "ready"
      PROVE  Stays(s)
  <2>1. s \in Sources /\ DOMAIN source = Sources
    BY <1>1 DEF Present, LInv, LibraryTypeOK
  <2>2. CASE UNCHANGED source
    BY <1>1, <2>2
  <2>3. ASSUME NEW n \in FreshSource, NEW row, source' = [source EXCEPT ![n] = row]
        PROVE  Stays(s)
    <3>1. n # s
      BY <1>1, <2>3 DEF FreshSource
    <3> QED BY <1>1, <2>1, <2>3, <3>1
  <2>4. ASSUME NEW h \in LibHandlers, SaveUpload(h) PROVE Stays(s)
    BY <2>3, <2>4 DEF SaveUpload
  <2>5. ASSUME NEW p \in LibProjects, Derive(p) PROVE Stays(s)
    BY <2>3, <2>5 DEF Derive
  <2>6. ASSUME NEW h \in LibHandlers, SaveSource(h) PROVE Stays(s)
    <3>1. worker[h].op = "patch" /\ source' = [source EXCEPT ![worker[h].source] = worker[h].row]
      BY <2>6 DEF SaveSource
    <3> QED BY <1>1, <2>1, <3>1
  <2>7. ASSUME NEW h \in LibHandlers, Work(h) PROVE Stays(s)
    <3>1. worker[h].op = "work" /\ worker[h] # Vacant
      BY <2>7 DEF Work, Vacant
    <3>2. worker[h].seen # "ready"
      BY <1>1, <3>1, JobOf DEF LInv, Fits
    <3>3. source' = source \/ \E row : source' = [source EXCEPT ![worker[h].source] = row]
      BY <2>7 DEF Work
    <3> QED BY <1>1, <2>1, <3>1, <3>2, <3>3
  <2>8. ASSUME NEW h \in LibHandlers, NEW x \in Sources, DeleteSource(h, x) PROVE Stays(s)
    <3>1. source' = [source EXCEPT ![x] = Absent]
      BY <2>8 DEF DeleteSource
    <3> QED BY <1>1, <2>1, <3>1
  <2>9. ASSUME NEW h \in LibHandlers, DeleteFolder(h) PROVE Stays(s)
    <3>1. source[s] \in SourceRow
      BY <1>1, <2>1 DEF LInv, LibraryTypeOK, Present
    <3>2. source'[s] \in {source[s], [source[s] EXCEPT !.folder = NoFolder]}
      BY <2>1, <2>9 DEF DeleteFolder
    <3> QED BY <1>1, <3>1, <3>2 DEF SourceRow
  <2> HIDE DEF Stays
  <2> QED BY <1>1, <2>2, <2>4, <2>5, <2>6, <2>7, <2>8, <2>9 DEF LibraryNext, libraryVars, SourceStep, WorkStep,
         FolderStep, Upload, Abort, FetchSource, Unlink, StartWork, AskProcessing, ChangeQuota, CreateFolder,
         SaveFolder, FetchFolder, SaveFolderAgain, FetchEmptyFolder
<1>2. ASSUME LInv, NEW s \in Present, source[s].status = "ready"
      PROVE  source[s].kind # "audio" /\ source[s].text = TRUE
  BY <1>2 DEF LInv, RowsFit, HasText
<1>3. LInv /\ [LibraryNext]_libraryVars =>
        [\A s \in Present : source[s].status = "ready" =>
           /\ source[s].kind # "audio" /\ source[s].text
           /\ \/ source'[s] = Absent \/ source'[s].status = "ready"
              \/ \E h \in LibHandlers :
                   \/ worker[h].op = "work" /\ worker[h].source = s /\ worker[h].seen # "ready"
                   \/ worker[h].op = "patch" /\ worker[h].source = s /\ worker[h].row.status # "ready"]_libraryVars
  <2> SUFFICES ASSUME LInv, [LibraryNext]_libraryVars, NEW s \in Present, source[s].status = "ready"
               PROVE  source[s].kind # "audio" /\ source[s].text /\ Stays(s)
    BY Zenon
  <2> QED BY <1>1, <1>2, Zenon
<1> QED BY <1>3, InitLInv, LInvInductive, PTL DEF LibrarySpec, ReadyStaysReady

----------------------------------------------------------------------------
(* Quotas.  Of the rows of sources only which there are and of what kind   *)
(* matters: the storage they take is the total of their sizes.             *)

Sizes(sr) == [s \in Sources |-> Size(sr[s].kind)]
Made(sr)  == {s \in Sources : sr[s] # Absent}

LEMMA StorageIsTotal ==
  ASSUME NEW sr
  PROVE  Storage(sr) = Total(Sizes(sr), Made(sr))
<1>1. PICK S \in SUBSET Sources : S = Made(sr)
  BY DEF Made
<1>2. IsFiniteSet(S)
  BY LibraryAssumption, FS_Subset
<1>3. PICK w : w = Sizes(sr)
  OBVIOUS
<1>4. \A t \in SUBSET S : t # {} => w[First(t)] = Size(sr[First(t)].kind)
  BY <1>3, FirstIsIn DEF Sizes
<1> DEFINE P(g) == g = [t \in SUBSET S |-> IF t = {} THEN 0 ELSE Size(sr[First(t)].kind) + g[t \ {First(t)}]]
<1>5. \A g : P(g) <=> IsSum(g, w, S)
  BY <1>4 DEF IsSum
<1>6. Storage(sr) = (CHOOSE g : P(g))[S]
  BY <1>1, Zenon DEF Storage, MapThenSumSet, MapThenFoldSet, First, Made
<1>7. PICK g : g = CHOOSE h : P(h)
  OBVIOUS
<1>8. P(g)
  <2>1. \E h : P(h)
    BY <1>2, <1>5, SumExists
  <2> HIDE DEF P
  <2> QED BY <1>7, <2>1
<1>9. IsSum(g, w, S) /\ Storage(sr) = g[S]
  <2>1. IsSum(g, w, S)
    BY <1>5, <1>8
  <2>2. Storage(sr) = g[S]
    <3> HIDE DEF P
    <3> QED BY <1>6, <1>7
  <2> QED BY <2>1, <2>2
<1>10. PICK h : IsSum(h, w, S) /\ \A t \in SUBSET S : h[t] = Total(w, t)
  BY <1>2, TotalIs
<1>11. g[S] = h[S]
  BY <1>2, <1>9, <1>10, SumIsOne
<1> QED BY <1>1, <1>3, <1>9, <1>10, <1>11

SomeKinds == Kinds \cup {"derived"}
Sized(sr) == \A s \in Made(sr) : sr[s].kind \in SomeKinds

LEMMA SizeIsNat == \A kind \in SomeKinds : Size(kind) \in Nat
BY LibraryAssumption DEF Size, SomeKinds, Kinds

(* Fewer sources, each of the size it had, take no more. *)
LEMMA StorageOfLess ==
  ASSUME NEW sr, NEW tr, Sized(sr), Made(tr) \subseteq Made(sr),
         \A s \in Made(tr) : tr[s].kind = sr[s].kind
  PROVE  /\ CountOf(tr) <= CountOf(sr) /\ CountOf(tr) \in Nat /\ CountOf(sr) \in Nat
         /\ Storage(tr) <= Storage(sr) /\ Storage(tr) \in Nat /\ Storage(sr) \in Nat
<1>1. PICK S \in SUBSET Sources : S = Made(sr)
  BY DEF Made
<1>2. PICK T \in SUBSET S : T = Made(tr)
  BY <1>1
<1>3. IsFiniteSet(S) /\ IsFiniteSet(T)
  BY LibraryAssumption, FS_Subset
<1>4. PICK w, v : w = Sizes(sr) /\ v = Sizes(tr)
  OBVIOUS
<1>5. \A s \in S : w[s] \in Nat
  BY <1>1, <1>4, SizeIsNat DEF Sized, Sizes
<1>6. \A s \in T : v[s] = w[s]
  BY <1>1, <1>2, <1>4 DEF Sizes
<1>7. Total(v, T) = Total(w, T)
  BY <1>3, <1>6, TotalOfSame
<1>8. Total(w, T) <= Total(w, S)
  BY <1>3, <1>5, TotalOfPart
<1>9. Total(w, T) \in Nat /\ Total(w, S) \in Nat
  BY <1>3, <1>5, TotalIsNat
<1>10. Cardinality(T) <= Cardinality(S) /\ Cardinality(T) \in Nat /\ Cardinality(S) \in Nat
  BY <1>3, FS_Subset, FS_CardinalityType
<1>11. CountOf(sr) = Cardinality(S) /\ CountOf(tr) = Cardinality(T)
  BY <1>1, <1>2 DEF CountOf, Made
<1>12. Storage(sr) = Total(w, S) /\ Storage(tr) = Total(v, T)
  BY <1>1, <1>2, <1>4, StorageIsTotal
<1> QED BY <1>7, <1>8, <1>9, <1>10, <1>11, <1>12

(* One more source takes its own size more. *)
LEMMA StorageOfMore ==
  ASSUME NEW sr, NEW tr, Sized(sr), NEW s \in Sources, s \notin Made(sr), Made(tr) = Made(sr) \cup {s},
         \A z \in Made(sr) : tr[z].kind = sr[z].kind, tr[s].kind \in SomeKinds
  PROVE  /\ CountOf(tr) = CountOf(sr) + 1 /\ CountOf(sr) \in Nat
         /\ Storage(tr) = Storage(sr) + Size(tr[s].kind) /\ Storage(sr) \in Nat /\ Size(tr[s].kind) \in Nat
<1>1. PICK S \in SUBSET Sources : S = Made(sr)
  BY DEF Made
<1>2. PICK T \in SUBSET Sources : T = Made(tr) /\ T = S \cup {s}
  BY <1>1
<1>3. IsFiniteSet(S) /\ IsFiniteSet(T)
  BY LibraryAssumption, FS_Subset
<1>4. PICK w, v : w = Sizes(sr) /\ v = Sizes(tr)
  OBVIOUS
<1>5. \A z \in S : w[z] \in Nat /\ v[z] = w[z]
  BY <1>1, <1>4, SizeIsNat DEF Sized, Sizes
<1>6. v[s] = Size(tr[s].kind) /\ v[s] \in Nat
  BY <1>4, SizeIsNat DEF Sizes
<1>7. \A z \in S \cup {s} : v[z] \in Nat
  BY <1>5, <1>6
<1>8. Total(v, T) = v[s] + Total(v, S) /\ Total(v, S) \in Nat
  <2>1. s \notin S
    BY <1>1
  <2>2. Total(v, S \cup {s}) = v[s] + Total(v, S)
    BY <1>3, <1>7, <2>1, TotalWith
  <2>3. Total(v, S) \in Nat
    BY <1>3, <1>7, TotalIsNat
  <2> QED BY <1>2, <2>2, <2>3
<1>9. Total(v, S) = Total(w, S)
  BY <1>3, <1>5, TotalOfSame
<1>10. Cardinality(T) = Cardinality(S) + 1 /\ Cardinality(S) \in Nat
  BY <1>1, <1>2, <1>3, FS_AddElement, FS_CardinalityType
<1>11. CountOf(sr) = Cardinality(S) /\ CountOf(tr) = Cardinality(T)
  BY <1>1, <1>2 DEF CountOf, Made
<1>12. Storage(sr) = Total(w, S) /\ Storage(tr) = Total(v, T)
  BY <1>1, <1>2, <1>4, StorageIsTotal
<1> QED BY <1>6, <1>8, <1>9, <1>10, <1>11, <1>12

(* At most one more folder counts at most one more. *)
LEMMA FoldersCounted ==
  ASSUME NEW fo, NEW go, NEW F, F = {f \in Folders : fo[f] # Gone}, NEW G, G = {f \in Folders : go[f] # Gone}
  PROVE  /\ Cardinality(F) \in Nat /\ Cardinality(G) \in Nat
         /\ G \subseteq F => Cardinality(G) <= Cardinality(F)
         /\ \A f \in Folders : G = F \cup {f} => Cardinality(G) <= Cardinality(F) + 1
<1>1. IsFiniteSet(F) /\ IsFiniteSet(G)
  BY LibraryAssumption, FS_Subset
<1>2. Cardinality(F) \in Nat /\ Cardinality(G) \in Nat
  BY <1>1, FS_CardinalityType
<1>3. G \subseteq F => Cardinality(G) <= Cardinality(F)
  BY <1>1, FS_Subset
<1>4. ASSUME NEW f \in Folders, G = F \cup {f} PROVE Cardinality(G) <= Cardinality(F) + 1
  <2>1. Cardinality(G) = IF f \in F THEN Cardinality(F) ELSE Cardinality(F) + 1
    BY <1>1, <1>4, FS_AddElement
  <2> QED BY <1>2, <2>1
<1> QED BY <1>2, <1>3, <1>4

(* Who adds holds the lock on the user row, alone, and as long as the plan *)
(* is not exceeded there is still the room that he saw: the handlers that  *)
(* take no lock leave room, or say that they may have exceeded the plan.   *)

Adding == {"upload", "folder"}

OneAdds == \A h, k \in LibHandlers : worker[h].op \in Adding /\ worker[k].op \in Adding => h = k

RoomFor(w) == /\ w.op = "upload" => CanUpload(w.kind)
              /\ w.op = "folder" => CanCreateFolder

RoomKept ==
  exceeded = FALSE => /\ Within(quota, source, folder)
                      /\ \A h \in LibHandlers : RoomFor(worker[h])

QuotaInv == OneAdds /\ RoomKept

LEMMA InitQuotaInv == LibraryInit => QuotaInv
<1> SUFFICES ASSUME LibraryInit PROVE QuotaInv
  OBVIOUS
<1>1. OneAdds /\ \A h \in LibHandlers : RoomFor(worker[h])
  BY DEF LibraryInit, OneAdds, RoomFor, Adding, Vacant
<1>2. Made(source) = {} /\ {f \in Folders : folder[f] # Gone} = {}
  BY DEF LibraryInit, Made
<1>3. CountOf(source) = 0 /\ Storage(source) = 0
  BY <1>2, StorageIsTotal, TotalOfNone, FS_EmptySet DEF CountOf, Made
<1>4. quota \in [sources: Nat, storage: Nat, folders: Nat]
  BY LibraryAssumption DEF LibraryInit
<1> QED BY <1>1, <1>2, <1>3, <1>4, FS_EmptySet DEF QuotaInv, RoomKept, Within

LEMMA SourcesAreSized ==
  ASSUME LInv
  PROVE  /\ Sized(source) /\ Made(source) = Present
         /\ quota \in [sources: Nat, storage: Nat, folders: Nat]
         /\ DOMAIN worker = LibHandlers /\ DOMAIN source = Sources /\ exceeded \in BOOLEAN
<1>1. Made(source) = Present
  BY DEF Made, Present
<1>2. ASSUME NEW s \in Present PROVE source[s].kind \in SomeKinds
  BY DEF LInv, LibraryTypeOK, Present, SourceRow, SomeKinds
<1>3. /\ quota \in [sources: Nat, storage: Nat, folders: Nat]
      /\ DOMAIN worker = LibHandlers /\ DOMAIN source = Sources /\ exceeded \in BOOLEAN
  BY LibraryAssumption DEF LInv, LibraryTypeOK
<1> QED BY <1>1, <1>2, <1>3 DEF Sized

LEMMA LockedIsAdding == UserLocked <=> \E h \in LibHandlers : worker[h].op \in Adding
BY DEF UserLocked, WorkersIn, Adding

(* No handler begins to add, and no row or folder comes, unless the user   *)
(* is looked at again.                                                     *)
LEMMA RoomStays ==
  ASSUME LInv, QuotaInv,
         \A h \in LibHandlers : worker'[h].op \in Adding => worker'[h] = worker[h],
         exceeded' \in BOOLEAN,
         exceeded' = FALSE =>
           \/ ~ UserLocked' /\ Within(quota', source', folder')
           \/ /\ exceeded = FALSE /\ quota' = quota
              /\ Made(source') \subseteq Made(source)
              /\ \A s \in Made(source') : source'[s].kind = source[s].kind
              /\ {f \in Folders : folder'[f] # Gone} \subseteq FoldersMade
  PROVE  QuotaInv'
<1>1. OneAdds'
  BY DEF QuotaInv, OneAdds
<1>2. CASE exceeded' = FALSE /\ ~ UserLocked' /\ Within(quota', source', folder')
  <2>1. \A h \in LibHandlers : worker'[h].op \notin Adding
    BY <1>2 DEF UserLocked, WorkersIn, Adding
  <2>2. \A h \in LibHandlers : RoomFor(worker[h])'
    BY <2>1 DEF RoomFor, Adding
  <2> QED BY <1>1, <1>2, <2>2 DEF QuotaInv, RoomKept
<1>3. CASE /\ exceeded = FALSE /\ quota' = quota
           /\ Made(source') \subseteq Made(source)
           /\ \A s \in Made(source') : source'[s].kind = source[s].kind
           /\ {f \in Folders : folder'[f] # Gone} \subseteq FoldersMade
  <2>1. /\ CountOf(source') <= CountOf(source) /\ CountOf(source') \in Nat /\ CountOf(source) \in Nat
        /\ Storage(source') <= Storage(source) /\ Storage(source') \in Nat /\ Storage(source) \in Nat
    BY <1>3, SourcesAreSized, StorageOfLess
  <2>2. PICK F, G : /\ F = {f \in Folders : folder[f] # Gone} /\ G = {f \in Folders : folder'[f] # Gone}
                    /\ G \subseteq F
    BY <1>3 DEF FoldersMade
  <2>3. Cardinality(G) <= Cardinality(F) /\ Cardinality(G) \in Nat /\ Cardinality(F) \in Nat
    BY <2>2, FoldersCounted
  <2>4. FoldersMade = F /\ FoldersMade' = G
    BY <2>2 DEF FoldersMade
  <2>5. Within(quota, source, folder) /\ \A h \in LibHandlers : RoomFor(worker[h])
    BY <1>3 DEF QuotaInv, RoomKept
  <2>6. Within(quota', source', folder')
    BY <1>3, <2>1, <2>2, <2>3, <2>5, SourcesAreSized DEF Within
  <2>7. ASSUME NEW h \in LibHandlers PROVE RoomFor(worker[h])'
    <3>1. CASE worker'[h].op = "upload"
      <4>1. worker'[h] = worker[h]
        BY <3>1 DEF Adding
      <4>2. PICK kind : kind = worker[h].kind
        OBVIOUS
      <4>3. CanUpload(kind)
        BY <2>5, <3>1, <4>1, <4>2 DEF RoomFor
      <4>4. kind \in SomeKinds
        BY <3>1, <4>1, <4>2, JobKinds DEF LInv, WorkersFit, Vacant, SomeKinds
      <4>5. CanUpload(kind)'
        BY <1>3, <2>1, <4>3, <4>4, SourcesAreSized, SizeIsNat DEF CanUpload
      <4> QED BY <3>1, <4>1, <4>2, <4>5 DEF RoomFor
    <3>2. CASE worker'[h].op = "folder"
      <4>1. worker'[h] = worker[h]
        BY <3>2 DEF Adding
      <4>2. CanCreateFolder
        BY <2>5, <3>2, <4>1 DEF RoomFor
      <4>3. CanCreateFolder'
        BY <1>3, <2>3, <2>4, <4>2, SourcesAreSized DEF CanCreateFolder
      <4> QED BY <3>2, <4>3 DEF RoomFor
    <3> QED BY <3>1, <3>2 DEF RoomFor
  <2> QED BY <1>1, <2>6, <2>7 DEF QuotaInv, RoomKept
<1>4. CASE exceeded' # FALSE
  BY <1>1, <1>4 DEF QuotaInv, RoomKept
<1> QED BY <1>2, <1>3, <1>4

(* A handler that is idle, or takes up a job that adds nothing.            *)
LEMMA TakesUp ==
  ASSUME LInv, NEW h \in LibHandlers, NEW job, job.op \notin Adding,
         worker' = [worker EXCEPT ![h] = job] \/ worker' = worker
  PROVE  /\ \A k \in LibHandlers : worker'[k].op \in Adding => worker'[k] = worker[k]
         /\ UserLocked' => UserLocked
<1>1. \A k \in LibHandlers : worker'[k].op \in Adding => worker'[k] = worker[k]
  BY SourcesAreSized
<1>2. UserLocked' => UserLocked
  BY <1>1, LockedIsAdding DEF UserLocked, WorkersIn, Adding
<1> QED BY <1>1, <1>2

(* The handlers that leave every row where it is, or of its kind.          *)
LEMMA ReadersKeepRoom ==
  ASSUME LInv, QuotaInv, LInv', NEW h \in LibHandlers,
         \/ Abort(h) \/ Work(h) \/ Unlink(h)
         \/ \E s \in Sources : \/ StartWork(h, s) \/ AskProcessing(s)
                               \/ \E f \in Folders \cup {NoFolder}, p \in MaybeProjects : FetchSource(h, s, f, p)
         \/ \E f \in Folders : \/ FetchEmptyFolder(h, f)
                               \/ \E p \in MaybeProjects : FetchFolder(h, f, p)
  PROVE  QuotaInv'
<1>1. PICK job : job.op \notin Adding /\ (worker' = [worker EXCEPT ![h] = job] \/ worker' = worker)
  <2>1. CASE Abort(h) \/ Work(h) \/ Unlink(h)
    BY <2>1 DEF Abort, Work, Unlink, End, Vacant, Adding
  <2>2. ASSUME NEW s \in Sources, StartWork(h, s)
        PROVE  \E j : j.op \notin Adding /\ (worker' = [worker EXCEPT ![h] = j] \/ worker' = worker)
    <3>1. Vacant.op \notin Adding
      BY DEF Vacant, Adding
    <3>2. [op |-> "work", source |-> s, seen |-> source[s].status].op \notin Adding
      BY DEF Adding
    <3> QED BY <2>2, <3>1, <3>2, Zenon DEF StartWork, Begin
  <2>3. ASSUME NEW s \in Sources, AskProcessing(s)
        PROVE  \E j : j.op \notin Adding /\ (worker' = [worker EXCEPT ![h] = j] \/ worker' = worker)
    <3>1. Vacant.op \notin Adding /\ worker' = worker
      BY <2>3 DEF AskProcessing, Vacant, Adding
    <3> QED BY <3>1
  <2>4. ASSUME NEW s \in Sources, NEW f \in Folders \cup {NoFolder}, NEW p \in MaybeProjects, FetchSource(h, s, f, p)
        PROVE  \E j : j.op \notin Adding /\ (worker' = [worker EXCEPT ![h] = j] \/ worker' = worker)
    <3>1. [op |-> "patch", source |-> s, row |-> Updated(source[s], f, p)].op \notin Adding
      BY DEF Adding
    <3> QED BY <2>4, <3>1, Zenon DEF FetchSource, Begin
  <2>5. ASSUME NEW f \in Folders, FetchEmptyFolder(h, f)
        PROVE  \E j : j.op \notin Adding /\ (worker' = [worker EXCEPT ![h] = j] \/ worker' = worker)
    BY <2>5 DEF FetchEmptyFolder, Begin, Adding
  <2>6. ASSUME NEW f \in Folders, NEW p \in MaybeProjects, FetchFolder(h, f, p)
        PROVE  \E j : j.op \notin Adding /\ (worker' = [worker EXCEPT ![h] = j] \/ worker' = worker)
    BY <2>6 DEF FetchFolder, Begin, Adding
  <2> QED BY <2>1, <2>2, <2>3, <2>4, <2>5, <2>6
<1>2. quota' = quota /\ exceeded' = exceeded /\ folder' = folder
  BY DEF Abort, Work, Unlink, StartWork, AskProcessing, FetchSource, FetchEmptyFolder, FetchFolder
<1>3. Made(source') = Made(source) /\ \A s \in Made(source) : source'[s].kind = source[s].kind
  <2>1. CASE source' = source
    BY <2>1
  <2>2. CASE Work(h) /\ worker[h].source \in Present
    <3>1. PICK s, readable : s = worker[h].source /\ source' = [source EXCEPT ![s] = Processed(@, readable)]
      BY <2>2 DEF Work
    <3>2. PICK row : row = source[s] /\ row \in SourceRow /\ row # Absent
      BY <2>2, <3>1 DEF LInv, LibraryTypeOK, Present
    <3>3. PICK new : new = Processed(row, readable)
      OBVIOUS
    <3>4. new.kind = row.kind /\ new # Absent
      BY <3>2, <3>3 DEF Processed, SourceRow, Absent, Kinds
    <3>5. source' = [source EXCEPT ![s] = new]
      BY <3>1, <3>2, <3>3
    <3> QED BY <3>2, <3>4, <3>5, SourcesAreSized DEF Made
  <2> QED BY <2>1, <2>2 DEF Abort, Work, Unlink, StartWork, AskProcessing, FetchSource, FetchEmptyFolder,
                            FetchFolder
<1>4. \A k \in LibHandlers : worker'[k].op \in Adding => worker'[k] = worker[k]
  BY <1>1, TakesUp
<1>5. exceeded' \in BOOLEAN
  BY DEF LInv, LibraryTypeOK
<1> QED BY <1>2, <1>3, <1>4, <1>5, RoomStays DEF FoldersMade

(* What may exceed the quota is looked at again.                           *)
LEMMA LooseChangesKeepRoom ==
  ASSUME LInv, QuotaInv, LInv',
         \/ \E p \in LibProjects : Derive(p)
         \/ \E q \in Quotas : ChangeQuota(q)
  PROVE  QuotaInv'
<1>1. worker' = worker /\ exceeded' = (UserLocked \/ ~ Within(quota', source', folder'))
  BY DEF Derive, ChangeQuota, Exceeds
<1>2. UserLocked' <=> UserLocked
  BY <1>1 DEF UserLocked, WorkersIn
<1>3. exceeded' \in BOOLEAN
  BY DEF LInv, LibraryTypeOK
<1> QED BY <1>1, <1>2, <1>3, RoomStays

LEMMA SaveSourceKeepsRoom ==
  ASSUME LInv, QuotaInv, LInv', NEW h \in LibHandlers, SaveSource(h)
  PROVE  QuotaInv'
<1>1. PICK w, s, row : w = worker[h] /\ s = w.source /\ row = w.row
  OBVIOUS
<1>2. w \in [op: {"patch"}, source: Sources, row: SourceRow] /\ Fits(w)
  BY <1>1, JobOf, JobKinds DEF SaveSource, LInv, Vacant
<1>3. /\ source' = [source EXCEPT ![s] = row] /\ quota' = quota /\ folder' = folder
      /\ worker' = [worker EXCEPT ![h] = Vacant]
      /\ s \in Present => exceeded' = exceeded
      /\ s \notin Present => exceeded' = (UserLocked \/ ~ Within(quota, source', folder))
  BY <1>1 DEF SaveSource, End, Exceeds
<1>4. /\ \A k \in LibHandlers : worker'[k].op \in Adding => worker'[k] = worker[k]
      /\ UserLocked' => UserLocked
  <2>1. Vacant.op \notin Adding
    BY DEF Vacant, Adding
  <2> QED BY <1>3, <2>1, TakesUp
<1>5. CASE s \in Present
  <2>1. row.kind = source[s].kind /\ row # Absent
    BY <1>1, <1>2, <1>5 DEF Fits, SourceRow, Absent
  <2>2. s \in Sources
    BY <1>1, <1>2
  <2>3. Made(source') = Made(source) /\ \A z \in Made(source) : source'[z].kind = source[z].kind
    BY <1>3, <1>5, <2>1, <2>2, SourcesAreSized DEF Made, Present
  <2>4. exceeded' \in BOOLEAN
    BY DEF LInv, LibraryTypeOK
  <2> QED BY <1>3, <1>4, <1>5, <2>3, <2>4, RoomStays DEF FoldersMade
<1>6. CASE s \notin Present
  <2>1. exceeded' = FALSE => ~ UserLocked' /\ Within(quota', source', folder')
    BY <1>3, <1>4, <1>6
  <2>2. exceeded' \in BOOLEAN
    BY DEF LInv, LibraryTypeOK
  <2> QED BY <1>4, <2>1, <2>2, RoomStays
<1> QED BY <1>5, <1>6

LEMMA DeletesKeepRoom ==
  ASSUME LInv, QuotaInv, LInv', NEW h \in LibHandlers,
         DeleteFolder(h) \/ \E s \in Sources : DeleteSource(h, s)
  PROVE  QuotaInv'
<1>1. PICK job : job.op \notin Adding /\ worker' = [worker EXCEPT ![h] = job]
  <2>1. CASE DeleteFolder(h)
    BY <2>1 DEF DeleteFolder, End, Vacant, Adding
  <2>2. ASSUME NEW s \in Sources, DeleteSource(h, s)
        PROVE  \E j : j.op \notin Adding /\ worker' = [worker EXCEPT ![h] = j]
    BY <2>2 DEF DeleteSource, Begin, Adding
  <2> QED BY <2>1, <2>2
<1>2. quota' = quota /\ exceeded' = (exceeded /\ (UserLocked' \/ ~ Within(quota, source', folder')))
  <2>1. CASE DeleteFolder(h)
    BY <2>1 DEF DeleteFolder, StillExceeds
  <2>2. ASSUME NEW s \in Sources, DeleteSource(h, s)
        PROVE  quota' = quota /\ exceeded' = (exceeded /\ (UserLocked' \/ ~ Within(quota, source', folder')))
    BY <2>2, Zenon DEF DeleteSource, StillExceeds
  <2> QED BY <2>1, <2>2
<1>3. /\ Made(source') \subseteq Made(source) /\ \A s \in Made(source') : source'[s].kind = source[s].kind
      /\ {f \in Folders : folder'[f] # Gone} \subseteq FoldersMade
  <2>1. CASE DeleteFolder(h)
    <3>1. PICK g : g = worker[h].folder
      OBVIOUS
    <3>2. /\ folder' = [folder EXCEPT ![g] = Gone]
          /\ source' = [s \in Sources |-> IF s \in Present /\ source[s].folder = g
                                            THEN [source[s] EXCEPT !.folder = NoFolder] ELSE source[s]]
      BY <2>1, <3>1 DEF DeleteFolder
    <3>3. \A s \in Present : [source[s] EXCEPT !.folder = NoFolder].kind = source[s].kind
      BY DEF LInv, LibraryTypeOK, Present, SourceRow
    <3>4. \A s \in Made(source') : s \in Made(source) /\ source'[s].kind = source[s].kind
      BY <3>2, <3>3 DEF Made, Present
    <3>5. \A f \in Folders : folder'[f] # Gone => folder[f] # Gone
      BY <3>2 DEF LInv, LibraryTypeOK
    <3> QED BY <3>4, <3>5 DEF FoldersMade
  <2>2. ASSUME NEW s \in Sources, DeleteSource(h, s)
        PROVE  /\ Made(source') \subseteq Made(source) /\ \A z \in Made(source') : source'[z].kind = source[z].kind
               /\ folder' = folder
    BY <2>2, SourcesAreSized DEF DeleteSource, Made
  <2>3. folder' = folder => {f \in Folders : folder'[f] # Gone} \subseteq FoldersMade
    BY DEF FoldersMade
  <2> QED BY <2>1, <2>2, <2>3
<1>4. exceeded \in BOOLEAN /\ exceeded' \in BOOLEAN
  BY DEF LInv, LibraryTypeOK
<1>5. exceeded' = FALSE => exceeded = FALSE \/ (~ UserLocked' /\ Within(quota', source', folder'))
  BY <1>2, <1>4
<1>6. \A k \in LibHandlers : worker'[k].op \in Adding => worker'[k] = worker[k]
  BY <1>1, TakesUp
<1> QED BY <1>2, <1>3, <1>4, <1>5, <1>6, RoomStays

LEMMA SaveFolderAgainKeepsRoom ==
  ASSUME LInv, QuotaInv, LInv', NEW h \in LibHandlers, SaveFolderAgain(h)
  PROVE  QuotaInv'
<1>1. PICK f, p : f = worker[h].folder /\ p = worker[h].project
  OBVIOUS
<1>2. /\ folder' = [folder EXCEPT ![f] = p] /\ quota' = quota /\ source' = source
      /\ worker' = [worker EXCEPT ![h] = Vacant]
      /\ folder[f] = Gone => exceeded' = (UserLocked \/ ~ Within(quota, source, folder'))
      /\ folder[f] # Gone => exceeded' = exceeded
  BY <1>1 DEF SaveFolderAgain, End, Exceeds
<1>3. /\ \A k \in LibHandlers : worker'[k].op \in Adding => worker'[k] = worker[k]
      /\ UserLocked' => UserLocked
  <2>1. Vacant.op \notin Adding
    BY DEF Vacant, Adding
  <2> QED BY <1>2, <2>1, TakesUp
<1>4. exceeded' \in BOOLEAN
  BY DEF LInv, LibraryTypeOK
<1>5. CASE folder[f] = Gone
  BY <1>2, <1>3, <1>4, <1>5, RoomStays
<1>6. CASE folder[f] # Gone
  <2>1. {g \in Folders : folder'[g] # Gone} \subseteq FoldersMade
    BY <1>2, <1>6 DEF FoldersMade, LInv, LibraryTypeOK
  <2> QED BY <1>2, <1>3, <1>4, <1>6, <2>1, RoomStays
<1> QED BY <1>5, <1>6

(* Whoever begins to add has the user to himself, and looked.              *)
LEMMA BeginKeepsRoom ==
  ASSUME LInv, QuotaInv, NEW h \in LibHandlers,
         \/ \E kind \in Kinds, f \in Folders \cup {NoFolder}, p \in MaybeProjects : Upload(h, kind, f, p)
         \/ \E p \in LibProjects : CreateFolder(h, p)
  PROVE  QuotaInv'
<1>1. ~ UserLocked /\ UNCHANGED <<quota, source, folder, exceeded>>
  BY DEF Upload, CreateFolder
<1>2. PICK job : worker' = [worker EXCEPT ![h] = job] /\ RoomFor(job)
  <2>1. ASSUME NEW kind \in Kinds, NEW f \in Folders \cup {NoFolder}, NEW p \in MaybeProjects, Upload(h, kind, f, p)
        PROVE  \E j : worker' = [worker EXCEPT ![h] = j] /\ RoomFor(j)
    <3>1. PICK at : at = ProjectIn(f, p)
      OBVIOUS
    <3>2. worker' = [worker EXCEPT ![h] = [op |-> "upload", kind |-> kind, folder |-> f, project |-> at]]
          /\ CanUpload(kind)
      BY <2>1, <3>1 DEF Upload, Begin
    <3>3. PICK j : j = [op |-> "upload", kind |-> kind, folder |-> f, project |-> at]
      OBVIOUS
    <3>4. RoomFor(j)
      BY <3>2, <3>3 DEF RoomFor
    <3> QED BY <3>2, <3>3, <3>4
  <2>2. ASSUME NEW p \in LibProjects, CreateFolder(h, p)
        PROVE  \E j : worker' = [worker EXCEPT ![h] = j] /\ RoomFor(j)
    BY <2>2 DEF CreateFolder, Begin, RoomFor
  <2> QED BY <2>1, <2>2
<1>3. \A k \in LibHandlers : worker[k].op \notin Adding
  BY <1>1, LockedIsAdding
<1>4. worker'[h] = job /\ \A k \in LibHandlers \ {h} : worker'[k] = worker[k]
  BY <1>2, SourcesAreSized
<1>5. OneAdds'
  BY <1>3, <1>4 DEF OneAdds
<1>6. \A k \in LibHandlers : RoomFor(worker'[k])
  BY <1>2, <1>3, <1>4 DEF RoomFor, Adding
<1>7. \A k \in LibHandlers : RoomFor(worker[k])'
  BY <1>1, <1>6 DEF RoomFor, CanUpload, CanCreateFolder, FoldersMade
<1>8. exceeded' = FALSE => Within(quota', source', folder')
  BY <1>1 DEF QuotaInv, RoomKept
<1> QED BY <1>5, <1>7, <1>8 DEF QuotaInv, RoomKept

(* When it has added, nobody adds: there was room for one.                 *)
LEMMA NobodyAdds ==
  ASSUME LInv, QuotaInv, NEW h \in LibHandlers, worker[h].op \in Adding,
         worker' = [worker EXCEPT ![h] = Vacant]
  PROVE  OneAdds' /\ (\A k \in LibHandlers : RoomFor(worker[k])') /\ ~ UserLocked'
<1>1. \A k \in LibHandlers : worker'[k].op \notin Adding
  <2>1. Vacant.op \notin Adding
    BY DEF Vacant, Adding
  <2> QED BY <2>1, SourcesAreSized DEF QuotaInv, OneAdds
<1>2. \A k \in LibHandlers : worker'[k].op # "upload" /\ worker'[k].op # "folder"
  BY <1>1 DEF Adding
<1>3. OneAdds' /\ ~ UserLocked'
  BY <1>1, <1>2 DEF OneAdds, UserLocked, WorkersIn
<1>4. \A k \in LibHandlers : RoomFor(worker[k])'
  BY <1>2 DEF RoomFor
<1> QED BY <1>3, <1>4

LEMMA SaveUploadKeepsRoom ==
  ASSUME LInv, QuotaInv, LInv', NEW h \in LibHandlers, SaveUpload(h)
  PROVE  QuotaInv'
<1>1. PICK w : w = worker[h]
  OBVIOUS
<1>2. w \in [op: {"upload"}, kind: Kinds, folder: Folders \cup {NoFolder}, project: MaybeProjects]
  BY <1>1, JobOf, JobKinds DEF SaveUpload, LInv, Vacant
<1>3. PICK kind, row : kind = w.kind /\ row = [kind |-> w.kind, status |-> "uploaded", text |-> FALSE,
                                             folder |-> w.folder, project |-> w.project]
  OBVIOUS
<1>4. kind \in SomeKinds /\ row.kind = kind /\ row # Absent
  BY <1>2, <1>3 DEF SomeKinds, Absent, Kinds
<1>5. PICK s \in FreshSource : source' = [source EXCEPT ![s] = row]
  BY <1>1, <1>3 DEF SaveUpload
<1>6. s \in Sources /\ s \notin Present
  BY <1>5 DEF FreshSource
<1>7. worker' = [worker EXCEPT ![h] = Vacant] /\ quota' = quota /\ folder' = folder
      /\ exceeded' = (exceeded /\ (UserLocked' \/ ~ Within(quota, source', folder)))
  BY DEF SaveUpload, End, StillExceeds
<1>8. OneAdds' /\ (\A k \in LibHandlers : RoomFor(worker[k])') /\ ~ UserLocked'
  <2>1. worker[h].op \in Adding
    BY <1>1, <1>2 DEF Adding
  <2> QED BY <1>7, <2>1, NobodyAdds
<1>9. exceeded \in BOOLEAN
  BY SourcesAreSized
<1>10. SUFFICES ASSUME exceeded = FALSE PROVE Within(quota', source', folder')
  BY <1>7, <1>8, <1>9 DEF QuotaInv, RoomKept
<1>11. Within(quota, source, folder) /\ CanUpload(kind)
  BY <1>1, <1>2, <1>3, <1>10 DEF QuotaInv, RoomKept, RoomFor
<1>12. /\ s \notin Made(source) /\ Made(source') = Made(source) \cup {s}
       /\ \A z \in Made(source) : source'[z].kind = source[z].kind
       /\ source'[s].kind = kind
  BY <1>4, <1>5, <1>6, SourcesAreSized DEF Made, Present
<1>13. /\ CountOf(source') = CountOf(source) + 1 /\ CountOf(source) \in Nat
       /\ Storage(source') = Storage(source) + Size(kind) /\ Storage(source) \in Nat /\ Size(kind) \in Nat
  BY <1>4, <1>6, <1>12, SourcesAreSized, StorageOfMore
<1> QED BY <1>7, <1>11, <1>13, SourcesAreSized DEF Within, CanUpload

LEMMA SaveFolderKeepsRoom ==
  ASSUME LInv, QuotaInv, LInv', NEW h \in LibHandlers, SaveFolder(h)
  PROVE  QuotaInv'
<1>1. PICK p : p = worker[h].project
  OBVIOUS
<1>2. PICK f \in Folders : folder' = [folder EXCEPT ![f] = p]
  BY <1>1 DEF SaveFolder, FreshFolder
<1>3. worker[h].op = "folder" /\ worker' = [worker EXCEPT ![h] = Vacant]
      /\ UNCHANGED <<quota, source, exceeded>>
  BY DEF SaveFolder, End
<1>4. OneAdds' /\ \A k \in LibHandlers : RoomFor(worker[k])'
  <2>1. worker[h].op \in Adding
    BY <1>3 DEF Adding
  <2> QED BY <1>3, <2>1, NobodyAdds
<1>5. SUFFICES ASSUME exceeded = FALSE PROVE Within(quota', source', folder')
  BY <1>3, <1>4 DEF QuotaInv, RoomKept
<1>6. Within(quota, source, folder) /\ CanCreateFolder
  BY <1>3, <1>5 DEF QuotaInv, RoomKept, RoomFor
<1>7. PICK F, G : F = {g \in Folders : folder[g] # Gone} /\ G = {g \in Folders : folder'[g] # Gone}
  OBVIOUS
<1>8. G \subseteq F \/ G = F \cup {f}
  BY <1>2, <1>7 DEF LInv, LibraryTypeOK
<1>9. Cardinality(F) \in Nat /\ Cardinality(G) \in Nat /\ Cardinality(G) <= Cardinality(F) + 1
  BY <1>7, <1>8, FoldersCounted
<1>10. Cardinality(G) <= quota.folders
  BY <1>6, <1>7, <1>9, SourcesAreSized DEF CanCreateFolder, FoldersMade
<1> QED BY <1>3, <1>6, <1>7, <1>10 DEF Within

LEMMA QuotaInvInductive == LInv /\ QuotaInv /\ [LibraryNext]_libraryVars => QuotaInv'
<1> SUFFICES ASSUME LInv, QuotaInv, [LibraryNext]_libraryVars PROVE QuotaInv'
  OBVIOUS
<1>1. LInv'
  BY LInvInductive
<1>2. CASE SourceStep(Kinds, Folders \cup {NoFolder}, MaybeProjects)
  BY <1>1, <1>2, BeginKeepsRoom, SaveUploadKeepsRoom, ReadersKeepRoom, DeletesKeepRoom, SaveSourceKeepsRoom
  DEF SourceStep
<1>3. CASE WorkStep(LibProjects)
  <2>1. PICK h : h \in LibHandlers
    BY LibraryAssumption
  <2> QED BY <1>1, <1>3, <2>1, ReadersKeepRoom, LooseChangesKeepRoom DEF WorkStep
<1>4. CASE FolderStep
  BY <1>1, <1>4, BeginKeepsRoom, SaveFolderKeepsRoom, ReadersKeepRoom, SaveFolderAgainKeepsRoom, DeletesKeepRoom
  DEF FolderStep
<1>5. CASE UNCHANGED libraryVars
  <2>1. /\ quota' = quota /\ source' = source /\ folder' = folder /\ worker' = worker /\ exceeded' = exceeded
    BY <1>5 DEF libraryVars
  <2>2. exceeded' \in BOOLEAN
    BY SourcesAreSized, <2>1
  <2> QED BY <2>1, <2>2, RoomStays DEF FoldersMade
<1> QED BY <1>2, <1>3, <1>4, <1>5 DEF LibraryNext

(* WithinQuota for any number of handlers, sources, folders and plans and  *)
(* any sizes: can_upload_source and can_create_collection, looked at under *)
(* the lock on the user row, keep the plan's limits.                       *)
THEOREM QuotaKept == LibrarySpec => []WithinQuota
<1>1. LInv /\ QuotaInv => WithinQuota
  <2>1. LInv => exceeded \in BOOLEAN
    BY SourcesAreSized
  <2> QED BY <2>1 DEF QuotaInv, RoomKept, WithinQuota
<1> QED BY InitLInv, InitQuotaInv, LInvInductive, QuotaInvInductive, <1>1, PTL DEF LibrarySpec

----------------------------------------------------------------------------
(* Study plans.  A handler that met no other one since it fetched the plan *)
(* has it to itself, finds plan and task as it fetched them, and has       *)
(* counted the tasks that it will write.                                   *)

Lone(r) == editor[r] # Free /\ editor[r].alone = TRUE

LoneReads(r) ==
  /\ \A o \in PlanRequests \ {r} : editor[o] = Free
  /\ plan # NoRow /\ editor[r].seen.status = plan.status
  /\ editor[r].op = "patch" => editor[r].seen = plan /\ ValidPatch(editor[r].value)
  /\ editor[r].op = "edit" => task[editor[r].task] # NoRow /\ task[editor[r].task].status = editor[r].value
  /\ counted[r] # NoRow => counted[r] = Progress(editor[r].seen, Written(editor[r]))

(* Who changes a task knows which, how and where; who patches the plan     *)
(* knows its status.                                                       *)
EditsTask(e) ==
  /\ e.op \in TaskOps \cup {"add"} => e.task \in Tasks /\ e.value \in TaskStatuses /\ e.slot \in Slots
  /\ e.op = "patch" => e.value \in PlanStatuses

EditorsRead ==
  \A r \in PlanRequests :
    /\ EditsTask(editor[r])
    /\ counted[r] # NoRow => editor[r].op \in {"status", "remove", "add"}
    /\ Lone(r) => LoneReads(r)

PlanInv == PlanTypeOK /\ EditorsRead /\ ProgressIsTrue

LEMMA InitPlanInv == PlanInit => PlanInv
<1> SUFFICES ASSUME PlanInit PROVE PlanInv
  OBVIOUS
<1>1. PlanTypeOK
  BY DEF PlanInit, PlanTypeOK
<1>2. EditorsRead
  BY DEF PlanInit, EditorsRead, Lone, EditsTask, Free, TaskOps
<1>3. ProgressIsTrue
  BY DEF PlanInit, ProgressIsTrue
<1> QED BY <1>1, <1>2, <1>3 DEF PlanInv

(* The percentage of so many tasks is one. *)
LEMMA PercentIsBounded ==
  ASSUME NEW total \in Nat, NEW completed \in Nat, completed <= total
  PROVE  Percent(completed, total) \in 0 .. Whole
<1>1. CASE total = 0
  BY <1>1 DEF Percent, Whole
<1>2. CASE total > 0
  <2> DEFINE x == 20000 * completed + total
             y == 2 * total
             q == x \div y
  <2>1. /\ x \in Nat /\ y \in Nat /\ y > 0 /\ x <= 20001 * total
    BY <1>2
  <2>2. q \in Int /\ y * q <= x /\ x < y * q + y
    <3> HIDE DEF x, y
    <3> QED BY <2>1
  <2>3. q <= 10000
    <3>1. SUFFICES ASSUME q >= 10001 PROVE FALSE
      BY <2>2
    <3> HIDE DEF q
    <3>2. y * q >= y * 10001
      <4> HIDE DEF x, y
      <4> QED BY <2>1, <2>2, <3>1
    <3>3. y * 10001 = 20002 * total
      OBVIOUS
    <3> QED BY <1>2, <2>1, <2>2, <3>2, <3>3
  <2>4. q >= 0
    <3>1. SUFFICES ASSUME q <= -1 PROVE FALSE
      BY <2>2
    <3> HIDE DEF q, x, y
    <3>2. y * q <= y * (-1)
      BY <2>1, <2>2, <3>1
    <3>3. y * (-1) = -y
      BY <2>1
    <3> QED BY <2>1, <2>2, <3>2, <3>3
  <2>5. q \in 0 .. Whole
    <3> HIDE DEF q, x, y
    <3> QED BY <2>2, <2>3, <2>4 DEF Whole
  <2>6. Percent(completed, total) = q
    BY <1>2 DEF Percent, Whole
  <2> QED BY <2>5, <2>6
<1> QED BY <1>1, <1>2

(* Tasks *)
TaskFun(tk) == DOMAIN tk = Tasks /\ \A t \in Tasks : tk[t] = NoRow \/ tk[t] \in TaskRow

LEMMA RowsAreFinite ==
  ASSUME NEW tk
  PROVE  /\ IsFiniteSet(Rows(tk)) /\ Completed(tk) \subseteq Rows(tk)
         /\ Cardinality(Rows(tk)) \in Nat /\ Cardinality(Completed(tk)) \in 0 .. Cardinality(Rows(tk))
         /\ Cardinality(Completed(tk)) = Cardinality(Rows(tk)) => Completed(tk) = Rows(tk)
<1>1. IsFiniteSet(Tasks) /\ Rows(tk) \subseteq Tasks /\ Completed(tk) \subseteq Rows(tk)
  BY StudyPlanAssumption DEF Rows, Completed
<1>2. IsFiniteSet(Rows(tk))
  BY <1>1, FS_Subset
<1>3. /\ IsFiniteSet(Completed(tk)) /\ Cardinality(Completed(tk)) <= Cardinality(Rows(tk))
      /\ Cardinality(Rows(tk)) = Cardinality(Completed(tk)) => Rows(tk) = Completed(tk)
  BY <1>1, <1>2, FS_Subset
<1>4. Cardinality(Rows(tk)) \in Nat /\ Cardinality(Completed(tk)) \in Nat
  BY <1>2, <1>3, FS_CardinalityType
<1> QED BY <1>1, <1>2, <1>3, <1>4

(* update_plan_completion gives a plan the progress of the tasks. *)
LEMMA ProgressTells ==
  ASSUME NEW tk, NEW row, row.status \in PlanStatuses
  PROVE  /\ Progress(row, tk) \in PlanRow
         /\ Progress(row, tk).percent = Percent(Cardinality(Completed(tk)), Cardinality(Rows(tk)))
         /\ Progress(row, tk).status = "completed" => Completed(tk) = Rows(tk)
<1> DEFINE total == Cardinality(Rows(tk))
           completed == Cardinality(Completed(tk))
           new == CASE row.status = "cancelled" -> "cancelled"
                    [] row.status # "cancelled" /\ total > 0 /\ completed = total -> "completed"
                    [] row.status = "completed" /\ completed < total -> "active"
                    [] OTHER -> row.status
<1>1. Progress(row, tk) = [status |-> new, percent |-> Percent(completed, total)]
  BY Zenon DEF Progress
<1>2. /\ total \in Nat /\ completed \in 0 .. total
      /\ completed = total => Completed(tk) = Rows(tk)
  BY RowsAreFinite
<1> HIDE DEF total, completed
<1>3. Percent(completed, total) \in 0 .. Whole
  <2>1. completed \in Nat /\ completed <= total
    BY <1>2
  <2> QED BY <1>2, <2>1, PercentIsBounded
<1>4. new \in PlanStatuses /\ (new = "completed" => completed = total)
  BY <1>2 DEF PlanStatuses
<1> HIDE DEF new
<1> QED BY <1>1, <1>2, <1>3, <1>4 DEF PlanRow, total, completed

LEMMA SavedTaskIsRow ==
  ASSUME NEW s \in TaskStatuses, NEW at \in Slots
  PROVE  SavedTask(s, at) \in TaskRow /\ SavedTask(s, at) # NoRow /\ SavedTask(s, at).status = s
<1>1. CASE s = "completed"
  <2>1. SavedTask(s, at) = [status |-> s, slot |-> at, done |-> TRUE]
    BY <1>1, Zenon DEF SavedTask
  <2> QED BY <2>1 DEF TaskRow, NoRow, TaskStatuses
<1>2. CASE s # "completed"
  <2>1. SavedTask(s, at) = [status |-> s, slot |-> at, done |-> FALSE]
    BY <1>2, Zenon DEF SavedTask
  <2> QED BY <2>1 DEF TaskRow, NoRow, TaskStatuses
<1> QED BY <1>1, <1>2

LEMMA WrittenIsTasks ==
  ASSUME TaskFun(task), NEW e, EditsTask(e), e.op \in TaskOps \cup {"add"}
  PROVE  TaskFun(Written(e))
<1> DEFINE new == IF e.op = "remove" THEN NoRow ELSE SavedTask(e.value, e.slot)
<1>1. Written(e) = [task EXCEPT ![e.task] = new]
  BY Zenon DEF Written
<1>2. e.task \in Tasks /\ (new = NoRow \/ new \in TaskRow)
  BY SavedTaskIsRow DEF EditsTask
<1> HIDE DEF new
<1> QED BY <1>1, <1>2 DEF TaskFun

(* A handler that fetches the plan, and thereby keeps the others company.  *)
LEMMA FetchPlanKeeps ==
  ASSUME PlanInv, NEW r \in PlanRequests, NEW e \in Editor, FetchPlan(r, e), EditsTask(e),
         e.alone = TRUE => Busy = {},
         e.seen.status = plan.status,
         e.op = "patch" => e.seen = plan /\ ValidPatch(e.value),
         e.op = "edit" => task[e.task] # NoRow /\ task[e.task].status = e.value
  PROVE  PlanInv'
<1>1. /\ plan # NoRow /\ editor[r] = Free /\ UNCHANGED <<plan, task, counted, trusted>>
      /\ editor' = [o \in PlanRequests |->
           IF o = r THEN e ELSE IF editor[o] = Free THEN Free ELSE [editor[o] EXCEPT !.alone = FALSE]]
  BY DEF FetchPlan
<1>2. /\ DOMAIN editor' = PlanRequests /\ editor'[r] = e /\ e # Free
      /\ \A o \in PlanRequests \ {r} :
           \/ editor[o] = Free /\ editor'[o] = Free
           \/ editor[o] # Free /\ editor[o] \in Editor /\ editor'[o] = [editor[o] EXCEPT !.alone = FALSE]
  BY <1>1 DEF PlanInv, PlanTypeOK, Editor, Free, TaskOps, PlanOps
<1>3. ASSUME NEW o \in PlanRequests \ {r}, editor[o] # Free
      PROVE  /\ editor'[o] \in Editor /\ editor'[o].alone = FALSE /\ editor'[o].op = editor[o].op
             /\ editor'[o].task = editor[o].task /\ editor'[o].value = editor[o].value
             /\ editor'[o].slot = editor[o].slot /\ editor'[o] # Free
  <2>1. editor[o] \in Editor /\ editor'[o] = [editor[o] EXCEPT !.alone = FALSE]
    BY <1>2, <1>3
  <2> QED BY <2>1 DEF Editor, Free, TaskOps, PlanOps
<1>4. counted[r] = NoRow
  BY <1>1 DEF PlanInv, PlanTypeOK
<1>5. PlanTypeOK'
  BY <1>1, <1>2, <1>3, <1>4 DEF PlanInv, PlanTypeOK
<1>6. EditorsRead'
  <2>1. ASSUME NEW o \in PlanRequests
        PROVE  /\ EditsTask(editor'[o])
               /\ counted[o] # NoRow => editor'[o].op \in {"status", "remove", "add"}
    <3>1. CASE o = r
      BY <1>2, <1>4, <3>1
    <3>2. CASE o # r
      <4>1. CASE editor[o] = Free
        BY <1>2, <3>2, <4>1 DEF PlanInv, EditorsRead
      <4>2. CASE editor[o] # Free
        <5>1. EditsTask(editor[o]) /\ (counted[o] # NoRow => editor[o].op \in {"status", "remove", "add"})
          BY DEF PlanInv, EditorsRead
        <5> QED BY <1>3, <3>2, <4>2, <5>1 DEF EditsTask
      <4> QED BY <4>1, <4>2
    <3> QED BY <3>1, <3>2
  <2>2. ASSUME NEW o \in PlanRequests, editor'[o] # Free, editor'[o].alone = TRUE
        PROVE  /\ o = r /\ \A k \in PlanRequests \ {r} : editor'[k] = Free
    <3>1. o = r
      BY <1>2, <1>3, <2>2
    <3>2. Busy = {}
      BY <1>2, <2>2, <3>1
    <3> QED BY <1>2, <3>1, <3>2 DEF Busy
  <2>3. ASSUME NEW o \in PlanRequests, Lone(o)' PROVE LoneReads(o)'
    <3>1. o = r /\ \A k \in PlanRequests \ {r} : editor'[k] = Free
      BY <2>2, <2>3 DEF Lone
    <3>2. ValidPatch(e.value)' <=> ValidPatch(e.value)
      BY <1>1 DEF ValidPatch, Completed, Rows
    <3> QED BY <1>1, <1>2, <1>4, <3>1, <3>2 DEF LoneReads, ValidPatch, Completed, Rows
  <2> QED BY <1>1, <2>1, <2>3 DEF EditorsRead, EditsTask
<1>7. ProgressIsTrue'
  BY <1>1 DEF PlanInv, ProgressIsTrue, Completed, Rows
<1> QED BY <1>5, <1>6, <1>7 DEF PlanInv

LEMMA FetchOpKeeps ==
  ASSUME PlanInv, NEW r \in PlanRequests,
         NEW op \in TaskOps \cup PlanOps, NEW t \in Tasks \cup {NoTask},
         NEW v \in TaskStatuses \cup PlanStatuses, NEW at \in Slots \cup {NoTask},
         FetchPlan(r, Fetched(op, t, v, at)),
         op \in TaskOps \cup {"add"} => t \in Tasks /\ v \in TaskStatuses /\ at \in Slots,
         op = "patch" => ValidPatch(v) /\ v \in PlanStatuses,
         op = "edit" => task[t] # NoRow /\ task[t].status = v
  PROVE  PlanInv'
<1> DEFINE seen == [plan EXCEPT !.percent = IF op = "patch" THEN @ ELSE 0]
<1>1. plan \in PlanRow
  BY DEF FetchPlan, PlanInv, PlanTypeOK
<1>2. seen \in PlanRow /\ seen.status = plan.status /\ (op = "patch" => seen = plan)
  <2>1. CASE op = "patch"
    BY <1>1, <2>1 DEF PlanRow
  <2>2. CASE op # "patch"
    <3>1. seen = [plan EXCEPT !.percent = 0]
      BY <2>2
    <3>2. 0 \in 0 .. Whole
      BY DEF Whole
    <3> QED BY <1>1, <2>2, <3>1, <3>2 DEF PlanRow
  <2> QED BY <2>1, <2>2
<1>3. Fetched(op, t, v, at) = [op |-> op, task |-> t, value |-> v, slot |-> at, seen |-> seen,
                               alone |-> Busy = {}]
  BY Zenon DEF Fetched
<1> HIDE DEF seen
<1>4. PICK b \in BOOLEAN : (b = TRUE => Busy = {}) /\ (b = FALSE => Busy # {})
  <2>1. CASE Busy = {}
    BY <2>1
  <2>2. CASE Busy # {}
    BY <2>2
  <2> QED BY <2>1, <2>2
<1> DEFINE e == [op |-> op, task |-> t, value |-> v, slot |-> at, seen |-> seen, alone |-> b]
<1>5. Fetched(op, t, v, at) = e
  <2>1. CASE b = TRUE
    BY <1>3, <1>4, <2>1, Zenon
  <2>2. CASE b = FALSE
    BY <1>3, <1>4, <2>2, Zenon
  <2> QED BY <2>1, <2>2
<1>6. /\ e \in Editor /\ e.op = op /\ e.task = t /\ e.value = v /\ e.slot = at /\ e.seen = seen /\ e.alone = b
  BY <1>2 DEF Editor
<1>7. EditsTask(e) /\ FetchPlan(r, e)
  BY <1>5, <1>6 DEF EditsTask
<1> HIDE DEF e
<1> QED BY <1>2, <1>4, <1>6, <1>7, FetchPlanKeeps

LEMMA FetchesKeep ==
  ASSUME PlanInv, NEW r \in PlanRequests
  PROVE  /\ \A t \in Tasks, v \in TaskWishes : FetchStatus(r, t, v) => PlanInv'
         /\ \A t \in Tasks, at \in Slots : FetchEdit(r, t, at) => PlanInv'
         /\ \A t \in Tasks, at \in Slots : FetchAdd(r, t, at) => PlanInv'
         /\ \A t \in Tasks : FetchRemove(r, t) => PlanInv'
         /\ \A v \in PlanWishes : FetchPatch(r, v) => PlanInv'
         /\ FetchDrop(r) => PlanInv'
<1>0. PlanTypeOK
  BY DEF PlanInv
<1>2. TaskWishes \subseteq TaskStatuses /\ PlanWishes \subseteq PlanStatuses
  BY StudyPlanAssumption DEF TaskStatuses, PlanStatuses
<1>3. \A t \in Tasks : task[t] # NoRow => task[t].slot \in Slots /\ task[t].status \in TaskStatuses
  BY <1>0 DEF PlanTypeOK, TaskRow
<1>4. ASSUME NEW t \in Tasks, NEW v \in TaskWishes, FetchStatus(r, t, v) PROVE PlanInv'
  <2>1. /\ task[t].slot \in Slots /\ v \in TaskStatuses
        /\ FetchPlan(r, Fetched("status", t, v, task[t].slot))
    BY <1>2, <1>3, <1>4 DEF FetchStatus
  <2>2. PICK at \in Slots : at = task[t].slot
    BY <2>1
  <2>3. FetchPlan(r, Fetched("status", t, v, at))
    BY <2>1, <2>2
  <2> QED BY <2>1, <2>3, FetchOpKeeps DEF TaskOps
<1>5. ASSUME NEW t \in Tasks, NEW at \in Slots, FetchEdit(r, t, at) PROVE PlanInv'
  BY FetchOpKeeps, <1>3, <1>5 DEF FetchEdit, TaskOps
<1>6. ASSUME NEW t \in Tasks, NEW at \in Slots, FetchAdd(r, t, at) PROVE PlanInv'
  BY FetchOpKeeps, <1>6 DEF FetchAdd, PlanOps, TaskStatuses
<1>7. ASSUME NEW t \in Tasks, FetchRemove(r, t) PROVE PlanInv'
  BY FetchOpKeeps, <1>3, <1>7 DEF FetchRemove, TaskOps, TaskStatuses
<1>8. ASSUME NEW v \in PlanWishes, FetchPatch(r, v) PROVE PlanInv'
  BY FetchOpKeeps, <1>2, <1>8 DEF FetchPatch, PlanOps, TaskOps
<1>9. ASSUME FetchDrop(r) PROVE PlanInv'
  BY FetchOpKeeps, <1>9 DEF FetchDrop, PlanOps, TaskOps, PlanStatuses
<1> QED BY <1>4, <1>5, <1>6, <1>7, <1>8, <1>9

(* A handler that ends leaves nobody who met no other one.                 *)
LEMMA EndEditLeaves ==
  ASSUME PlanInv, NEW r \in PlanRequests, editor[r] # Free, EndEdit(r)
  PROVE  /\ EditorsRead'
         /\ DOMAIN editor' = PlanRequests /\ DOMAIN counted' = PlanRequests
         /\ \A o \in PlanRequests :
              /\ editor'[o] = Free \/ editor'[o] \in Editor
              /\ counted'[o] = NoRow \/ (editor'[o] # Free /\ counted'[o] \in PlanRow)
<1>1. /\ DOMAIN editor' = PlanRequests /\ DOMAIN counted' = PlanRequests
      /\ editor'[r] = Free /\ counted'[r] = NoRow
      /\ \A o \in PlanRequests \ {r} : editor'[o] = editor[o] /\ counted'[o] = counted[o]
  BY DEF EndEdit, PlanInv, PlanTypeOK
<1>2. \A o \in PlanRequests : ~ (editor'[o] # Free /\ editor'[o].alone = TRUE)
  BY <1>1 DEF PlanInv, EditorsRead, Lone, LoneReads
<1>3. EditorsRead'
  BY <1>1, <1>2 DEF PlanInv, EditorsRead, Lone, EditsTask, Free, TaskOps
<1> QED BY <1>1, <1>3 DEF PlanInv, PlanTypeOK

LEMMA CreatePlanKeeps ==
  ASSUME PlanInv, CreatePlan
  PROVE  PlanInv'
<1>1. /\ Busy = {} /\ plan' = Progress(NewPlan, task') /\ trusted' = TRUE /\ UNCHANGED <<editor, counted>>
  BY DEF CreatePlan
<1>2. PICK perDay \in PerDay : GeneratePlanTasks(perDay)
  BY DEF CreatePlan
<1>3. TaskFun(task')
  <2>1. PICK id \in [Days \X perDay -> Tasks] :
          task' = [t \in Tasks |-> IF \E a \in Days \X perDay : id[a] = t
                     THEN SavedTask("pending", CHOOSE a \in Days \X perDay : id[a] = t) ELSE NoRow]
    BY <1>2 DEF GeneratePlanTasks
  <2>2. Days \X perDay \subseteq Slots
    BY DEF PerDay, Slots
  <2>3. ASSUME NEW t \in Tasks PROVE task'[t] = NoRow \/ task'[t] \in TaskRow
    <3>1. CASE \E a \in Days \X perDay : id[a] = t
      <4>1. (CHOOSE a \in Days \X perDay : id[a] = t) \in Slots
        BY <2>2, <3>1
      <4>2. "pending" \in TaskStatuses
        BY DEF TaskStatuses
      <4>3. task'[t] = SavedTask("pending", CHOOSE a \in Days \X perDay : id[a] = t)
        BY <2>1, <3>1
      <4> QED BY <4>1, <4>2, <4>3, SavedTaskIsRow
    <3>2. CASE ~ \E a \in Days \X perDay : id[a] = t
      BY <2>1, <3>2
    <3> QED BY <3>1, <3>2
  <2>4. DOMAIN task' = Tasks
    BY <2>1
  <2> QED BY <2>3, <2>4 DEF TaskFun
<1>4. NewPlan.status \in PlanStatuses
  BY DEF NewPlan, PlanStatuses
<1>5. /\ plan' \in PlanRow
      /\ plan'.percent = Percent(Cardinality(Completed(task')), Cardinality(Rows(task')))
      /\ plan'.status = "completed" => Completed(task') = Rows(task')
  BY <1>1, <1>4, ProgressTells
<1>6. PlanTypeOK'
  BY <1>1, <1>3, <1>5 DEF PlanInv, PlanTypeOK, TaskFun
<1>7. EditorsRead'
  <2>1. \A r \in PlanRequests : editor[r] = Free
    BY <1>1 DEF Busy
  <2>2. \A r \in PlanRequests : counted[r] = NoRow
    BY <2>1 DEF PlanInv, PlanTypeOK
  <2> QED BY <1>1, <2>1, <2>2 DEF EditorsRead, EditsTask, Lone, Free, TaskOps
<1>8. ProgressIsTrue'
  BY <1>5 DEF ProgressIsTrue
<1> QED BY <1>6, <1>7, <1>8 DEF PlanInv

LEMMA CountKeeps ==
  ASSUME PlanInv, NEW r \in PlanRequests, Count(r)
  PROVE  PlanInv'
<1>1. /\ editor[r] # Free /\ editor[r].op \in {"status", "remove", "add"}
      /\ counted' = [counted EXCEPT ![r] = Progress(editor[r].seen, Written(editor[r]))]
      /\ UNCHANGED <<plan, task, editor, trusted>>
  BY DEF Count
<1>2. editor[r] \in Editor /\ editor[r].seen.status \in PlanStatuses
  BY <1>1 DEF PlanInv, PlanTypeOK, Editor, PlanRow
<1>3. /\ DOMAIN counted' = PlanRequests
      /\ counted'[r] = Progress(editor[r].seen, Written(editor[r])) /\ counted'[r] \in PlanRow
      /\ \A o \in PlanRequests \ {r} : counted'[o] = counted[o]
  BY <1>1, <1>2, ProgressTells DEF PlanInv, PlanTypeOK
<1>4. PlanTypeOK'
  BY <1>1, <1>3 DEF PlanInv, PlanTypeOK
<1>5. EditorsRead'
  <2>1. ASSUME NEW o \in PlanRequests
        PROVE  /\ EditsTask(editor[o])
               /\ counted'[o] # NoRow => editor[o].op \in {"status", "remove", "add"}
    BY <1>1, <1>3 DEF PlanInv, EditorsRead
  <2>2. ASSUME NEW o \in PlanRequests, Lone(o) PROVE LoneReads(o)'
    <3>1. LoneReads(o)
      BY <2>2 DEF PlanInv, EditorsRead
    <3>2. o = r
      BY <1>1, <3>1 DEF LoneReads
    <3> QED BY <1>1, <1>3, <3>1, <3>2 DEF LoneReads, ValidPatch, Completed, Rows, Written
  <2> QED BY <1>1, <2>1, <2>2 DEF EditorsRead, Lone, EditsTask
<1>6. ProgressIsTrue'
  BY <1>1 DEF PlanInv, ProgressIsTrue, Completed, Rows
<1> QED BY <1>4, <1>5, <1>6 DEF PlanInv

LEMMA CommitKeeps ==
  ASSUME PlanInv, NEW r \in PlanRequests, Commit(r)
  PROVE  PlanInv'
<1>1. /\ editor[r] # Free /\ counted[r] # NoRow /\ task' = Written(editor[r]) /\ plan' = counted[r]
      /\ trusted' = editor[r].alone /\ EndEdit(r)
  BY DEF Commit
<1>2. /\ editor[r] \in Editor /\ editor[r].seen.status \in PlanStatuses /\ counted[r] \in PlanRow
      /\ editor[r].alone \in BOOLEAN
  BY <1>1 DEF PlanInv, PlanTypeOK, Editor, PlanRow
<1>3. TaskFun(task) /\ EditsTask(editor[r]) /\ editor[r].op \in TaskOps \cup {"add"}
  BY <1>1 DEF PlanInv, PlanTypeOK, EditorsRead, TaskFun, TaskOps
<1>4. TaskFun(task')
  BY <1>1, <1>3, WrittenIsTasks
<1>5. PlanTypeOK'
  BY <1>1, <1>2, <1>4, EndEditLeaves DEF PlanTypeOK, TaskFun
<1>6. ProgressIsTrue'
  <2>1. ASSUME trusted' = TRUE
        PROVE  /\ plan'.percent = Percent(Cardinality(Completed(task')), Cardinality(Rows(task')))
               /\ plan'.status = "completed" => Completed(task') = Rows(task')
    <3>1. LoneReads(r)
      BY <1>1, <2>1 DEF PlanInv, EditorsRead, Lone
    <3>2. plan' = Progress(editor[r].seen, task')
      BY <1>1, <3>1 DEF LoneReads
    <3> QED BY <1>2, <3>2, ProgressTells
  <2>2. trusted' \in BOOLEAN
    BY <1>1, <1>2
  <2> QED BY <2>1, <2>2 DEF ProgressIsTrue
<1> QED BY <1>1, <1>5, <1>6, EndEditLeaves DEF PlanInv

LEMMA SavePlanKeeps ==
  ASSUME PlanInv, NEW r \in PlanRequests, SavePlan(r)
  PROVE  PlanInv'
<1>1. /\ editor[r] # Free /\ editor[r].op = "patch" /\ UNCHANGED task /\ EndEdit(r)
      /\ plan' = [editor[r].seen EXCEPT !.status = editor[r].value]
      /\ trusted' = (trusted /\ editor[r].alone)
  BY DEF SavePlan
<1>2. /\ editor[r] \in Editor /\ editor[r].seen \in PlanRow /\ editor[r].value \in PlanStatuses
  BY <1>1 DEF PlanInv, PlanTypeOK, Editor, EditorsRead, EditsTask
<1>3. plan' \in PlanRow /\ plan'.status = editor[r].value /\ plan'.percent = editor[r].seen.percent
  BY <1>1, <1>2 DEF PlanRow
<1>4. trusted' \in BOOLEAN /\ (trusted' = TRUE => trusted = TRUE /\ editor[r].alone = TRUE)
  <2>1. trusted \in BOOLEAN /\ editor[r].alone \in BOOLEAN
    BY <1>2 DEF PlanInv, PlanTypeOK, Editor
  <2> QED BY <1>1, <2>1, Zenon
<1>5. PlanTypeOK'
  BY <1>1, <1>3, <1>4, EndEditLeaves DEF PlanInv, PlanTypeOK
<1>6. ProgressIsTrue'
  <2>1. ASSUME trusted' = TRUE
        PROVE  /\ plan'.percent = Percent(Cardinality(Completed(task')), Cardinality(Rows(task')))
               /\ plan'.status = "completed" => Completed(task') = Rows(task')
    <3>1. LoneReads(r) /\ trusted = TRUE
      BY <1>1, <1>4, <2>1 DEF PlanInv, EditorsRead, Lone
    <3>2. editor[r].seen = plan /\ plan # NoRow /\ ValidPatch(editor[r].value)
      BY <1>1, <3>1 DEF LoneReads
    <3>3. plan.percent = Percent(Cardinality(Completed(task)), Cardinality(Rows(task)))
      BY <3>1, <3>2, Zenon DEF PlanInv, ProgressIsTrue
    <3>4. Completed(task') = Completed(task) /\ Rows(task') = Rows(task)
      BY <1>1
    <3>5. plan'.percent = Percent(Cardinality(Completed(task')), Cardinality(Rows(task')))
      BY <1>3, <3>2, <3>3, <3>4
    <3> QED BY <1>3, <3>2, <3>4, <3>5 DEF ValidPatch
  <2> QED BY <1>4, <2>1 DEF ProgressIsTrue
<1> QED BY <1>1, <1>5, <1>6, EndEditLeaves DEF PlanInv

LEMMA SaveEditKeeps ==
  ASSUME PlanInv, NEW r \in PlanRequests, SaveEdit(r)
  PROVE  PlanInv'
<1>1. /\ editor[r] # Free /\ editor[r].op = "edit" /\ plan # NoRow /\ UNCHANGED plan /\ EndEdit(r)
      /\ task' = Written(editor[r])
      /\ trusted' = (trusted /\ editor[r].alone)
  BY DEF SaveEdit
<1>2. editor[r] \in Editor
  BY <1>1 DEF PlanInv, PlanTypeOK
<1>3. TaskFun(task) /\ EditsTask(editor[r]) /\ editor[r].op \in TaskOps \cup {"add"}
  BY <1>1 DEF PlanInv, PlanTypeOK, EditorsRead, TaskFun, TaskOps
<1>4. TaskFun(task')
  BY <1>1, <1>3, WrittenIsTasks
<1>5. trusted' \in BOOLEAN /\ (trusted' = TRUE => trusted = TRUE /\ editor[r].alone = TRUE)
  <2>1. trusted \in BOOLEAN /\ editor[r].alone \in BOOLEAN
    BY <1>2 DEF PlanInv, PlanTypeOK, Editor
  <2> QED BY <1>1, <2>1, Zenon
<1>6. PlanTypeOK'
  BY <1>1, <1>4, <1>5, EndEditLeaves DEF PlanInv, PlanTypeOK, TaskFun
<1>7. ProgressIsTrue'
  <2>1. ASSUME trusted' = TRUE
        PROVE  /\ plan'.percent = Percent(Cardinality(Completed(task')), Cardinality(Rows(task')))
               /\ plan'.status = "completed" => Completed(task') = Rows(task')
    <3>1. LoneReads(r) /\ trusted = TRUE
      BY <1>1, <1>5, <2>1 DEF PlanInv, EditorsRead, Lone
    <3> DEFINE x == editor[r].task
               new == SavedTask(editor[r].value, editor[r].slot)
    <3>2. task[x] # NoRow /\ task[x].status = editor[r].value
      BY <1>1, <3>1 DEF LoneReads
    <3>3. x \in Tasks /\ new # NoRow /\ new.status = editor[r].value
      BY <1>1, <1>3, SavedTaskIsRow DEF EditsTask, TaskOps
    <3>4. task' = [task EXCEPT ![x] = new] /\ DOMAIN task = Tasks
      BY <1>1, <1>3, Zenon DEF Written, TaskFun
    <3> HIDE DEF x, new
    <3>5. \A t \in Tasks : (task'[t] # NoRow <=> task[t] # NoRow) /\ task'[t].status = task[t].status
      BY <3>2, <3>3, <3>4
    <3>6. Rows(task') = Rows(task)
      BY <3>5 DEF Rows
    <3>7. Completed(task') = Completed(task)
      BY <3>5, <3>6 DEF Completed, Rows
    <3>8. /\ plan.percent = Percent(Cardinality(Completed(task)), Cardinality(Rows(task)))
          /\ plan.status = "completed" => Completed(task) = Rows(task)
      BY <1>1, <3>1, Zenon DEF PlanInv, ProgressIsTrue
    <3> QED BY <1>1, <3>6, <3>7, <3>8
  <2> QED BY <1>5, <2>1 DEF ProgressIsTrue
<1> QED BY <1>1, <1>6, <1>7, EndEditLeaves DEF PlanInv

LEMMA DropPlanKeeps ==
  ASSUME PlanInv, NEW r \in PlanRequests, DropPlan(r)
  PROVE  PlanInv'
<1>1. /\ editor[r] # Free /\ plan' = NoRow /\ task' = [t \in Tasks |-> NoRow]
      /\ EndEdit(r) /\ UNCHANGED trusted
  BY DEF DropPlan
<1>2. PlanTypeOK'
  BY <1>1, EndEditLeaves DEF PlanInv, PlanTypeOK
<1> QED BY <1>1, <1>2, EndEditLeaves DEF PlanInv, ProgressIsTrue

LEMMA GiveUpKeeps ==
  ASSUME PlanInv, NEW r \in PlanRequests, GiveUp(r)
  PROVE  PlanInv'
<1>1. editor[r] # Free /\ EndEdit(r) /\ UNCHANGED <<plan, task, trusted>>
  BY DEF GiveUp
<1>2. PlanTypeOK'
  BY <1>1, EndEditLeaves DEF PlanInv, PlanTypeOK
<1>3. ProgressIsTrue'
  BY <1>1 DEF PlanInv, ProgressIsTrue, Completed, Rows
<1> QED BY <1>1, <1>2, <1>3, EndEditLeaves DEF PlanInv

LEMMA PlanInvInductive == PlanInv /\ [PlanNext]_planVars => PlanInv'
<1> SUFFICES ASSUME PlanInv, [PlanNext]_planVars PROVE PlanInv'
  OBVIOUS
<1>1. CASE CreatePlan
  BY <1>1, CreatePlanKeeps
<1>2. ASSUME NEW r \in PlanRequests, NEW t \in Tasks, NEW v \in TaskWishes, FetchStatus(r, t, v)
      PROVE  PlanInv'
  BY <1>2, FetchesKeep
<1>3. ASSUME NEW r \in PlanRequests, NEW t \in Tasks, NEW at \in Slots,
             FetchEdit(r, t, at) \/ FetchAdd(r, t, at)
      PROVE  PlanInv'
  BY <1>3, FetchesKeep
<1>4. ASSUME NEW r \in PlanRequests, NEW t \in Tasks, FetchRemove(r, t) PROVE PlanInv'
  BY <1>4, FetchesKeep
<1>5. ASSUME NEW r \in PlanRequests, NEW v \in PlanWishes, FetchPatch(r, v) PROVE PlanInv'
  BY <1>5, FetchesKeep
<1>6. ASSUME NEW r \in PlanRequests, FetchDrop(r) PROVE PlanInv'
  BY <1>6, FetchesKeep
<1>7. ASSUME NEW r \in PlanRequests, Count(r) \/ Commit(r) \/ SaveEdit(r) \/ SavePlan(r) \/ DropPlan(r) \/ GiveUp(r)
      PROVE  PlanInv'
  BY <1>7, CountKeeps, CommitKeeps, SaveEditKeeps, SavePlanKeeps, DropPlanKeeps, GiveUpKeeps
<1>8. CASE UNCHANGED planVars
  <2>1. UNCHANGED <<plan, task, editor, counted, trusted>>
    BY <1>8 DEF planVars
  <2>2. PlanTypeOK'
    BY <2>1 DEF PlanInv, PlanTypeOK
  <2>3. EditorsRead'
    BY <2>1 DEF PlanInv, EditorsRead, Lone, LoneReads, EditsTask, ValidPatch, Completed, Rows, Written
  <2>4. ProgressIsTrue'
    BY <2>1 DEF PlanInv, ProgressIsTrue, Completed, Rows
  <2> QED BY <2>2, <2>3, <2>4 DEF PlanInv
<1> QED BY <1>1, <1>2, <1>3, <1>4, <1>5, <1>6, <1>7, <1>8 DEF PlanNext

LEMMA PlanKeepsInv == PlanSpec => []PlanInv
  BY InitPlanInv, PlanInvInductive, PTL DEF PlanSpec

(* The plan, its tasks and what the handlers fetched are what they should  *)
(* be; the percentage is never above the whole.                            *)
THEOREM PlanTypeCorrect == PlanSpec => []PlanTypeOK
<1>1. PlanInv => PlanTypeOK
  BY DEF PlanInv
<1> QED BY <1>1, PlanKeepsInv, PTL

(* What a handler that met no other one stored as the plan's progress is   *)
(* the progress of its tasks, and stays so until handlers overlap again.   *)
THEOREM ProgressStaysTrue == PlanSpec => []ProgressIsTrue
<1>1. PlanInv => ProgressIsTrue
  BY DEF PlanInv
<1> QED BY <1>1, PlanKeepsInv, PTL

=============================================================================
