------------------------- MODULE QuizAttemptsProofs -------------------------
(***************************************************************************)
(* Proofs about QuizAttempts for any quiz, any number of attempts and any  *)
(* number of requests at a time.                                           *)
(***************************************************************************)
EXTENDS QuizAttempts, FiniteSetTheorems, TLAPS

(* Requests that will create an attempt when, of the attempts active now,  *)
(* those in T stay active and the others are settled first.                *)
Creators(T) ==
  {r \in Requests : \/ request[r].op = "create"
                    \/ request[r].op = "start" /\ request[r].seen \cap T = {}}

(* Attempts come to be in the order of their numbers. *)
InOrder ==
  \A a, c \in Attempts : c < a /\ status[c] = "absent" => status[a] = "absent"

(* What a request fetched or found is an attempt that was started. *)
FetchedStarted ==
  \A r \in Requests :
    request[r].op \in AttemptOps \cup {"save"} => status[request[r].attempt] # "absent"
FoundStarted ==
  \A r \in Requests, a \in Attempts :
    request[r].op = "start" /\ a \in request[r].seen => status[a] # "absent"

(* A query that found an attempt found the older ones that are active. *)
FoundOlder ==
  \A r \in Requests, a, c \in Attempts :
    /\ request[r].op = "start" /\ a \in request[r].seen
    /\ c < a /\ status[c] = "in_progress"
    => c \in request[r].seen

(* Whichever active attempts are settled first, the others and the         *)
(* attempts yet to be created are not more than the requests.              *)
Room ==
  \A T \in SUBSET Active : Cardinality(T) + Cardinality(Creators(T)) <= Cardinality(Requests)

IInv == InOrder /\ FetchedStarted /\ FoundStarted /\ FoundOlder /\ Room

----------------------------------------------------------------------------
(* Type correctness *)

LEMMA ResultType ==
  ASSUME NEW given PROVE AttemptResult(given) \in Counts
<1>1. \A g : Answered(given, g) \in Nat
  <2> SUFFICES ASSUME NEW g PROVE Answered(given, g) \in Nat
    OBVIOUS
  <2>1. {q \in Questions : given[q] = g} \in SUBSET Questions
    OBVIOUS
  <2> QED BY <2>1, QuizAssumption, FS_Subset, FS_CardinalityType DEF Answered
<1> QED BY <1>1 DEF AttemptResult, Counts

(* Every step keeps the types: attempts are settled one way or the other,  *)
(* stored counts are natural numbers, requests hold what their step needs. *)
THEOREM TypeCorrect == Spec => []TypeOK
<1> USE DEF TypeOK, RequestStates, Idle, Settled, Answers, Grades
<1>1. Init => TypeOK
  BY DEF Init, NoAnswers, NoResult, Counts
<1>2. TypeOK /\ [Next]_vars => TypeOK'
  <2> SUFFICES ASSUME TypeOK, [Next]_vars PROVE TypeOK'
    OBVIOUS
  <2>1. ASSUME NEW r \in Requests, RequestStep(r) PROVE TypeOK'
    <3>1. CASE Start(r)
      BY <3>1 DEF Start, Active
    <3>2. CASE Look(r)
      <4>1. CASE \E a \in Attempts : Latest(r, a) /\ ~expired[a] /\ Done(r) /\ UNCHANGED <<status, result>>
        BY <3>2, <4>1 DEF Look, Done
      <4>2. ASSUME NEW a \in Attempts, NEW b \in Attempts,
                   status' = [status EXCEPT ![a] = "submitted", ![b] = "in_progress"],
                   result' = [result EXCEPT ![a] = AttemptResult(answer[a])],
                   Done(r)
            PROVE  TypeOK'
        <5>1. status' \in [Attempts -> {"absent", "in_progress"} \cup Settled]
          BY <4>2
        <5>2. result' \in [Attempts -> Counts]
          BY <4>2, ResultType
        <5> QED BY <3>2, <4>2, <5>1, <5>2 DEF Look, Done
      <4>3. CASE request' = [request EXCEPT ![r] = [op |-> "create"]] /\ UNCHANGED <<status, result>>
        BY <3>2, <4>3 DEF Look
      <4> QED BY <3>2, <4>1, <4>2, <4>3 DEF Look
    <3>3. CASE Create(r)
      BY <3>3 DEF Create, Done
    <3>4. ASSUME NEW a \in Attempts, Fetch(r, a) PROVE TypeOK'
      BY <3>4 DEF Fetch, AttemptOps, Holders
    <3>5. CASE SubmitAnswer(r)
      <4>1. request[r].attempt \in Attempts
        BY <3>5 DEF SubmitAnswer, Accepted, AttemptOps
      <4> QED BY <3>5, <4>1 DEF SubmitAnswer, Done
    <3>6. CASE Grade(r)
      <4>1. request[r].attempt \in Attempts
        BY <3>6 DEF Grade, Accepted, AttemptOps
      <4> QED BY <3>6, <4>1, ResultType DEF Grade
    <3>7. CASE Save(r)
      <4>1. /\ request[r].attempt \in Attempts
            /\ request[r].given \in Answers
            /\ request[r].result \in Counts
        BY <3>7 DEF Save, AttemptOps
      <4>2. Merged(answer[request[r].attempt], request[r].given) \in Answers
        BY <4>1 DEF Merged
      <4> QED BY <3>7, <4>1, <4>2 DEF Save, Done
    <3>8. CASE AbandonAttempt(r)
      BY <3>8 DEF AbandonAttempt, Accepted, Done, AttemptOps
    <3>9. CASE Refuse(r)
      BY <3>9 DEF Refuse, Done
    <3> QED BY <2>1, <3>1, <3>2, <3>3, <3>4, <3>5, <3>6, <3>7, <3>8, <3>9 DEF RequestStep
  <2>2. ASSUME NEW a \in Attempts, TimeIsUp(a) PROVE TypeOK'
    BY <2>2 DEF TimeIsUp
  <2>3. CASE ArchiveQuiz
    BY <2>3 DEF ArchiveQuiz
  <2>4. CASE PublishQuiz
    BY <2>4 DEF PublishQuiz
  <2>5. CASE UNCHANGED vars
    BY <2>5 DEF vars
  <2> QED BY <2>1, <2>2, <2>3, <2>4, <2>5 DEF Next
<1> QED BY <1>1, <1>2, PTL DEF Spec

----------------------------------------------------------------------------
(* Counting active attempts and requests *)

LEMMA FiniteFacts ==
  /\ Cardinality(Requests) \in Nat
  /\ \A S \in SUBSET Requests : IsFiniteSet(S) /\ Cardinality(S) \in Nat
                                /\ Cardinality(S) <= Cardinality(Requests)
  /\ \A S \in SUBSET Attempts : IsFiniteSet(S) /\ Cardinality(S) \in Nat
<1>1. IsFiniteSet(Attempts)
  BY AttemptAssumption, FS_Interval DEF Attempts
<1> QED BY <1>1, RequestAssumption, FS_Subset, FS_CardinalityType

LEMMA CreatorsAreRequests == \A T : Creators(T) \in SUBSET Requests
  BY DEF Creators

(* There is room after a step that activates nothing and makes no request  *)
(* create an attempt that would not have.                                  *)
LEMMA RoomKept ==
  ASSUME TypeOK', Room, Active' \subseteq Active,
         \A T \in SUBSET Active' : Creators(T)' \subseteq Creators(T)
  PROVE  Room'
<1> SUFFICES ASSUME NEW T \in SUBSET Active'
             PROVE  Cardinality(T) + Cardinality(Creators(T)') <= Cardinality(Requests)
  BY DEF Room
<1>1. Cardinality(T) + Cardinality(Creators(T)) <= Cardinality(Requests)
  BY DEF Room
<1>2. Creators(T)' \in SUBSET Creators(T)
  OBVIOUS
<1>3. Cardinality(Creators(T)') <= Cardinality(Creators(T))
  BY <1>2, CreatorsAreRequests, FiniteFacts, FS_Subset
<1>4. /\ Cardinality(T) \in Nat /\ Cardinality(Creators(T)) \in Nat
      /\ Cardinality(Creators(T)') \in Nat
  <2>1. T \in SUBSET Attempts
    BY DEF Active
  <2>2. Creators(T)' \in SUBSET Requests
    BY <1>2, CreatorsAreRequests
  <2> QED BY <2>1, <2>2, CreatorsAreRequests, FiniteFacts
<1> QED BY <1>1, <1>3, <1>4, FiniteFacts

(* A step that at most settles attempts and leaves request r with neither  *)
(* a query nor an attempt to create.                                       *)
LEMMA SettlingStep ==
  ASSUME TypeOK, TypeOK', IInv, NEW r \in Requests, NEW x,
         request' = [request EXCEPT ![r] = x],
         x.op \notin {"start", "create"},
         x.op \in AttemptOps \cup {"save"} => status[x.attempt] # "absent" /\ x.attempt \in Attempts,
         \A a \in Attempts : \/ status'[a] = status[a]
                             \/ status[a] # "absent" /\ status'[a] \in Settled
  PROVE  IInv'
<1>1. \A a \in Attempts : status'[a] = "absent" <=> status[a] = "absent"
  BY DEF Settled
<1>2. \A a \in Attempts : status'[a] = "in_progress" => status[a] = "in_progress"
  BY DEF Settled
<1>3. /\ request'[r] = x
      /\ \A s \in Requests : s # r => request'[s] = request[s]
  BY DEF TypeOK
<1>4. \A s \in Requests : request[s].op \in AttemptOps \cup {"save"} => request[s].attempt \in Attempts
  BY DEF TypeOK, RequestStates, AttemptOps
<1>5. InOrder'
  BY <1>1 DEF IInv, InOrder
<1>6. FetchedStarted'
  BY <1>1, <1>3, <1>4 DEF IInv, FetchedStarted
<1>7. FoundStarted'
  BY <1>1, <1>3 DEF IInv, FoundStarted
<1>8. FoundOlder'
  BY <1>2, <1>3 DEF IInv, FoundOlder
<1>9. Room'
  <2>1. Active' \subseteq Active
    BY <1>2 DEF Active
  <2>2. \A T : Creators(T)' \subseteq Creators(T)
    BY <1>3 DEF Creators
  <2> QED BY <2>1, <2>2, RoomKept DEF IInv
<1> QED BY <1>5, <1>6, <1>7, <1>8, <1>9 DEF IInv

(* A query that begins finds every active attempt: its request will create *)
(* one only if all of them are settled first.                              *)
LEMMA StartStep ==
  ASSUME TypeOK, TypeOK', IInv, NEW r \in Requests, Start(r)
  PROVE  IInv'
<1>1. /\ request'[r] = [op |-> "start", seen |-> Active]
      /\ \A s \in Requests : s # r => request'[s] = request[s]
      /\ status' = status /\ Active' = Active
  BY DEF Start, TypeOK, Active
<1>2. InOrder'
  BY <1>1 DEF IInv, InOrder
<1>3. FetchedStarted'
  BY <1>1 DEF IInv, FetchedStarted, AttemptOps
<1>4. FoundStarted'
  BY <1>1 DEF IInv, FoundStarted, Active
<1>5. FoundOlder'
  BY <1>1 DEF IInv, FoundOlder, Active
<1>6. Room'
  <2> SUFFICES ASSUME NEW T \in SUBSET Active
               PROVE  Cardinality(T) + Cardinality(Creators(T)') <= Cardinality(Requests)
    BY <1>1 DEF Room
  <2>1. CASE T = {}
    <3>1. Creators(T)' \in SUBSET Requests
      BY DEF Creators
    <3> QED BY <2>1, <3>1, FiniteFacts, FS_EmptySet
  <2>2. CASE T # {}
    <3>1. Creators(T)' \in SUBSET Creators(T)
      BY <1>1, <2>2 DEF Creators
    <3>2. Cardinality(Creators(T)') <= Cardinality(Creators(T))
      BY <3>1, CreatorsAreRequests, FiniteFacts, FS_Subset
    <3>3. /\ Cardinality(T) + Cardinality(Creators(T)) <= Cardinality(Requests)
          /\ T \in SUBSET Attempts /\ Creators(T)' \in SUBSET Requests
      BY <3>1, CreatorsAreRequests DEF IInv, Room, Active
    <3> QED BY <3>2, <3>3, CreatorsAreRequests, FiniteFacts
  <2> QED BY <2>1, <2>2
<1> QED BY <1>2, <1>3, <1>4, <1>5, <1>6 DEF IInv

(* A request whose query found nothing that is still active creates one:   *)
(* it was counted among the creators already.                              *)
LEMMA LookedInVainStep ==
  ASSUME TypeOK, TypeOK', IInv, NEW r \in Requests,
         request[r].op = "start", Found(r) = {},
         request' = [request EXCEPT ![r] = [op |-> "create"]], status' = status
  PROVE  IInv'
<1>1. /\ request'[r] = [op |-> "create"]
      /\ \A s \in Requests : s # r => request'[s] = request[s]
      /\ Active' = Active
  BY DEF TypeOK, Active
<1>2. InOrder'
  BY DEF IInv, InOrder
<1>3. FetchedStarted' /\ FoundStarted' /\ FoundOlder'
  BY <1>1 DEF IInv, FetchedStarted, FoundStarted, FoundOlder, AttemptOps
<1>4. \A T \in SUBSET Active : Creators(T)' \subseteq Creators(T)
  BY <1>1 DEF Creators, Found
<1>5. Room'
  BY <1>1, <1>4, RoomKept DEF IInv
<1> QED BY <1>2, <1>3, <1>5 DEF IInv

(* What makes attempt b active takes its request from the creators, or an  *)
(* older attempt a of its finding from the active ones.                    *)
LEMMA ActivatingStep ==
  ASSUME TypeOK, TypeOK', IInv, NEW r \in Requests, NEW b \in Attempts, NextAttempt(b),
         request' = [request EXCEPT ![r] = Idle],
         status'[b] = "in_progress",
         \A c \in Attempts : \/ status'[c] = status[c]
                             \/ c = b
                             \/ status[c] # "absent" /\ status'[c] \in Settled,
         \A T \in SUBSET (Active' \ {b}) :
           \E U \in SUBSET Active :
             /\ r \in Creators(U) => Cardinality(T) <= Cardinality(U)
             /\ r \notin Creators(U) => Cardinality(T) + 1 <= Cardinality(U)
             /\ Creators(T) \ {r} \subseteq Creators(U)
  PROVE  IInv'
<1>1. /\ request'[r] = Idle
      /\ \A s \in Requests : s # r => request'[s] = request[s]
  BY DEF TypeOK
<1>2. /\ status[b] = "absent"
      /\ \A c \in Attempts : status[c] = "absent" => b <= c
      /\ b \in Int /\ \A c \in Attempts : c \in Int
  BY DEF NextAttempt, Absent, Attempts
<1>3. /\ \A c \in Attempts : status'[c] = "absent" <=> status[c] = "absent" /\ c # b
      /\ \A c \in Attempts : status'[c] = "in_progress" => status[c] = "in_progress" \/ c = b
  BY <1>2 DEF Settled
<1>4. \A s \in Requests : request[s].op \in AttemptOps \cup {"save"} => request[s].attempt \in Attempts
  BY DEF TypeOK, RequestStates, AttemptOps
<1>5. InOrder'
  BY <1>2, <1>3 DEF IInv, InOrder
<1>6. FetchedStarted'
  BY <1>1, <1>3, <1>4 DEF IInv, FetchedStarted, Idle, AttemptOps
<1>7. FoundStarted'
  BY <1>1, <1>3 DEF IInv, FoundStarted, Idle
<1>8. FoundOlder'
  <2> SUFFICES ASSUME NEW s \in Requests, NEW a \in Attempts, NEW c \in Attempts,
                      request'[s].op = "start", a \in request'[s].seen,
                      c < a, status'[c] = "in_progress"
               PROVE  c \in request'[s].seen
    BY DEF FoundOlder
  <2>1. s # r /\ request'[s] = request[s]
    BY <1>1 DEF Idle
  <2>2. status[a] # "absent"
    BY <2>1 DEF IInv, FoundStarted
  <2>3. c # b
    BY <1>2, <2>2 DEF IInv, InOrder
  <2> QED BY <1>3, <2>1, <2>3 DEF IInv, FoundOlder
<1>9. Room'
  <2> SUFFICES ASSUME NEW T \in SUBSET Active'
               PROVE  Cardinality(T) + Cardinality(Creators(T)') <= Cardinality(Requests)
    BY DEF Room
  <2> DEFINE S == T \ {b}
  <2>1. S \in SUBSET (Active' \ {b}) /\ S \in SUBSET Attempts /\ T \in SUBSET Attempts
    BY DEF Active
  <2>2. PICK U \in SUBSET Active :
          /\ r \in Creators(U) => Cardinality(S) <= Cardinality(U)
          /\ r \notin Creators(U) => Cardinality(S) + 1 <= Cardinality(U)
          /\ Creators(S) \ {r} \subseteq Creators(U)
    BY <2>1
  <2>3. Cardinality(T) <= Cardinality(S) + 1
    BY <2>1, FiniteFacts, FS_RemoveElement
  <2>4. Creators(T)' \in SUBSET (Creators(U) \ {r})
    <3>1. Creators(T)' \subseteq Creators(S) \ {r}
      <4> SUFFICES ASSUME NEW s \in Creators(T)' PROVE s \in Creators(S) \ {r}
        OBVIOUS
      <4>1. s \in Requests /\ s # r /\ request'[s] = request[s]
        BY <1>1 DEF Creators, Idle
      <4> QED BY <4>1 DEF Creators
    <3> QED BY <3>1, <2>2
  <2>5. Creators(U) \in SUBSET Requests /\ IsFiniteSet(Creators(U))
    BY CreatorsAreRequests, FiniteFacts
  <2>6. /\ Cardinality(Creators(T)') <= Cardinality(Creators(U) \ {r})
        /\ Cardinality(Creators(U) \ {r}) =
             IF r \in Creators(U) THEN Cardinality(Creators(U)) - 1 ELSE Cardinality(Creators(U))
    BY <2>4, <2>5, FS_RemoveElement, FS_Subset
  <2>7. Cardinality(U) + Cardinality(Creators(U)) <= Cardinality(Requests)
    BY DEF IInv, Room
  <2>8. /\ Cardinality(T) \in Nat /\ Cardinality(S) \in Nat /\ Cardinality(U) \in Nat
        /\ Cardinality(Creators(T)') \in Nat /\ Cardinality(Creators(U)) \in Nat
        /\ Cardinality(Requests) \in Nat
    <3>1. Creators(T)' \in SUBSET Requests /\ U \in SUBSET Attempts
      BY <2>4, <2>5 DEF Active
    <3> QED BY <2>1, <2>5, <3>1, FiniteFacts
  <2> HIDE DEF S
  <2> QED BY <2>2, <2>3, <2>6, <2>7, <2>8
<1> QED BY <1>5, <1>6, <1>7, <1>8, <1>9 DEF IInv

LEMMA CreateStep ==
  ASSUME TypeOK, TypeOK', IInv, NEW r \in Requests, Create(r)
  PROVE  IInv'
<1>1. PICK b \in Attempts : NextAttempt(b) /\ status' = [status EXCEPT ![b] = "in_progress"]
  BY DEF Create
<1>2. \A c \in Attempts : status'[c] = IF c = b THEN "in_progress" ELSE status[c]
  BY <1>1 DEF TypeOK
<1>3. ASSUME NEW T \in SUBSET (Active' \ {b})
      PROVE  \E U \in SUBSET Active :
               /\ r \in Creators(U) => Cardinality(T) <= Cardinality(U)
               /\ r \notin Creators(U) => Cardinality(T) + 1 <= Cardinality(U)
               /\ Creators(T) \ {r} \subseteq Creators(U)
  <2>1. T \in SUBSET Active /\ T \in SUBSET Attempts
    BY <1>2 DEF Active
  <2>2. r \in Creators(T)
    BY DEF Create, Creators
  <2>3. Cardinality(T) <= Cardinality(T)
    BY <2>1, FiniteFacts
  <2> QED BY <2>1, <2>2, <2>3
<1>4. request' = [request EXCEPT ![r] = Idle]
  BY DEF Create, Done
<1> QED BY <1>1, <1>2, <1>3, <1>4, ActivatingStep

(* Replacing an attempt whose time is over keeps their number: a query     *)
(* that found it found every older one that is active too.                 *)
LEMMA ReplaceStep ==
  ASSUME TypeOK, TypeOK', IInv, NEW r \in Requests, request[r].op = "start",
         NEW a \in Attempts, NEW b \in Attempts, Latest(r, a), NextAttempt(b),
         status' = [status EXCEPT ![a] = "submitted", ![b] = "in_progress"],
         request' = [request EXCEPT ![r] = Idle]
  PROVE  IInv'
<1>1. status[a] = "in_progress" /\ a \in request[r].seen /\ status[b] = "absent"
  BY DEF Latest, Found, Active, NextAttempt, Absent
<1>2. /\ a # b /\ status'[a] = "submitted" /\ status'[b] = "in_progress"
      /\ \A c \in Attempts : c # a /\ c # b => status'[c] = status[c]
  BY <1>1 DEF TypeOK
<1>3. ASSUME NEW T \in SUBSET (Active' \ {b})
      PROVE  \E U \in SUBSET Active :
               /\ r \in Creators(U) => Cardinality(T) <= Cardinality(U)
               /\ r \notin Creators(U) => Cardinality(T) + 1 <= Cardinality(U)
               /\ Creators(T) \ {r} \subseteq Creators(U)
  <2>1. /\ T \in SUBSET Active /\ T \in SUBSET Attempts /\ a \notin T
        /\ IsFiniteSet(T) /\ Cardinality(T) \in Nat
    <3>1. \A c \in T : c \in Attempts /\ c # b /\ status'[c] = "in_progress"
      BY DEF Active
    <3>2. a \notin T
      BY <1>2, <3>1
    <3>3. T \in SUBSET Active /\ T \in SUBSET Attempts /\ a \notin T
      BY <1>2, <3>1, <3>2 DEF Active
    <3> QED BY <3>3, FiniteFacts
  <2>2. CASE r \in Creators(T)
    BY <2>1, <2>2
  <2>3. CASE r \notin Creators(T)
    <3> DEFINE U == T \cup {a}
    <3>1. U \in SUBSET Active /\ Cardinality(U) = Cardinality(T) + 1
      BY <1>1, <2>1, FS_AddElement DEF Active
    <3>2. PICK c \in T : c \in request[r].seen
      BY <2>3 DEF Creators
    <3>3. c \in Attempts /\ a \in Int /\ c \in Int /\ c <= a /\ c # a /\ status[c] = "in_progress"
      BY <2>1, <3>2 DEF Latest, Found, Active, Attempts
    <3>4. \A s \in Creators(T) : request[s].op = "start" => a \notin request[s].seen
      BY <2>1, <3>2, <3>3 DEF Creators, IInv, FoundOlder
    <3>5. Creators(T) \subseteq Creators(U)
      BY <3>4 DEF Creators
    <3>6. r \notin Creators(U)
      BY <1>1 DEF Creators
    <3>7. Cardinality(T) + 1 <= Cardinality(U)
      BY <2>1, <3>1
    <3> HIDE DEF U
    <3> QED BY <3>1, <3>5, <3>6, <3>7
  <2> QED BY <2>2, <2>3
<1>4. \A c \in Attempts : \/ status'[c] = status[c]
                          \/ c = b
                          \/ status[c] # "absent" /\ status'[c] \in Settled
  BY <1>1, <1>2 DEF Settled
<1>5. status'[b] = "in_progress"
  BY <1>2
<1> QED BY <1>3, <1>4, <1>5, ActivatingStep

----------------------------------------------------------------------------
(* The bound *)

LEMMA InitIInv == Init => IInv
<1> SUFFICES ASSUME Init PROVE IInv
  OBVIOUS
<1>1. InOrder /\ FetchedStarted /\ FoundStarted /\ FoundOlder
  BY DEF Init, InOrder, FetchedStarted, FoundStarted, FoundOlder, Idle, AttemptOps
<1>2. Room
  <2> SUFFICES ASSUME NEW T \in SUBSET Active
               PROVE  Cardinality(T) + Cardinality(Creators(T)) <= Cardinality(Requests)
    BY DEF Room
  <2>1. T = {} /\ Creators(T) = {}
    BY DEF Init, Active, Creators, Idle
  <2> QED BY <2>1, FiniteFacts, FS_EmptySet
<1> QED BY <1>1, <1>2 DEF IInv

LEMMA NextIInv ==
  ASSUME TypeOK, TypeOK', IInv, [Next]_vars PROVE IInv'
<1>1. ASSUME NEW r \in Requests, RequestStep(r) PROVE IInv'
  <2>1. CASE Start(r)
    BY <2>1, StartStep
  <2>2. CASE Look(r)
    <3>1. CASE Found(r) = {} /\ request' = [request EXCEPT ![r] = [op |-> "create"]] /\ status' = status
      BY <2>2, <3>1, LookedInVainStep DEF Look
    <3>2. CASE \E a, b \in Attempts :
                 /\ Latest(r, a) /\ NextAttempt(b) /\ Done(r)
                 /\ status' = [status EXCEPT ![a] = "submitted", ![b] = "in_progress"]
      BY <2>2, <3>2, ReplaceStep DEF Look, Done
    <3>3. CASE Done(r) /\ status' = status
      BY <3>3, SettlingStep DEF Done, Idle, AttemptOps
    <3> QED BY <2>2, <3>1, <3>2, <3>3 DEF Look
  <2>3. CASE Create(r)
    BY <2>3, CreateStep
  <2>4. ASSUME NEW a \in Attempts, Fetch(r, a) PROVE IInv'
    BY <2>4, SettlingStep DEF Fetch, AttemptOps
  <2>5. CASE SubmitAnswer(r) \/ Refuse(r)
    <3>1. request' = [request EXCEPT ![r] = Idle] /\ status' = status
      BY <2>5 DEF SubmitAnswer, Refuse, Done
    <3> QED BY <3>1, SettlingStep DEF Idle, AttemptOps
  <2>6. CASE Grade(r)
    <3>1. /\ status[request[r].attempt] # "absent" /\ status' = status
          /\ request[r].attempt \in Attempts
      BY <2>6 DEF Grade, Accepted, AttemptOps, IInv, FetchedStarted, TypeOK, RequestStates
    <3>2. PICK x : /\ request' = [request EXCEPT ![r] = x]
                   /\ x.op = "save" /\ x.attempt = request[r].attempt
      BY <2>6 DEF Grade
    <3> QED BY <3>1, <3>2, SettlingStep
  <2>7. CASE Save(r) \/ AbandonAttempt(r)
    <3>1. /\ request[r].attempt \in Attempts
          /\ status[request[r].attempt] # "absent"
      BY <2>7 DEF Save, AbandonAttempt, Accepted, AttemptOps, IInv, FetchedStarted, TypeOK, RequestStates
    <3>2. /\ request' = [request EXCEPT ![r] = Idle]
          /\ \E new \in Settled : status' = [status EXCEPT ![request[r].attempt] = new]
      BY <2>7 DEF Save, AbandonAttempt, Done, Settled
    <3>3. \A a \in Attempts : \/ status'[a] = status[a]
                              \/ status[a] # "absent" /\ status'[a] \in Settled
      BY <3>1, <3>2 DEF TypeOK
    <3> QED BY <3>2, <3>3, SettlingStep DEF Idle, AttemptOps
  <2> QED BY <1>1, <2>1, <2>2, <2>3, <2>4, <2>5, <2>6, <2>7 DEF RequestStep
<1>2. CASE UNCHANGED <<status, request>>
  <2>1. InOrder' /\ FetchedStarted' /\ FoundStarted' /\ FoundOlder'
    BY <1>2 DEF IInv, InOrder, FetchedStarted, FoundStarted, FoundOlder
  <2>2. Room'
    BY <1>2 DEF IInv, Room, Active, Creators
  <2> QED BY <2>1, <2>2 DEF IInv
<1> QED BY <1>1, <1>2 DEF Next, TimeIsUp, ArchiveQuiz, PublishQuiz, vars

(* A student has at most as many attempts in progress as requests at a     *)
(* time: start_quiz_attempt alone makes a second one, and only by two      *)
(* queries that found nothing to lock.                                     *)
THEOREM AttemptsBounded == Spec => []ActiveAttemptsBounded
<1>1. IInv => ActiveAttemptsBounded
  <2> SUFFICES ASSUME IInv PROVE ActiveAttemptsBounded
    OBVIOUS
  <2>1. /\ Cardinality(Active) + Cardinality(Creators(Active)) <= Cardinality(Requests)
        /\ Active \in SUBSET Attempts /\ Creators(Active) \in SUBSET Requests
    BY CreatorsAreRequests DEF IInv, Room, Active
  <2> QED BY <2>1, FiniteFacts DEF ActiveAttemptsBounded
<1>2. Init => IInv
  BY InitIInv
<1>3. TypeOK /\ TypeOK' /\ IInv /\ [Next]_vars => IInv'
  BY NextIInv
<1>4. Spec => []TypeOK
  BY TypeCorrect
<1> QED BY <1>1, <1>2, <1>3, <1>4, PTL DEF Spec

----------------------------------------------------------------------------
(* Results and settled attempts *)

Holding(r) == request[r].op \in AttemptOps \cup {"save"}
Sole(r)    == Holding(r) /\ request[r].attempt \notin shared

(* An attempt that no two requests worked on at once is held by one.       *)
HeldOnce ==
  \A r, s \in Requests :
    Sole(r) /\ Sole(s) /\ request[r].attempt = request[s].attempt => r = s

(* What its holder fetched is still so, and what it will save are the      *)
(* counts of the answers that there will be.                               *)
HeldTrue ==
  \A r \in Requests : Sole(r) =>
    /\ request[r].op # "save" => status[request[r].attempt] = request[r].seen
    /\ request[r].op = "save" =>
         /\ status[request[r].attempt] = "in_progress"
         /\ request[r].result = AttemptResult(Merged(answer[request[r].attempt], request[r].given))

SavesCounts == \A r \in Requests : request[r].op = "save" => request[r].result # NoResult

RInv == HeldOnce /\ HeldTrue /\ SavesCounts /\ ResultIsOfAnswers

(* A quiz has questions, so every attempt's result counts something.       *)
LEMMA ResultCounts == \A given \in Answers : AttemptResult(given) # NoResult
<1> SUFFICES ASSUME NEW given \in Answers PROVE AttemptResult(given) # NoResult
  OBVIOUS
<1> DEFINE Of(g) == {q \in Questions : given[q] = g}
<1>1. PICK q \in Questions : TRUE
  BY QuizAssumption
<1>2. given[q] \in {"right", "wrong", "none"}
  BY DEF Answers, Grades
<1>3. \A g : IsFiniteSet(Of(g))
  <2> SUFFICES ASSUME NEW g PROVE IsFiniteSet(Of(g))
    OBVIOUS
  <2>1. Of(g) \in SUBSET Questions
    OBVIOUS
  <2> QED BY <2>1, QuizAssumption, FS_Subset
<1>4. Cardinality(Of(given[q])) # 0
  <2>1. q \in Of(given[q])
    OBVIOUS
  <2>2. Of(given[q]) # {}
    BY <2>1
  <2> HIDE DEF Of
  <2> QED BY <1>3, <2>2, FS_EmptySet
<1>5. Answered(given, given[q]) # 0
  BY <1>4 DEF Answered
<1> QED BY <1>2, <1>5 DEF AttemptResult, NoResult

LEMMA MergedType == \A saved, given \in Answers : Merged(saved, given) \in Answers
BY DEF Merged, Answers

(* A request ends, or looks no longer at an attempt, having written rows   *)
(* of attempts that no other request is the only one to hold.              *)
LEMMA RowsStep ==
  ASSUME TypeOK, RInv, NEW r \in Requests, NEW x,
         x.op \notin AttemptOps \cup {"save"}, request' = [request EXCEPT ![r] = x],
         shared \subseteq shared', NEW S \in SUBSET Attempts,
         \A b \in Attempts \ S :
           status'[b] = status[b] /\ answer'[b] = answer[b] /\ result'[b] = result[b],
         \A s \in Requests \ {r} :
           Holding(s) /\ request[s].attempt \in S => request[s].attempt \in shared',
         \A b \in S \ shared' : status'[b] = "submitted" => result'[b] = AttemptResult(answer'[b])
  PROVE  RInv'
<1>1. \A s \in Requests \ {r} : request'[s] = request[s]
  BY DEF TypeOK
<1>2. request'[r] = x
  BY DEF TypeOK
<1>3. \A s \in Requests : Sole(s)' => s # r /\ Sole(s) /\ request'[s] = request[s]
  BY <1>1, <1>2 DEF Sole, Holding
<1>4. \A s \in Requests : Sole(s)' => request[s].attempt \in Attempts \ S
  <2> SUFFICES ASSUME NEW s \in Requests, Sole(s)' PROVE request[s].attempt \in Attempts \ S
    OBVIOUS
  <2>1. s # r /\ Holding(s) /\ request'[s] = request[s] /\ request[s].attempt \notin shared'
    BY <1>3 DEF Sole
  <2>2. request[s].attempt \in Attempts
    BY <2>1 DEF TypeOK, RequestStates, Holding, AttemptOps
  <2> QED BY <2>1, <2>2
<1>5. HeldOnce'
  BY <1>3 DEF RInv, HeldOnce
<1>6. HeldTrue'
  <2> SUFFICES ASSUME NEW s \in Requests, Sole(s)'
               PROVE  /\ request'[s].op # "save" => status'[request'[s].attempt] = request'[s].seen
                      /\ request'[s].op = "save" =>
                           /\ status'[request'[s].attempt] = "in_progress"
                           /\ request'[s].result = AttemptResult(Merged(answer'[request'[s].attempt], request'[s].given))
    BY DEF HeldTrue, AttemptResult, Answered, Merged
  <2>1. Sole(s) /\ request'[s] = request[s] /\ request[s].attempt \in Attempts \ S
    BY <1>3, <1>4
  <2> QED BY <2>1 DEF RInv, HeldTrue
<1>7. SavesCounts'
  BY <1>1, <1>2 DEF RInv, SavesCounts
<1>8. ResultIsOfAnswers'
  <2> SUFFICES ASSUME NEW a \in Attempts, a \notin shared', status'[a] = "submitted"
               PROVE  result'[a] = AttemptResult(answer'[a])
    BY DEF ResultIsOfAnswers, AttemptResult, Answered
  <2>1. CASE a \notin S
    BY <2>1 DEF RInv, ResultIsOfAnswers
  <2>2. CASE a \in S
    BY <2>2
  <2> QED BY <2>1, <2>2
<1> QED BY <1>5, <1>6, <1>7, <1>8 DEF RInv

(* A request that works on the attempt it holds.                           *)
LEMMA HolderStep ==
  ASSUME TypeOK, RInv, NEW r \in Requests, Holding(r), NEW a \in Attempts,
         a = request[r].attempt,
         request' = [request EXCEPT ![r] = Idle], shared' = shared,
         \A b \in Attempts \ {a} :
           status'[b] = status[b] /\ answer'[b] = answer[b] /\ result'[b] = result[b],
         a \notin shared /\ status'[a] = "submitted" => result'[a] = AttemptResult(answer'[a])
  PROVE  RInv'
<1>1. \A s \in Requests \ {r} : Holding(s) /\ request[s].attempt \in {a} => request[s].attempt \in shared'
  BY DEF RInv, HeldOnce, Sole
<1>2. Idle.op \notin AttemptOps \cup {"save"}
  BY DEF Idle, AttemptOps
<1>3. /\ {a} \in SUBSET Attempts /\ shared \subseteq shared'
      /\ \A b \in {a} \ shared' : status'[b] = "submitted" => result'[b] = AttemptResult(answer'[b])
  OBVIOUS
<1> QED BY <1>1, <1>2, <1>3, RowsStep

LEMMA InitRInv == Init => RInv
BY DEF Init, RInv, HeldOnce, HeldTrue, SavesCounts, ResultIsOfAnswers, Sole, Holding, Idle, AttemptOps

LEMMA NextRInv ==
  ASSUME TypeOK, TypeOK', IInv, RInv, [Next]_vars PROVE RInv'
<1>1. ASSUME NEW r \in Requests, RequestStep(r) PROVE RInv'
  <2>1. ASSUME NEW x, x.op \notin AttemptOps \cup {"save"}, request' = [request EXCEPT ![r] = x],
               UNCHANGED <<status, answer, result, shared>>
        PROVE  RInv'
    <3>1. {} \in SUBSET Attempts /\ shared \subseteq shared'
      BY <2>1
    <3> QED BY <2>1, <3>1, RowsStep
  <2>2. CASE Start(r)
    BY <2>1, <2>2 DEF Start, AttemptOps
  <2>3. CASE Look(r)
    <3>1. CASE Done(r) /\ UNCHANGED <<status, result, shared>>
      BY <2>1, <2>3, <3>1 DEF Look, Done, Idle, AttemptOps
    <3>2. CASE request' = [request EXCEPT ![r] = [op |-> "create"]] /\ UNCHANGED <<status, result, shared>>
      BY <2>1, <2>3, <3>2 DEF Look, AttemptOps
    <3>3. ASSUME NEW a \in Attempts, NEW b \in Attempts, NextAttempt(b), Latest(r, a),
                 status' = [status EXCEPT ![a] = "submitted", ![b] = "in_progress"],
                 result' = [result EXCEPT ![a] = AttemptResult(answer[a])],
                 shared' = IF Holders(a) = {} THEN shared ELSE shared \cup {a},
                 Done(r)
          PROVE  RInv'
      <4>1. answer' = answer /\ request' = [request EXCEPT ![r] = Idle]
        BY <2>3, <3>3 DEF Look, Done
      <4>2. a # b
        BY <3>3 DEF NextAttempt, Absent, Latest, Found, Active
      <4>3. \A c \in Attempts \ {a, b} : status'[c] = status[c] /\ answer'[c] = answer[c] /\ result'[c] = result[c]
        BY <3>3, <4>1 DEF TypeOK
      <4>4. status'[b] = "in_progress" /\ result'[a] = AttemptResult(answer'[a])
        BY <3>3, <4>1, <4>2 DEF TypeOK
      <4>5. \A s \in Requests : Holding(s) => request[s].attempt # b
        BY <3>3 DEF IInv, FetchedStarted, Holding, NextAttempt, Absent
      <4>6. \A s \in Requests : Holding(s) /\ request[s].attempt = a => a \in shared'
        BY <3>3 DEF Holders, Holding
      <4>7. \A s \in Requests \ {r} : Holding(s) /\ request[s].attempt \in {a, b} => request[s].attempt \in shared'
        BY <4>5, <4>6
      <4>8. \A c \in {a, b} \ shared' : status'[c] = "submitted" => result'[c] = AttemptResult(answer'[c])
        BY <4>4
      <4>9. Idle.op \notin AttemptOps \cup {"save"} /\ shared \subseteq shared' /\ {a, b} \in SUBSET Attempts
        BY <3>3 DEF Idle, AttemptOps
      <4> QED BY <4>1, <4>3, <4>7, <4>8, <4>9, RowsStep
    <3> QED BY <2>3, <3>1, <3>2, <3>3 DEF Look
  <2>4. CASE Create(r)
    <3>1. PICK b \in Attempts : NextAttempt(b) /\ status' = [status EXCEPT ![b] = "in_progress"]
      BY <2>4 DEF Create
    <3>2. UNCHANGED <<answer, result, shared>> /\ request' = [request EXCEPT ![r] = Idle]
      BY <2>4 DEF Create, Done
    <3>3. \A c \in Attempts \ {b} : status'[c] = status[c] /\ answer'[c] = answer[c] /\ result'[c] = result[c]
      BY <3>1, <3>2 DEF TypeOK
    <3>4. \A s \in Requests \ {r} : Holding(s) /\ request[s].attempt \in {b} => request[s].attempt \in shared'
      BY <3>1 DEF IInv, FetchedStarted, Holding, NextAttempt, Absent
    <3>5. \A c \in {b} \ shared' : status'[c] = "submitted" => result'[c] = AttemptResult(answer'[c])
      BY <3>1 DEF TypeOK
    <3>6. Idle.op \notin AttemptOps \cup {"save"} /\ shared \subseteq shared' /\ {b} \in SUBSET Attempts
      BY <3>2 DEF Idle, AttemptOps
    <3> QED BY <3>2, <3>3, <3>4, <3>5, <3>6, RowsStep
  <2>5. ASSUME NEW a \in Attempts, Fetch(r, a) PROVE RInv'
    <3>1. PICK op \in AttemptOps : request' = [request EXCEPT ![r] = [op |-> op, attempt |-> a, seen |-> status[a]]]
      BY <2>5 DEF Fetch
    <3>2. /\ request'[r] = [op |-> op, attempt |-> a, seen |-> status[a]] /\ op # "save"
          /\ \A s \in Requests \ {r} : request'[s] = request[s]
      BY <3>1 DEF TypeOK, AttemptOps
    <3>3. /\ UNCHANGED <<status, answer, result>> /\ shared \subseteq shared'
          /\ a \notin shared' => Holders(a) = {}
      BY <2>5 DEF Fetch
    <3>4. \A s \in Requests \ {r} : Sole(s)' => Sole(s) /\ request[s].attempt # a
      BY <3>2, <3>3 DEF Sole, Holding, Holders
    <3>5. HeldOnce'
      BY <3>2, <3>4 DEF RInv, HeldOnce
    <3>6. HeldTrue'
      <4> SUFFICES ASSUME NEW s \in Requests, Sole(s)'
                   PROVE  /\ request'[s].op # "save" => status[request'[s].attempt] = request'[s].seen
                          /\ request'[s].op = "save" =>
                               /\ status[request'[s].attempt] = "in_progress"
                               /\ request'[s].result = AttemptResult(Merged(answer[request'[s].attempt], request'[s].given))
        BY <3>3 DEF HeldTrue, AttemptResult, Answered, Merged
      <4>1. CASE s = r
        BY <3>2, <4>1
      <4>2. CASE s # r
        BY <3>2, <3>4, <4>2 DEF RInv, HeldTrue
      <4> QED BY <4>1, <4>2
    <3>7. SavesCounts'
      BY <3>2 DEF RInv, SavesCounts
    <3>8. ResultIsOfAnswers'
      BY <3>3 DEF RInv, ResultIsOfAnswers, AttemptResult, Answered
    <3> QED BY <3>5, <3>6, <3>7, <3>8 DEF RInv
  <2>6. CASE SubmitAnswer(r)
    <3> DEFINE a == request[r].attempt
    <3>1. Holding(r) /\ a \in Attempts /\ request[r].op # "save" /\ request[r].seen = "in_progress"
      BY <2>6 DEF SubmitAnswer, Accepted, Holding, AttemptOps, TypeOK, RequestStates
    <3>2. /\ UNCHANGED <<status, result, shared>> /\ request' = [request EXCEPT ![r] = Idle]
          /\ \E q \in Questions, g \in Grades : answer' = [answer EXCEPT ![a][q] = g]
      BY <2>6 DEF SubmitAnswer, Done
    <3>3. \A b \in Attempts \ {a} : answer'[b] = answer[b]
      BY <3>2 DEF TypeOK
    <3>4. a \notin shared => status[a] = "in_progress"
      BY <3>1 DEF RInv, HeldTrue, Sole
    <3> HIDE DEF a
    <3>5. a = request[r].attempt
      BY DEF a
    <3> QED BY <3>1, <3>2, <3>3, <3>4, <3>5, HolderStep
  <2>7. CASE Grade(r)
    <3> DEFINE a == request[r].attempt
    <3>1. Holding(r) /\ a \in Attempts /\ request[r].op # "save" /\ request[r].seen = "in_progress"
      BY <2>7 DEF Grade, Accepted, Holding, AttemptOps, TypeOK, RequestStates
    <3>2. PICK given \in Answers :
            request' = [request EXCEPT ![r] =
              [op |-> "save", attempt |-> a, given |-> given,
               result |-> AttemptResult(Merged(answer[a], given))]]
      BY <2>7 DEF Grade
    <3>3. UNCHANGED <<status, answer, result, shared>>
      BY <2>7 DEF Grade
    <3>4. /\ request'[r] = [op |-> "save", attempt |-> a, given |-> given,
                            result |-> AttemptResult(Merged(answer[a], given))]
          /\ \A s \in Requests \ {r} : request'[s] = request[s]
      BY <3>2 DEF TypeOK
    <3>5. \A s \in Requests : Sole(s)' => Sole(s) /\ request'[s].attempt = request[s].attempt
      BY <3>1, <3>3, <3>4 DEF Sole, Holding
    <3>6. HeldOnce'
      BY <3>5 DEF RInv, HeldOnce
    <3>7. HeldTrue'
      <4> SUFFICES ASSUME NEW s \in Requests, Sole(s)'
                   PROVE  /\ request'[s].op # "save" => status[request'[s].attempt] = request'[s].seen
                          /\ request'[s].op = "save" =>
                               /\ status[request'[s].attempt] = "in_progress"
                               /\ request'[s].result = AttemptResult(Merged(answer[request'[s].attempt], request'[s].given))
        BY <3>3 DEF HeldTrue, AttemptResult, Answered, Merged
      <4>1. CASE s = r
        BY <3>1, <3>4, <3>5, <4>1 DEF RInv, HeldTrue
      <4>2. CASE s # r
        BY <3>4, <3>5, <4>2 DEF RInv, HeldTrue
      <4> QED BY <4>1, <4>2
    <3>8. SavesCounts'
      <4>1. answer[a] \in Answers
        BY <3>1 DEF TypeOK
      <4>2. AttemptResult(Merged(answer[a], given)) # NoResult
        BY <4>1, ResultCounts, MergedType
      <4>3. NoResult' = NoResult
        BY DEF NoResult
      <4> QED BY <3>4, <4>2, <4>3 DEF RInv, SavesCounts
    <3>9. ResultIsOfAnswers'
      BY <3>3 DEF RInv, ResultIsOfAnswers, AttemptResult, Answered
    <3> QED BY <3>6, <3>7, <3>8, <3>9 DEF RInv
  <2>8. CASE Save(r)
    <3> DEFINE a == request[r].attempt
    <3>1. Holding(r) /\ a \in Attempts /\ request[r].op = "save"
      BY <2>8 DEF Save, Holding, AttemptOps, TypeOK, RequestStates
    <3>2. /\ answer' = [answer EXCEPT ![a] = Merged(answer[a], request[r].given)]
          /\ result' = [result EXCEPT ![a] = request[r].result]
          /\ status' = [status EXCEPT ![a] = "submitted"]
          /\ shared' = shared /\ request' = [request EXCEPT ![r] = Idle]
      BY <2>8 DEF Save, Done
    <3>3. \A b \in Attempts \ {a} :
            status'[b] = status[b] /\ answer'[b] = answer[b] /\ result'[b] = result[b]
      BY <3>2 DEF TypeOK
    <3>4. answer'[a] = Merged(answer[a], request[r].given) /\ result'[a] = request[r].result
      BY <3>1, <3>2 DEF TypeOK
    <3>5. a \notin shared => request[r].result = AttemptResult(Merged(answer[a], request[r].given))
      BY <3>1 DEF RInv, HeldTrue, Sole
    <3>6. a \notin shared => result'[a] = AttemptResult(answer'[a])
      BY <3>4, <3>5
    <3> HIDE DEF a
    <3>7. a = request[r].attempt
      BY DEF a
    <3> QED BY <3>1, <3>2, <3>3, <3>6, <3>7, HolderStep
  <2>9. CASE AbandonAttempt(r)
    <3> DEFINE a == request[r].attempt
    <3>1. Holding(r) /\ a \in Attempts
      BY <2>9 DEF AbandonAttempt, Accepted, Holding, AttemptOps, TypeOK, RequestStates
    <3>2. /\ UNCHANGED <<answer, result, shared>> /\ request' = [request EXCEPT ![r] = Idle]
          /\ status' = [status EXCEPT ![a] = "abandoned"]
      BY <2>9 DEF AbandonAttempt, Done
    <3>3. status'[a] = "abandoned" /\ \A b \in Attempts \ {a} : status'[b] = status[b]
      BY <3>1, <3>2 DEF TypeOK
    <3> HIDE DEF a
    <3>4. a = request[r].attempt
      BY DEF a
    <3> QED BY <3>1, <3>2, <3>3, <3>4, HolderStep
  <2>10. CASE Refuse(r)
    BY <2>1, <2>10 DEF Refuse, Done, Idle, AttemptOps
  <2> QED BY <1>1, <2>2, <2>3, <2>4, <2>5, <2>6, <2>7, <2>8, <2>9, <2>10 DEF RequestStep
<1>2. CASE UNCHANGED <<status, answer, result, request, shared>>
  BY <1>2 DEF RInv, HeldOnce, HeldTrue, SavesCounts, ResultIsOfAnswers, Sole, Holding,
              AttemptResult, Answered, Merged, NoResult
<1> QED BY <1>1, <1>2 DEF Next, TimeIsUp, ArchiveQuiz, PublishQuiz, vars

(* The result stored with a submitted attempt is that of its answers,      *)
(* unless two requests worked on it at once.                               *)
THEOREM ResultsAreOfAnswers == Spec => []ResultIsOfAnswers
<1>1. Init => RInv /\ IInv
  BY InitRInv, InitIInv
<1>2. TypeOK /\ TypeOK' /\ IInv /\ RInv /\ [Next]_vars => IInv' /\ RInv'
  BY NextIInv, NextRInv
<1>3. RInv => ResultIsOfAnswers
  BY DEF RInv
<1>4. Spec => []TypeOK
  BY TypeCorrect
<1> QED BY <1>1, <1>2, <1>3, <1>4, PTL DEF Spec

(* A step that writes one attempt as it is settled, and starts others.     *)
LEMMA SettledStay ==
  ASSUME TypeOK, NEW r \in Requests, IInv, RInv, RequestStep(r)
  PROVE  \A a \in Attempts :
           /\ status[a] \in Settled => status'[a] \in Settled
           /\ result[a] # NoResult => result'[a] # NoResult
<1>1. CASE Look(r)
  <2>1. CASE UNCHANGED <<status, result>>
    BY <2>1
  <2>2. ASSUME NEW a \in Attempts, NEW b \in Attempts, Latest(r, a), NextAttempt(b),
               status' = [status EXCEPT ![a] = "submitted", ![b] = "in_progress"],
               result' = [result EXCEPT ![a] = AttemptResult(answer[a])]
        PROVE  \A c \in Attempts :
                 /\ status[c] \in Settled => status'[c] \in Settled
                 /\ result[c] # NoResult => result'[c] # NoResult
    <3>1. status[b] = "absent" /\ a # b
      BY <2>2 DEF NextAttempt, Absent, Latest, Found, Active
    <3>2. AttemptResult(answer[a]) # NoResult
      BY ResultCounts DEF TypeOK
    <3> QED BY <2>2, <3>1, <3>2 DEF TypeOK, Settled
  <2> QED BY <1>1, <2>1, <2>2 DEF Look
<1>2. CASE Create(r)
  BY <1>2 DEF Create, NextAttempt, Absent, Settled, TypeOK
<1>3. CASE Save(r)
  <2>1. request[r].result # NoResult
    BY <1>3 DEF Save, RInv, SavesCounts
  <2> QED BY <1>3, <2>1 DEF Save, Settled, TypeOK
<1>4. CASE AbandonAttempt(r)
  BY <1>4 DEF AbandonAttempt, Settled, TypeOK
<1>5. CASE UNCHANGED <<status, result>>
  BY <1>5
<1> QED BY <1>1, <1>2, <1>3, <1>4, <1>5 DEF RequestStep, Start, Fetch, SubmitAnswer, Grade, Refuse

(* No request, however stale what it fetched, makes a settled attempt      *)
(* active again or takes a result back to nothing.                         *)
THEOREM SettledIsNotReopened == Spec => NeverReopened
<1>1. TypeOK /\ IInv /\ RInv /\ [Next]_vars =>
        [\A a \in Attempts :
           /\ status[a] \in Settled => status'[a] \in Settled
           /\ result[a] # NoResult => result'[a] # NoResult]_vars
  <2> SUFFICES ASSUME TypeOK, IInv, RInv, Next
               PROVE  \A a \in Attempts :
                        /\ status[a] \in Settled => status'[a] \in Settled
                        /\ result[a] # NoResult => result'[a] # NoResult
    OBVIOUS
  <2>1. CASE \E r \in Requests : RequestStep(r)
    BY <2>1, SettledStay
  <2>2. CASE UNCHANGED <<status, result>>
    BY <2>2
  <2> QED BY <2>1, <2>2 DEF Next, TimeIsUp, ArchiveQuiz, PublishQuiz
<1>2. Init => RInv /\ IInv
  BY InitRInv, InitIInv
<1>3. TypeOK /\ TypeOK' /\ IInv /\ RInv /\ [Next]_vars => IInv' /\ RInv'
  BY NextIInv, NextRInv
<1>4. Spec => []TypeOK
  BY TypeCorrect
<1> QED BY <1>1, <1>2, <1>3, <1>4, PTL DEF Spec, NeverReopened

LEMMA UnsharedStay ==
  ASSUME TypeOK, NEW r \in Requests, IInv, RInv, RequestStep(r),
         NEW a \in Attempts \ shared', status[a] \in Settled
  PROVE  status'[a] = status[a] /\ result'[a] = result[a] /\ answer'[a] = answer[a]
<1>1. shared \subseteq shared'
  BY DEF RequestStep, Start, Look, Create, Fetch, SubmitAnswer, Grade, Save, AbandonAttempt, Refuse
<1>2. status[a] # "absent" /\ status[a] # "in_progress"
  BY DEF Settled
<1>3. CASE Look(r)
  <2>1. CASE UNCHANGED <<status, result>>
    BY <1>3, <2>1 DEF Look
  <2>2. ASSUME NEW c \in Attempts, NEW b \in Attempts, Latest(r, c), NextAttempt(b),
               status' = [status EXCEPT ![c] = "submitted", ![b] = "in_progress"],
               result' = [result EXCEPT ![c] = AttemptResult(answer[c])]
        PROVE  status'[a] = status[a] /\ result'[a] = result[a] /\ answer'[a] = answer[a]
    <3>1. status[b] = "absent" /\ status[c] = "in_progress"
      BY <2>2 DEF NextAttempt, Absent, Latest, Found, Active
    <3>2. a # b /\ a # c
      BY <1>2, <3>1
    <3> QED BY <1>3, <2>2, <3>2 DEF Look, TypeOK
  <2> QED BY <1>3, <2>1, <2>2 DEF Look
<1>4. CASE Create(r)
  BY <1>2, <1>4 DEF Create, NextAttempt, Absent, TypeOK
<1>5. CASE SubmitAnswer(r) \/ Save(r) \/ AbandonAttempt(r)
  <2>1. Holding(r)
    BY <1>5 DEF SubmitAnswer, Save, AbandonAttempt, Accepted, Holding, AttemptOps
  <2>2. request[r].attempt # a
    <3> SUFFICES ASSUME request[r].attempt = a PROVE FALSE
      OBVIOUS
    <3>1. Sole(r)
      BY <1>1, <2>1 DEF Sole
    <3>2. status[a] = "in_progress"
      BY <1>5, <3>1 DEF RInv, HeldTrue, SubmitAnswer, Save, AbandonAttempt, Accepted
    <3> QED BY <1>2, <3>2
  <2> QED BY <1>5, <2>2 DEF SubmitAnswer, Save, AbandonAttempt, TypeOK
<1>6. CASE UNCHANGED <<status, result, answer>>
  BY <1>6
<1> QED BY <1>3, <1>4, <1>5, <1>6 DEF RequestStep, Start, Fetch, Grade, Refuse

(* What is settled stays as it is, answers and counts included, unless two *)
(* requests worked on it at once.                                          *)
THEOREM SettledAttemptsStay == Spec => SettledUnlessShared
<1>1. TypeOK /\ IInv /\ RInv /\ [Next]_vars =>
        [\A a \in Attempts \ shared' :
           status[a] \in Settled =>
             status'[a] = status[a] /\ result'[a] = result[a] /\ answer'[a] = answer[a]]_vars
  <2> SUFFICES ASSUME TypeOK, IInv, RInv, Next, NEW a \in Attempts \ shared', status[a] \in Settled
               PROVE  status'[a] = status[a] /\ result'[a] = result[a] /\ answer'[a] = answer[a]
    OBVIOUS
  <2>1. CASE \E r \in Requests : RequestStep(r)
    BY <2>1, UnsharedStay
  <2>2. CASE UNCHANGED <<status, result, answer>>
    BY <2>2
  <2> QED BY <2>1, <2>2 DEF Next, TimeIsUp, ArchiveQuiz, PublishQuiz
<1>2. Init => RInv /\ IInv
  BY InitRInv, InitIInv
<1>3. TypeOK /\ TypeOK' /\ IInv /\ RInv /\ [Next]_vars => IInv' /\ RInv'
  BY NextIInv, NextRInv
<1>4. Spec => []TypeOK
  BY TypeCorrect
<1> QED BY <1>1, <1>2, <1>3, <1>4, PTL DEF Spec, SettledUnlessShared

(* A settled attempt is never active again and keeps a result once it has  *)
(* one, and only requests that worked on it at once change anything of it. *)
THEOREM WhatIsSettledStays == Spec => SettledStays
BY SettledIsNotReopened, SettledAttemptsStay DEF SettledStays

=============================================================================
