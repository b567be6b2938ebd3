---------------------------- MODULE AIJobProofs ----------------------------
(***************************************************************************)
(* Proofs about UsageLedger and AIJob for every set of requests, every     *)
(* catalogue of plans and any number of months.                            *)
(***************************************************************************)
EXTENDS AIJob, FiniteSetTheorems, TLAPS

----------------------------------------------------------------------------
(* The ledger *)


(* A counter equals the number of charged requests of its month; this is  *)
(* ProjectionIsReplayUnlessLate without the clamped subtraction.           *)
Exact ==
  \A m \in Months : ~LateRefundIn(m) =>
    /\ used[m] = Cardinality(Charged(m, Keys))
    /\ \A c \in Characters : usedBy[m][c] = Cardinality(Charged(m, KeysOf(c)))

(* A counter is within the limit of some plan. *)
Capped ==
  \A m \in Months : ~LateRefundIn(m) =>
    /\ \E p \in Plans : Within(used[m], GeneralLimit[p])
    /\ \A c \in Characters : \E p \in Plans :
         Within(usedBy[m][c], CharacterLimit[p][c])

(* Only a reserved request is refunded. *)
RefundedWasReserved ==
  \A k \in Keys : refunded[k] # NotBooked => reserved[k] # NotBooked

IInv == TypeOK /\ RefundedWasReserved /\ Exact /\ Capped

----------------------------------------------------------------------------
(* Sets of requests and their sizes *)

LEMMA KeysOfSubset == \A c : KeysOf(c) \subseteq Keys
  BY DEF KeysOf

(* Any set of requests is finite and has a natural number of members. *)
LEMMA FiniteKeys ==
  ASSUME NEW S, S \subseteq Keys
  PROVE  IsFiniteSet(S) /\ Cardinality(S) \in Nat
  BY KeysAssumption, FS_Subset, FS_CardinalityType

LEMMA ChargedSubset ==
  ASSUME NEW S, S \subseteq Keys, NEW m
  PROVE  /\ Charged(m, S) \subseteq Keys
         /\ IsFiniteSet(Charged(m, S))
         /\ Cardinality(Charged(m, S)) \in Nat
  BY FiniteKeys DEF Charged

(* Without a late refund in the month, the ledger replays to the number of *)
(* requests charged to it: the clamp at zero never acts.                   *)
LEMMA ReplayCountsCharged ==
  ASSUME NEW S, S \subseteq Keys, NEW m, ~LateRefundIn(m)
  PROVE  Replay(m, S) = Cardinality(Charged(m, S))
<1> DEFINE R == {k \in S : reserved[k] = m}
           F == {k \in S : refunded[k] = m}
<1>1. F \subseteq R /\ R \subseteq Keys
  BY DEF LateRefundIn
<1>2. Charged(m, S) = R \ F
  BY DEF Charged
<1>3. IsFiniteSet(R) /\ IsFiniteSet(F) /\ Cardinality(R) \in Nat /\ Cardinality(F) \in Nat
  BY <1>1, FiniteKeys
<1>4. R \cap F = F
  BY <1>1
<1>5. Cardinality(R \ F) = Cardinality(R) - Cardinality(F)
  <2> HIDE DEF R, F
  <2> QED BY <1>3, <1>4, FS_Difference
<1>6. Cardinality(F) <= Cardinality(R)
  <2> HIDE DEF R, F
  <2> QED BY <1>1, <1>3, FS_Subset
<1>7. Replay(m, S) = IF Cardinality(R) > Cardinality(F)
                     THEN Cardinality(R) - Cardinality(F) ELSE 0
  BY DEF Replay
<1> QED
  <2> HIDE DEF R, F
  <2> QED BY <1>2, <1>3, <1>5, <1>6, <1>7

----------------------------------------------------------------------------
(* Type correctness *)

(* Writing the current month's row changes no other month and no other    *)
(* character.                                                             *)
LEMMA SetCountersEffect ==
  ASSUME TypeOK, NEW c \in Characters, NEW n \in Nat, NEW b \in Nat, SetCounters(c, n, b)
  PROVE  /\ used' \in [Months -> Nat]
         /\ usedBy' \in [Months -> [Characters -> Nat]]
         /\ \A m \in Months : used'[m] = IF m = month THEN n ELSE used[m]
         /\ \A m \in Months, d \in Characters :
              usedBy'[m][d] = IF m = month /\ d = c THEN b ELSE usedBy[m][d]
<1> USE DEF TypeOK, SetCounters
<1>1. used' \in [Months -> Nat] /\ \A m \in Months : used'[m] = IF m = month THEN n ELSE used[m]
  OBVIOUS
<1>2. usedBy[month] \in [Characters -> Nat]
  OBVIOUS
<1>3. usedBy' = [usedBy EXCEPT ![month] = [usedBy[month] EXCEPT ![c] = b]]
  OBVIOUS
<1>4. [usedBy[month] EXCEPT ![c] = b] \in [Characters -> Nat]
  BY <1>2
<1>5. usedBy' \in [Months -> [Characters -> Nat]]
  BY <1>3, <1>4
<1>6. \A m \in Months, d \in Characters :
        usedBy'[m][d] = IF m = month /\ d = c THEN b ELSE usedBy[m][d]
  BY <1>2, <1>3
<1> QED BY <1>1, <1>5, <1>6

(* The variables keep their types: counters stay natural numbers (the      *)
(* columns are PositiveIntegerField), bookings stay months.                *)
THEOREM TypeCorrect == Spec => []TypeOK
<1>1. Init => TypeOK
  BY PlanAssumption, MonthAssumption DEF Init, TypeOK, Months, Booking
<1>2. TypeOK /\ [Next]_vars => TypeOK'
  <2> SUFFICES ASSUME TypeOK, [Next]_vars PROVE TypeOK'
    OBVIOUS
  <2> USE DEF TypeOK, Booking
  <2>1. ASSUME NEW k \in Keys, Reserve(k) PROVE TypeOK'
    <3> DEFINE c == CharacterOf[k]
    <3>1. c \in Characters
      BY KeysAssumption
    <3>2. used' \in [Months -> Nat] /\ usedBy' \in [Months -> [Characters -> Nat]]
      <4>1. used[month] + 1 \in Nat /\ usedBy[month][c] + 1 \in Nat
        BY <3>1
      <4> QED BY <2>1, <3>1, <4>1, SetCountersEffect DEF Reserve, projection
    <3> QED BY <2>1, <3>2 DEF Reserve, calendar, projection
  <2>2. ASSUME NEW k \in Keys, CommitReserved(k) PROVE TypeOK'
    BY <2>2 DEF CommitReserved, Commit, calendar, projection
  <2>3. ASSUME NEW k \in Keys, RefundReserved(k) PROVE TypeOK'
    <3> DEFINE c == CharacterOf[k]
    <3>1. c \in Characters
      BY KeysAssumption
    <3>2. used' \in [Months -> Nat] /\ usedBy' \in [Months -> [Characters -> Nat]]
      <4>1. Decrement(used[month]) \in Nat /\ Decrement(usedBy[month][c]) \in Nat
        BY <3>1 DEF Decrement
      <4> QED BY <2>3, <3>1, <4>1, SetCountersEffect DEF RefundReserved, Refund, projection
    <3> QED BY <2>3, <3>2 DEF RefundReserved, Refund, calendar, projection
  <2>4. ASSUME NEW m \in Months, Rebuild(m) PROVE TypeOK'
    <3>1. \A S \in SUBSET Keys : Replay(m, S) \in Nat
      BY FiniteKeys DEF Replay
    <3>2. \A c \in Characters : KeysOf(c) \in SUBSET Keys
      BY DEF KeysOf
    <3> QED BY <2>4, <3>1, <3>2 DEF Rebuild, calendar, ledger
  <2>5. ASSUME NEW p \in Plans, ChangePlan(p) PROVE TypeOK'
    BY <2>5 DEF ChangePlan, projection, ledger
  <2>6. CASE LoseEntitlement
    BY <2>6 DEF LoseEntitlement, projection, ledger
  <2>7. CASE NextMonth
    BY <2>7, MonthAssumption DEF NextMonth, projection, ledger, Months
  <2>8. CASE UNCHANGED vars
    BY <2>8 DEF vars, calendar, projection, ledger
  <2> QED BY <2>1, <2>2, <2>3, <2>4, <2>5, <2>6, <2>7, <2>8 DEF Next
<1> QED BY <1>1, <1>2, PTL DEF Spec

----------------------------------------------------------------------------
(* The counters and the ledger agree *)

LEMMA InitIInv == Init => IInv
<1> SUFFICES ASSUME Init PROVE IInv
  OBVIOUS
<1>1. TypeOK
  BY PlanAssumption, MonthAssumption DEF Init, TypeOK, Months, Booking
<1>2. RefundedWasReserved
  BY DEF Init, RefundedWasReserved
<1>3. \A m \in Months, S \in SUBSET Keys : Charged(m, S) = {}
  BY DEF Init, Charged, Months, NotBooked
<1>4. Exact
  <2>1. \A c \in Characters : KeysOf(c) \in SUBSET Keys
    BY DEF KeysOf
  <2> QED BY <1>3, <2>1, FS_EmptySet DEF Init, Exact
<1>5. \A limit \in Limit : Within(0, limit)
  BY DEF Within, Limit
<1>6. Capped
  BY <1>5, PlanAssumption DEF Init, Capped
<1> QED BY <1>1, <1>2, <1>4, <1>6 DEF IInv

(* A first reservation charges the current month with one more request,   *)
(* in total and for the request's character.                              *)
LEMMA ReserveCharges ==
  ASSUME TypeOK, NEW k \in Keys, reserved[k] = NotBooked, refunded[k] = NotBooked,
         reserved' = [reserved EXCEPT ![k] = month], refunded' = refunded
  PROVE  \A m \in Months :
           /\ Cardinality(Charged(m, Keys))' =
                IF m = month THEN Cardinality(Charged(m, Keys)) + 1
                             ELSE Cardinality(Charged(m, Keys))
           /\ \A d \in Characters : Cardinality(Charged(m, KeysOf(d)))' =
                IF m = month /\ d = CharacterOf[k]
                  THEN Cardinality(Charged(m, KeysOf(d))) + 1
                  ELSE Cardinality(Charged(m, KeysOf(d)))
<1>1. ASSUME NEW m \in Months, NEW S, S \subseteq Keys
      PROVE  Cardinality(Charged(m, S))' =
               IF m = month /\ k \in S THEN Cardinality(Charged(m, S)) + 1
                                      ELSE Cardinality(Charged(m, S))
  <2>1. k \notin Charged(m, S)
    BY DEF Charged, Months, NotBooked
  <2>2. Charged(m, S)' =
          IF m = month /\ k \in S THEN Charged(m, S) \cup {k} ELSE Charged(m, S)
    BY <1>1 DEF Charged, Months, NotBooked, TypeOK
  <2> QED BY <1>1, <2>1, <2>2, ChargedSubset, FS_AddElement
<1>2. ASSUME NEW m \in Months, NEW d \in Characters
      PROVE  Cardinality(Charged(m, KeysOf(d)))' =
               IF m = month /\ d = CharacterOf[k]
                 THEN Cardinality(Charged(m, KeysOf(d))) + 1
                 ELSE Cardinality(Charged(m, KeysOf(d)))
  <2>1. KeysOf(d) \subseteq Keys /\ (k \in KeysOf(d) <=> d = CharacterOf[k])
    BY DEF KeysOf
  <2>2. PICK S : S = KeysOf(d)
    OBVIOUS
  <2>3. Charged(m, KeysOf(d))' = Charged(m, S)'
    BY <2>2 DEF Charged, KeysOf
  <2> QED BY <1>1, <2>1, <2>2, <2>3
<1> QED BY <1>1, <1>2

(* Refunding a request of the current month takes it off that month; a    *)
(* refund of another month's request charges nothing and frees nothing.   *)
LEMMA RefundReleases ==
  ASSUME TypeOK, NEW k \in Keys, reserved[k] # NotBooked, refunded[k] = NotBooked,
         refunded' = [refunded EXCEPT ![k] = month], reserved' = reserved
  PROVE  \A m \in Months : ~LateRefundIn(m)' =>
           /\ Cardinality(Charged(m, Keys))' =
                IF m = month THEN Cardinality(Charged(m, Keys)) - 1
                             ELSE Cardinality(Charged(m, Keys))
           /\ \A d \in Characters : Cardinality(Charged(m, KeysOf(d)))' =
                IF m = month /\ d = CharacterOf[k]
                  THEN Cardinality(Charged(m, KeysOf(d))) - 1
                  ELSE Cardinality(Charged(m, KeysOf(d)))
<1>1. ASSUME NEW m \in Months, ~LateRefundIn(m)', NEW S, S \subseteq Keys
      PROVE  Cardinality(Charged(m, S))' =
               IF m = month /\ k \in S THEN Cardinality(Charged(m, S)) - 1
                                      ELSE Cardinality(Charged(m, S))
  <2>1. m = month => reserved[k] = m
    BY <1>1 DEF LateRefundIn, TypeOK
  <2>2. m = month /\ k \in S => k \in Charged(m, S)
    BY <2>1 DEF Charged, Months, NotBooked
  <2>3. Charged(m, S)' =
          IF m = month /\ k \in S THEN Charged(m, S) \ {k} ELSE Charged(m, S)
    BY <1>1, <2>1 DEF Charged, Months, NotBooked, TypeOK
  <2> QED BY <1>1, <2>2, <2>3, ChargedSubset, FS_RemoveElement
<1>2. ASSUME NEW m \in Months, ~LateRefundIn(m)', NEW d \in Characters
      PROVE  Cardinality(Charged(m, KeysOf(d)))' =
               IF m = month /\ d = CharacterOf[k]
                 THEN Cardinality(Charged(m, KeysOf(d))) - 1
                 ELSE Cardinality(Charged(m, KeysOf(d)))
  <2>1. KeysOf(d) \subseteq Keys /\ (k \in KeysOf(d) <=> d = CharacterOf[k])
    BY DEF KeysOf
  <2>2. PICK S : S = KeysOf(d)
    OBVIOUS
  <2>3. Charged(m, KeysOf(d))' = Charged(m, S)'
    BY <2>2 DEF Charged, KeysOf
  <2> QED BY <1>1, <1>2, <2>1, <2>2, <2>3
<1> QED BY <1>1, <1>2

(* A month's late refund is never undone. *)
LEMMA LateStaysLate ==
  ASSUME TypeOK, NEW k \in Keys, reserved[k] # NotBooked, refunded[k] = NotBooked,
         refunded' = [refunded EXCEPT ![k] = month], reserved' = reserved,
         NEW m \in Months, LateRefundIn(m)
  PROVE  LateRefundIn(m)'
  BY DEF LateRefundIn, TypeOK, Months, NotBooked

LEMMA FirstReserveStep ==
  ASSUME IInv, TypeOK', NEW k \in Keys, Reserve(k), reserved[k] = NotBooked
  PROVE  IInv'
<1> DEFINE c == CharacterOf[k]
<1>1. c \in Characters
  BY KeysAssumption
<1>2. TypeOK /\ RefundedWasReserved /\ Exact /\ Capped
  BY DEF IInv
<1>3. /\ reserved' = [reserved EXCEPT ![k] = month]
      /\ refunded' = refunded /\ month' = month
      /\ HasCapacity(c)
      /\ SetCounters(c, used[month] + 1, usedBy[month][c] + 1)
  BY DEF Reserve, calendar
<1>4. refunded[k] = NotBooked
  BY <1>2 DEF RefundedWasReserved
<1>5. used[month] + 1 \in Nat /\ usedBy[month][c] + 1 \in Nat /\ month \in Months
  BY <1>1, <1>2 DEF TypeOK
<1>6. /\ \A m \in Months : used'[m] = IF m = month THEN used[month] + 1 ELSE used[m]
      /\ \A m \in Months, d \in Characters :
           usedBy'[m][d] = IF m = month /\ d = c THEN usedBy[month][c] + 1 ELSE usedBy[m][d]
  BY <1>1, <1>2, <1>3, <1>5, SetCountersEffect
<1>7. RefundedWasReserved'
  BY <1>2, <1>3, <1>5 DEF RefundedWasReserved, TypeOK, Months, NotBooked
<1>8. \A m \in Months : LateRefundIn(m) => LateRefundIn(m)'
  BY <1>2, <1>3, <1>4 DEF LateRefundIn, TypeOK, Months, NotBooked
<1>9. Exact'
  <2> SUFFICES ASSUME NEW m \in Months, ~LateRefundIn(m)'
               PROVE  /\ used'[m] = Cardinality(Charged(m, Keys))'
                      /\ \A d \in Characters :
                           usedBy'[m][d] = Cardinality(Charged(m, KeysOf(d)))'
    BY DEF Exact
  <2>1. /\ used[m] = Cardinality(Charged(m, Keys))
        /\ \A d \in Characters : usedBy[m][d] = Cardinality(Charged(m, KeysOf(d)))
    BY <1>2, <1>8 DEF Exact
  <2>2. /\ Cardinality(Charged(m, Keys))' =
             IF m = month THEN Cardinality(Charged(m, Keys)) + 1
                          ELSE Cardinality(Charged(m, Keys))
        /\ \A d \in Characters : Cardinality(Charged(m, KeysOf(d)))' =
             IF m = month /\ d = c THEN Cardinality(Charged(m, KeysOf(d))) + 1
                                   ELSE Cardinality(Charged(m, KeysOf(d)))
    BY <1>2, <1>3, <1>4, ReserveCharges
  <2> HIDE DEF c
  <2> QED BY <2>1, <2>2, <1>1, <1>6
<1>10. Capped'
  <2> DEFINE e == EffectivePlan
  <2>1. e \in Plans
    BY <1>2, PlanAssumption DEF EffectivePlan, TypeOK
  <2>2. Within(used[month] + 1, GeneralLimit[e]) /\ Within(usedBy[month][c] + 1, CharacterLimit[e][c])
    <3>1. GeneralLimit[e] \in Limit /\ CharacterLimit[e][c] \in Limit
      BY <1>1, <2>1, PlanAssumption
    <3> QED BY <1>3, <1>5, <1>2, <1>1, <3>1 DEF HasCapacity, Below, Within, Limit, TypeOK
  <2> SUFFICES ASSUME NEW m \in Months, ~LateRefundIn(m)'
               PROVE  /\ \E p \in Plans : Within(used'[m], GeneralLimit[p])
                      /\ \A d \in Characters : \E p \in Plans :
                           Within(usedBy'[m][d], CharacterLimit[p][d])
    BY DEF Capped, Within
  <2>3. /\ \E p \in Plans : Within(used[m], GeneralLimit[p])
        /\ \A d \in Characters : \E p \in Plans : Within(usedBy[m][d], CharacterLimit[p][d])
    BY <1>2, <1>8 DEF Capped
  <2> HIDE DEF e, c
  <2> QED BY <2>1, <2>2, <2>3, <1>6
<1> QED BY <1>7, <1>9, <1>10 DEF IInv

LEMMA RefundStep ==
  ASSUME IInv, TypeOK', NEW k \in Keys, RefundReserved(k), refunded[k] = NotBooked
  PROVE  IInv'
<1> DEFINE c == CharacterOf[k]
<1>1. c \in Characters
  BY KeysAssumption
<1>2. TypeOK /\ RefundedWasReserved /\ Exact /\ Capped
  BY DEF IInv
<1>3. /\ reserved[k] # NotBooked /\ refunded[k] = NotBooked
      /\ refunded' = [refunded EXCEPT ![k] = month]
      /\ reserved' = reserved /\ month' = month
      /\ SetCounters(c, Decrement(used[month]), Decrement(usedBy[month][c]))
  BY DEF RefundReserved, Refund, calendar
<1>4. Decrement(used[month]) \in Nat /\ Decrement(usedBy[month][c]) \in Nat /\ month \in Months
  BY <1>1, <1>2 DEF TypeOK, Decrement
<1>5. /\ \A m \in Months : used'[m] = IF m = month THEN Decrement(used[month]) ELSE used[m]
      /\ \A m \in Months, d \in Characters :
           usedBy'[m][d] = IF m = month /\ d = c THEN Decrement(usedBy[month][c]) ELSE usedBy[m][d]
  BY <1>1, <1>2, <1>3, <1>4, SetCountersEffect
<1>6. RefundedWasReserved'
  BY <1>2, <1>3, <1>4 DEF RefundedWasReserved, TypeOK
<1>7. \A m \in Months : LateRefundIn(m) => LateRefundIn(m)'
  BY <1>2, <1>3, LateStaysLate
<1>8. Exact'
  <2> SUFFICES ASSUME NEW m \in Months, ~LateRefundIn(m)'
               PROVE  /\ used'[m] = Cardinality(Charged(m, Keys))'
                      /\ \A d \in Characters :
                           usedBy'[m][d] = Cardinality(Charged(m, KeysOf(d)))'
    BY DEF Exact
  <2>1. /\ used[m] = Cardinality(Charged(m, Keys))
        /\ \A d \in Characters : usedBy[m][d] = Cardinality(Charged(m, KeysOf(d)))
    BY <1>2, <1>7 DEF Exact
  <2>2. /\ Cardinality(Charged(m, Keys))' =
             IF m = month THEN Cardinality(Charged(m, Keys)) - 1
                          ELSE Cardinality(Charged(m, Keys))
        /\ \A d \in Characters : Cardinality(Charged(m, KeysOf(d)))' =
             IF m = month /\ d = c THEN Cardinality(Charged(m, KeysOf(d))) - 1
                                   ELSE Cardinality(Charged(m, KeysOf(d)))
    BY <1>2, <1>3, RefundReleases
  <2>3. /\ Cardinality(Charged(m, Keys))' \in Nat
        /\ \A d \in Characters : Cardinality(Charged(m, KeysOf(d)))' \in Nat
    <3>1. \A S \in SUBSET Keys : Cardinality(Charged(m, S)') \in Nat
      BY FiniteKeys DEF Charged
    <3> QED BY <3>1 DEF Charged, KeysOf
  <2>4. /\ Cardinality(Charged(m, Keys)) \in Nat
        /\ \A d \in Characters : Cardinality(Charged(m, KeysOf(d))) \in Nat
    BY ChargedSubset, KeysOfSubset
  <2> HIDE DEF c
  <2> QED BY <2>1, <2>2, <2>3, <2>4, <1>1, <1>5 DEF Decrement
<1>9. Capped'
  <2> SUFFICES ASSUME NEW m \in Months, ~LateRefundIn(m)'
               PROVE  /\ \E p \in Plans : Within(used'[m], GeneralLimit[p])
                      /\ \A d \in Characters : \E p \in Plans :
                           Within(usedBy'[m][d], CharacterLimit[p][d])
    BY DEF Capped, Within
  <2>1. /\ \E p \in Plans : Within(used[m], GeneralLimit[p])
        /\ \A d \in Characters : \E p \in Plans : Within(usedBy[m][d], CharacterLimit[p][d])
    BY <1>2, <1>7 DEF Capped
  <2>2. used[m] \in Nat /\ \A d \in Characters : usedBy[m][d] \in Nat
    BY <1>2 DEF TypeOK
  <2>3. used'[m] <= used[m] /\ \A d \in Characters : usedBy'[m][d] <= usedBy[m][d]
    BY <2>2, <1>1, <1>5 DEF Decrement
  <2>4. used'[m] \in Nat /\ \A d \in Characters : usedBy'[m][d] \in Nat
    BY DEF TypeOK
  <2>5. \A a, b \in Nat, limit \in Limit : a <= b /\ Within(b, limit) => Within(a, limit)
    BY PlanAssumption DEF Within, Limit
  <2>6. \A p \in Plans : GeneralLimit[p] \in Limit
                         /\ \A d \in Characters : CharacterLimit[p][d] \in Limit
    BY PlanAssumption
  <2> QED BY <2>1, <2>2, <2>3, <2>4, <2>5, <2>6
<1> QED BY <1>6, <1>8, <1>9 DEF IInv

(* Rebuilding a month without a late refund writes the values already there. *)
LEMMA RebuildStep ==
  ASSUME IInv, TypeOK', NEW n \in Months, Rebuild(n)
  PROVE  IInv'
<1>1. TypeOK /\ RefundedWasReserved /\ Exact /\ Capped
  BY DEF IInv
<1>2. UNCHANGED ledger
  BY DEF Rebuild
<1>3. RefundedWasReserved'
  BY <1>1, <1>2 DEF RefundedWasReserved, ledger
<1>4. /\ \A m : LateRefundIn(m)' <=> LateRefundIn(m)
      /\ \A m, S : S \subseteq Keys => Charged(m, S)' = Charged(m, S)
  BY <1>2 DEF LateRefundIn, Charged, ledger
<1>5. ASSUME NEW m \in Months, ~LateRefundIn(m)
      PROVE  used'[m] = used[m] /\ \A d \in Characters : usedBy'[m][d] = usedBy[m][d]
  <2>1. /\ used[m] = Replay(m, Keys)
        /\ \A d \in Characters : usedBy[m][d] = Replay(m, KeysOf(d))
    BY <1>1, <1>5, ReplayCountsCharged, KeysOfSubset DEF Exact
  <2> QED BY <1>1, <2>1 DEF Rebuild, TypeOK
<1>6. Exact'
  <2> SUFFICES ASSUME NEW m \in Months, ~LateRefundIn(m)'
               PROVE  /\ used'[m] = Cardinality(Charged(m, Keys))'
                      /\ \A d \in Characters :
                           usedBy'[m][d] = Cardinality(Charged(m, KeysOf(d)))'
    BY DEF Exact
  <2>1. \A d \in Characters : Charged(m, KeysOf(d))' = Charged(m, KeysOf(d))
    BY <1>2 DEF Charged, KeysOf, ledger
  <2>2. Charged(m, Keys)' = Charged(m, Keys)
    BY <1>2 DEF Charged, ledger
  <2> QED BY <1>1, <1>4, <1>5, <2>1, <2>2 DEF Exact
<1>7. Capped'
  <2> SUFFICES ASSUME NEW m \in Months, ~LateRefundIn(m)'
               PROVE  /\ \E p \in Plans : Within(used'[m], GeneralLimit[p])
                      /\ \A d \in Characters : \E p \in Plans :
                           Within(usedBy'[m][d], CharacterLimit[p][d])
    BY DEF Capped, Within
  <2> QED BY <1>1, <1>4, <1>5 DEF Capped
<1> QED BY <1>3, <1>6, <1>7 DEF IInv

(* A step that leaves the counters, the reservations and the refunds alone. *)
LEMMA OtherStep ==
  ASSUME IInv, TypeOK', UNCHANGED <<used, usedBy, reserved, refunded>>
  PROVE  IInv'
<1>1. TypeOK /\ RefundedWasReserved /\ Exact /\ Capped
  BY DEF IInv
<1>2. RefundedWasReserved'
  BY <1>1 DEF RefundedWasReserved
<1>3. Exact'
  BY <1>1 DEF Exact, LateRefundIn, Charged, KeysOf
<1>4. Capped'
  BY <1>1 DEF Capped, LateRefundIn
<1> QED BY <1>2, <1>3, <1>4 DEF IInv

(* IInv is inductive. *)
LEMMA Inductive == Spec => []IInv
<1>1. IInv /\ TypeOK' /\ [Next]_vars => IInv'
  <2> SUFFICES ASSUME IInv, TypeOK', [Next]_vars PROVE IInv'
    OBVIOUS
  <2>1. ASSUME NEW k \in Keys, Reserve(k) PROVE IInv'
    <3>1. CASE reserved[k] = NotBooked
      BY <2>1, <3>1, FirstReserveStep
    <3>2. CASE reserved[k] # NotBooked
      BY <2>1, <3>2, OtherStep DEF Reserve, projection
    <3> QED BY <3>1, <3>2
  <2>2. ASSUME NEW k \in Keys, CommitReserved(k) PROVE IInv'
    BY <2>2, OtherStep DEF CommitReserved, Commit, projection
  <2>3. ASSUME NEW k \in Keys, RefundReserved(k) PROVE IInv'
    <3>1. CASE refunded[k] = NotBooked
      BY <2>3, <3>1, RefundStep
    <3>2. CASE refunded[k] # NotBooked
      BY <2>3, <3>2, OtherStep DEF RefundReserved, Refund, projection
    <3> QED BY <3>1, <3>2
  <2>4. ASSUME NEW m \in Months, Rebuild(m) PROVE IInv'
    BY <2>4, RebuildStep
  <2>5. ASSUME NEW p \in Plans, ChangePlan(p) PROVE IInv'
    BY <2>5, OtherStep DEF ChangePlan, projection, ledger
  <2>6. CASE LoseEntitlement
    BY <2>6, OtherStep DEF LoseEntitlement, projection, ledger
  <2>7. CASE NextMonth
    BY <2>7, OtherStep DEF NextMonth, projection, ledger
  <2>8. CASE UNCHANGED vars
    BY <2>8, OtherStep DEF vars, projection, ledger
  <2> QED BY <2>1, <2>2, <2>3, <2>4, <2>5, <2>6, <2>7, <2>8 DEF Next
<1> QED BY <1>1, InitIInv, TypeCorrect, PTL DEF Spec

(* The counters that the services maintain one by one are what             *)
(* rebuild_usage_projection would recompute, in every month without a      *)
(* refund of another month's reservation.                                  *)
THEOREM CountersReplayLedger == Spec => []ProjectionIsReplayUnlessLate
<1>1. IInv => ProjectionIsReplayUnlessLate
  BY ReplayCountsCharged, KeysOfSubset DEF IInv, Exact, ProjectionIsReplayUnlessLate
<1> QED BY <1>1, Inductive, PTL

(* No month holds more unrefunded requests than a plan allows, in total    *)
(* and for each character, unless a late refund was booked in it.          *)
THEOREM PlanNeverExceeded == Spec => []WithinPlanUnlessLate
<1>1. IInv => WithinPlanUnlessLate
  BY DEF IInv, Exact, Capped, WithinPlanUnlessLate
<1> QED BY <1>1, Inductive, PTL

----------------------------------------------------------------------------
(* The jobs *)


(* The types the argument needs: of the job rows and of the ledger's       *)
(* entries.  The counters do not matter to it.                             *)
RowTypes ==
  /\ status \in [Keys -> {"absent"} \cup Active \cup Terminal]
  /\ external \in [Keys -> BOOLEAN]
  /\ credits_reserved \in [Keys -> BOOLEAN]
  /\ credits_committed \in [Keys -> BOOLEAN]
  /\ materialized \in [Keys -> 0 .. 1]
  /\ notices \in [Keys -> SUBSET {"completed", "failed"}]

EntryTypes ==
  /\ month \in Months
  /\ reserved \in [Keys -> Booking]
  /\ committed \in [Keys -> Booking]
  /\ refunded \in [Keys -> Booking]

JInv == RowTypes /\ EntryTypes /\ CreditFollowsStatus /\ OutcomeIsTold

----------------------------------------------------------------------------
(* What each service does to the job and its ledger entries, when JInv     *)
(* holds: every step is one of these or leaves all of them alone.          *)

Accepts(k) ==
  /\ status[k] = "absent" /\ reserved[k] = NotBooked
  /\ status' = [status EXCEPT ![k] = "queued"]
  /\ credits_reserved' = [credits_reserved EXCEPT ![k] = TRUE]
  /\ reserved' = [reserved EXCEPT ![k] = month]
  /\ UNCHANGED <<month, committed, refunded, credits_committed, external, outcome>>

Advances(k) ==
  /\ status[k] \in Active
  /\ \E s \in Active : status' = [status EXCEPT ![k] = s]
  /\ external' \in [Keys -> BOOLEAN]
  /\ UNCHANGED <<vars, credits, outcome>>

Withdraws(k, s) ==
  /\ status[k] \in Active
  /\ status' = [status EXCEPT ![k] = s]
  /\ credits_reserved' = [credits_reserved EXCEPT ![k] = FALSE]
  /\ refunded' = [refunded EXCEPT ![k] = month]
  /\ notices' = [notices EXCEPT ![k] = @ \cup ({s} \cap {"failed"})]
  /\ UNCHANGED <<month, reserved, committed, credits_committed, external, materialized>>

Delivers(k) ==
  /\ status[k] \in Active
  /\ status' = [status EXCEPT ![k] = "completed"]
  /\ credits_committed' = [credits_committed EXCEPT ![k] = TRUE]
  /\ committed' = [committed EXCEPT ![k] = month]
  /\ materialized' = [materialized EXCEPT ![k] = 1]
  /\ notices' = [notices EXCEPT ![k] = @ \cup {"completed"}]
  /\ UNCHANGED <<month, reserved, refunded, credits_reserved, external>>

Idles == month' \in Months /\ UNCHANGED <<ledger, jobs>>

LEMMA CreateAccepts ==
  ASSUME JInv, NEW k \in Keys, CreateAIJob(k)
  PROVE  Accepts(k) /\ Reserve(k)
<1>1. status[k] = "absent" /\ reserved[k] = NotBooked
  BY DEF CreateAIJob, Free, JInv, CreditFollowsStatus, NotBooked
<1> QED BY <1>1 DEF CreateAIJob, InitialStatus, Reserve, Accepts, calendar

LEMMA ProgressAdvances ==
  ASSUME JInv, NEW k \in Keys, NEW s, NEW r \in BOOLEAN, UpdateJobProgress(k, s, r)
  PROVE  Advances(k)
<1>1. status[k] \in Active /\ s \in Active
  BY DEF UpdateJobProgress, Active, Successors
<1>2. external' \in [Keys -> BOOLEAN]
  BY DEF UpdateJobProgress, JInv, RowTypes
<1> QED BY <1>1, <1>2 DEF UpdateJobProgress, Advances

(* An active job holds its credit, so withdrawing it is a refund of a      *)
(* request that was neither committed nor refunded.                        *)
LEMMA ActiveHoldsCredit ==
  ASSUME JInv, NEW k \in Keys, status[k] \in Active
  PROVE  /\ HoldsCredit(k)
         /\ reserved[k] # NotBooked /\ committed[k] = NotBooked /\ refunded[k] = NotBooked
BY DEF JInv, CreditFollowsStatus, NotBooked

LEMMA ReturnCreditRefunds ==
  ASSUME JInv, NEW k \in Keys, status[k] \in Active, ReturnCredit(k)
  PROVE  /\ RefundReserved(k)
         /\ credits_reserved' = [credits_reserved EXCEPT ![k] = FALSE]
         /\ refunded' = [refunded EXCEPT ![k] = month]
         /\ UNCHANGED <<month, reserved, committed>>
<1>1. Refund(k) /\ credits_reserved' = [credits_reserved EXCEPT ![k] = FALSE]
  BY ActiveHoldsCredit DEF ReturnCredit
<1>2. refunded[k] = NotBooked /\ committed[k] = NotBooked /\ reserved[k] # NotBooked
  BY ActiveHoldsCredit
<1> QED BY <1>1, <1>2 DEF RefundReserved, Refund, calendar

LEMMA FailWithdraws ==
  ASSUME JInv, NEW k \in Keys, FailJob(k)
  PROVE  Withdraws(k, "failed") /\ RefundReserved(k)
BY ReturnCreditRefunds DEF FailJob, Open, Withdraws

LEMMA CancelWithdraws ==
  ASSUME JInv, NEW k \in Keys, CancelJob(k)
  PROVE  Withdraws(k, "canceled") /\ RefundReserved(k)
<1>1. notices' = notices /\ notices \in [Keys -> SUBSET {"completed", "failed"}]
  BY DEF CancelJob, outcome, JInv, RowTypes
<1>2. notices' = [notices EXCEPT ![k] = @ \cup ({"canceled"} \cap {"failed"})]
  BY <1>1
<1> QED BY <1>2, ReturnCreditRefunds DEF CancelJob, Open, Withdraws, outcome

LEMMA CompleteDelivers ==
  ASSUME JInv, NEW k \in Keys, CompleteJob(k)
  PROVE  Delivers(k) /\ CommitReserved(k)
<1>1. status[k] \in Active
  BY DEF CompleteJob, Open
<1>2. Commit(k) /\ reserved[k] # NotBooked /\ committed[k] = NotBooked /\ refunded[k] = NotBooked
  BY <1>1, ActiveHoldsCredit DEF CompleteJob, CommitCredit
<1>3. materialized' = [materialized EXCEPT ![k] = 1]
  BY DEF CompleteJob, Materialize
<1> QED BY <1>1, <1>2, <1>3 DEF CompleteJob, Open, Delivers, Commit, CommitReserved, calendar

LEMMA LedgerOnlyIdles ==
  ASSUME JInv, LedgerOnly
  PROVE  Idles /\ Next
<1>1. UNCHANGED jobs
  BY DEF LedgerOnly
<1>2. CASE \E m \in Months : Rebuild(m)
  BY <1>1, <1>2 DEF Next, Rebuild, Idles, calendar, JInv, EntryTypes
<1>3. CASE \E p \in Plans : ChangePlan(p)
  BY <1>1, <1>3 DEF Next, ChangePlan, Idles, JInv, EntryTypes
<1>4. CASE LoseEntitlement
  BY <1>1, <1>4 DEF Next, LoseEntitlement, Idles, JInv, EntryTypes
<1>5. CASE NextMonth
  BY <1>1, <1>5, MonthAssumption DEF Next, NextMonth, Idles, JInv, EntryTypes, Months
<1> QED BY <1>2, <1>3, <1>4, <1>5 DEF LedgerOnly

(* Every step of the jobs, seen as one of the five. *)
LEMMA StepCases ==
  ASSUME JInv, [JobNext]_jobVars
  PROVE  \/ \E k \in Keys : \/ Accepts(k) /\ Reserve(k)
                            \/ Advances(k)
                            \/ \E s \in {"failed", "canceled"} : Withdraws(k, s) /\ RefundReserved(k)
                            \/ Delivers(k) /\ CommitReserved(k)
         \/ Idles /\ [Next]_vars
<1>1. ASSUME NEW k \in Keys, CreateAIJob(k) PROVE Accepts(k) /\ Reserve(k)
  BY <1>1, CreateAccepts
<1>2. ASSUME NEW k \in Keys, Submit(k) \/ RemoteProgress(k) PROVE Advances(k)
  BY <1>2, ProgressAdvances DEF Submit, RemoteProgress
<1>3. ASSUME NEW k \in Keys, RemoteResult(k) PROVE Delivers(k) /\ CommitReserved(k)
  BY <1>3, CompleteDelivers DEF RemoteResult
<1>4. ASSUME NEW k \in Keys, FailJob(k)
      PROVE  Withdraws(k, "failed") /\ RefundReserved(k)
  BY <1>4, FailWithdraws
<1>5. ASSUME NEW k \in Keys, CancelJob(k)
      PROVE  Withdraws(k, "canceled") /\ RefundReserved(k)
  BY <1>5, CancelWithdraws
<1>6. CASE LedgerOnly
  BY <1>6, LedgerOnlyIdles
<1>7. CASE UNCHANGED jobVars
  BY <1>7 DEF jobVars, vars, calendar, Idles, JInv, EntryTypes
<1> QED BY <1>1, <1>2, <1>3, <1>4, <1>5, <1>6, <1>7 DEF JobNext

----------------------------------------------------------------------------
(* JInv is inductive *)

LEMMA InitJInv == JobInit => JInv
  BY MonthAssumption DEF JobInit, Init, JInv, RowTypes, EntryTypes, CreditFollowsStatus,
     OutcomeIsTold, HoldsCredit, Months, Booking, NotBooked, Active

LEMMA StepJInv ==
  ASSUME JInv, [JobNext]_jobVars
  PROVE  JInv'
<1> USE DEF Active, Terminal, Booking, Months, NotBooked
<1> DEFINE Story(k) ==
      /\ status[k] = "absent" =>
           /\ ~credits_reserved[k] /\ ~credits_committed[k]
           /\ reserved[k] = 0 /\ committed[k] = 0 /\ refunded[k] = 0
      /\ status[k] \in Active =>
           HoldsCredit(k) /\ reserved[k] # 0 /\ committed[k] = 0 /\ refunded[k] = 0
      /\ status[k] = "completed" =>
           credits_committed[k] /\ reserved[k] # 0 /\ committed[k] # 0 /\ refunded[k] = 0
      /\ status[k] \in {"failed", "canceled"} =>
           ~credits_reserved[k] /\ reserved[k] # 0 /\ committed[k] = 0 /\ refunded[k] # 0
<1>1. RowTypes /\ EntryTypes /\ OutcomeIsTold /\ \A k \in Keys : Story(k)
  BY DEF JInv, CreditFollowsStatus
<1>0. month # 0 /\ month \in Months
  BY <1>1 DEF EntryTypes
<1>2. ASSUME NEW k \in Keys, Accepts(k) PROVE JInv'
  <2>1. RowTypes' /\ EntryTypes'
    BY <1>1, <1>2 DEF Accepts, RowTypes, EntryTypes, outcome
  <2>2. OutcomeIsTold'
    BY <1>1, <1>2 DEF Accepts, OutcomeIsTold, RowTypes, outcome
  <2>3. ASSUME NEW q \in Keys PROVE Story(q)'
    <3>1. /\ status'[k] = "queued" /\ credits_reserved'[k] /\ credits_committed'[k] = credits_committed[k]
          /\ reserved'[k] = month /\ committed'[k] = committed[k] /\ refunded'[k] = refunded[k]
      BY <1>1, <1>2 DEF Accepts, RowTypes, EntryTypes, outcome
    <3>2. q # k => /\ status'[q] = status[q] /\ credits_reserved'[q] = credits_reserved[q]
                   /\ credits_committed'[q] = credits_committed[q]
                   /\ reserved'[q] = reserved[q] /\ committed'[q] = committed[q]
                   /\ refunded'[q] = refunded[q]
      BY <1>1, <1>2 DEF Accepts, RowTypes, EntryTypes, outcome
    <3>3. Story(q) /\ Story(k)
      BY <1>1
    <3>4. CASE q = k
      BY <1>0, <3>1, <3>3, <3>4, <1>2 DEF Accepts, HoldsCredit, outcome
    <3>5. CASE q # k
      BY <3>2, <3>3, <3>5 DEF HoldsCredit
    <3> QED BY <3>4, <3>5
  <2> QED BY <2>1, <2>2, <2>3 DEF JInv, CreditFollowsStatus
<1>3. ASSUME NEW k \in Keys, Advances(k) PROVE JInv'
  <2>1. RowTypes' /\ EntryTypes'
    BY <1>1, <1>3 DEF Advances, RowTypes, EntryTypes, outcome, credits, vars, calendar, ledger
  <2>2. OutcomeIsTold'
    BY <1>1, <1>3 DEF Advances, OutcomeIsTold, RowTypes, outcome
  <2>3. ASSUME NEW q \in Keys PROVE Story(q)'
    <3>1. /\ status'[k] \in Active /\ credits_reserved'[k] = credits_reserved[k]
          /\ credits_committed'[k] = credits_committed[k]
          /\ reserved'[k] = reserved[k] /\ committed'[k] = committed[k] /\ refunded'[k] = refunded[k]
      BY <1>1, <1>3 DEF Advances, RowTypes, EntryTypes, credits, vars, ledger
    <3>2. q # k => /\ status'[q] = status[q] /\ credits_reserved'[q] = credits_reserved[q]
                   /\ credits_committed'[q] = credits_committed[q]
                   /\ reserved'[q] = reserved[q] /\ committed'[q] = committed[q]
                   /\ refunded'[q] = refunded[q]
      BY <1>1, <1>3 DEF Advances, RowTypes, EntryTypes, credits, vars, ledger
    <3>3. Story(q) /\ Story(k)
      BY <1>1
    <3>4. CASE q = k
      BY <1>0, <3>1, <3>3, <3>4, <1>3 DEF Advances, HoldsCredit, credits, vars, ledger
    <3>5. CASE q # k
      BY <3>2, <3>3, <3>5 DEF HoldsCredit
    <3> QED BY <3>4, <3>5
  <2> QED BY <2>1, <2>2, <2>3 DEF JInv, CreditFollowsStatus
<1>4. ASSUME NEW k \in Keys, NEW s \in {"failed", "canceled"}, Withdraws(k, s) PROVE JInv'
  <2>1. RowTypes' /\ EntryTypes'
    BY <1>1, <1>4 DEF Withdraws, RowTypes, EntryTypes
  <2>2. OutcomeIsTold'
    BY <1>1, <1>4 DEF Withdraws, OutcomeIsTold, RowTypes
  <2>3. ASSUME NEW q \in Keys PROVE Story(q)'
    <3>1. /\ status'[k] = s /\ ~credits_reserved'[k] /\ refunded'[k] = month
          /\ reserved'[k] = reserved[k] /\ committed'[k] = committed[k]
      BY <1>1, <1>4 DEF Withdraws, RowTypes, EntryTypes
    <3>2. q # k => /\ status'[q] = status[q] /\ credits_reserved'[q] = credits_reserved[q]
                   /\ credits_committed'[q] = credits_committed[q]
                   /\ reserved'[q] = reserved[q] /\ committed'[q] = committed[q]
                   /\ refunded'[q] = refunded[q]
      BY <1>1, <1>4 DEF Withdraws, RowTypes, EntryTypes
    <3>3. Story(q) /\ Story(k)
      BY <1>1
    <3>4. CASE q = k
      BY <1>0, <3>1, <3>3, <3>4, <1>4 DEF Withdraws, HoldsCredit
    <3>5. CASE q # k
      BY <3>2, <3>3, <3>5 DEF HoldsCredit
    <3> QED BY <3>4, <3>5
  <2> QED BY <2>1, <2>2, <2>3 DEF JInv, CreditFollowsStatus
<1>5. ASSUME NEW k \in Keys, Delivers(k) PROVE JInv'
  <2>1. RowTypes' /\ EntryTypes'
    BY <1>1, <1>5 DEF Delivers, RowTypes, EntryTypes
  <2>2. OutcomeIsTold'
    BY <1>1, <1>5 DEF Delivers, OutcomeIsTold, RowTypes
  <2>3. ASSUME NEW q \in Keys PROVE Story(q)'
    <3>1. /\ status'[k] = "completed" /\ credits_committed'[k] /\ committed'[k] = month
          /\ reserved'[k] = reserved[k] /\ refunded'[k] = refunded[k]
      BY <1>1, <1>5 DEF Delivers, RowTypes, EntryTypes
    <3>2. q # k => /\ status'[q] = status[q] /\ credits_reserved'[q] = credits_reserved[q]
                   /\ credits_committed'[q] = credits_committed[q]
                   /\ reserved'[q] = reserved[q] /\ committed'[q] = committed[q]
                   /\ refunded'[q] = refunded[q]
      BY <1>1, <1>5 DEF Delivers, RowTypes, EntryTypes
    <3>3. Story(q) /\ Story(k)
      BY <1>1
    <3>4. CASE q = k
      BY <1>0, <3>1, <3>3, <3>4, <1>5 DEF Delivers, HoldsCredit
    <3>5. CASE q # k
      BY <3>2, <3>3, <3>5 DEF HoldsCredit
    <3> QED BY <3>4, <3>5
  <2> QED BY <2>1, <2>2, <2>3 DEF JInv, CreditFollowsStatus
<1>6. CASE Idles
  BY <1>1, <1>6 DEF Idles, JInv, RowTypes, EntryTypes, CreditFollowsStatus, OutcomeIsTold,
     HoldsCredit, ledger, jobs, credits, outcome
<1> QED BY <1>2, <1>3, <1>4, <1>5, <1>6, StepCases

(* The job's flags and the ledger's entries tell the same story: what is   *)
(* held, charged or given back is what the job's status says.              *)
THEOREM CreditsFollowStatus == JobSpec => []CreditFollowsStatus
<1>1. JInv => CreditFollowsStatus
  BY DEF JInv
<1> QED BY <1>1, InitJInv, StepJInv, PTL DEF JobSpec

(* A completed job has its result and one notification of success; a job   *)
(* that failed or was canceled has no result and is never told as done.    *)
THEOREM OutcomesTold == JobSpec => []OutcomeIsTold
<1>1. JInv => OutcomeIsTold
  BY DEF JInv
<1> QED BY <1>1, InitJInv, StepJInv, PTL DEF JobSpec

LEMMA JobInvariant == JobSpec => []JInv
  BY InitJInv, StepJInv, PTL DEF JobSpec

----------------------------------------------------------------------------
(* The jobs keep to the ledger's protocol *)

(* The services settle a request only after it was reserved, and never     *)
(* both commit and refund it: the jobs implement UsageLedger.              *)
THEOREM JobsUseLedger == JobSpec => LedgerProtocol
<1>1. JobInit => Init
  BY DEF JobInit
<1>2. JInv /\ [JobNext]_jobVars => [Next]_vars
  <2> SUFFICES ASSUME JInv, [JobNext]_jobVars PROVE [Next]_vars
    OBVIOUS
  <2>1. \A k \in Keys : Advances(k) => UNCHANGED vars
    BY DEF Advances
  <2> QED BY StepCases, <2>1 DEF Next
<1> QED BY <1>1, <1>2, JobInvariant, PTL DEF JobSpec, LedgerProtocol, Spec

(* Types of the jobs, and of the ledger they drive.                        *)
THEOREM JobTypeCorrect == JobSpec => []JobTypeOK
<1>1. JInv /\ TypeOK => JobTypeOK
  BY DEF JInv, RowTypes, JobTypeOK
<1> QED BY <1>1, JobInvariant, JobsUseLedger, TypeCorrect, PTL DEF LedgerProtocol

(* Whatever the jobs do, no month holds more unrefunded requests than a    *)
(* plan allows, and the counters replay the ledger (no late refunds).      *)
THEOREM JobsStayWithinPlan ==
  JobSpec => [](WithinPlanUnlessLate /\ ProjectionIsReplayUnlessLate)
  BY JobsUseLedger, PlanNeverExceeded, CountersReplayLedger, PTL DEF LedgerProtocol

(* What a student is charged for in a month is the jobs of that month that *)
(* were not failed or canceled in it (no late refunds).                    *)
THEOREM StudentPaysForJobs == JobSpec => []CounterCountsJobs
<1>1. JInv /\ IInv => CounterCountsJobs
  <2> SUFFICES ASSUME JInv, IInv, NEW m \in Months, ~LateRefundIn(m)
               PROVE  used[m] = Cardinality({k \in Keys :
                        reserved[k] = m /\ (status[k] \in Active \cup {"completed"} \/ refunded[k] # m)})
    BY DEF CounterCountsJobs
  <2>1. {k \in Keys : reserved[k] = m /\ (status[k] \in Active \cup {"completed"} \/ refunded[k] # m)}
          = Charged(m, Keys)
    BY DEF JInv, CreditFollowsStatus, Charged, Months
  <2> QED BY <2>1 DEF IInv, Exact
<1> QED BY <1>1, JobInvariant, JobsUseLedger, Inductive, PTL DEF LedgerProtocol

(* A settled job is never reopened, and neither its result nor its ledger  *)
(* entries change again, however late or often the service reports.        *)
THEOREM TerminalStays == JobSpec => TerminalIsFinal
<1>1. JInv /\ [JobNext]_jobVars =>
        [\A k \in Keys : status[k] \in Terminal =>
           /\ UNCHANGED <<status[k], materialized[k], notices[k]>>
           /\ UNCHANGED <<reserved[k], committed[k], refunded[k]>>]_jobVars
  <2> SUFFICES ASSUME JInv, [JobNext]_jobVars, NEW q \in Keys, status[q] \in Terminal
               PROVE  /\ UNCHANGED <<status[q], materialized[q], notices[q]>>
                      /\ UNCHANGED <<reserved[q], committed[q], refunded[q]>>
    OBVIOUS
  <2> USE DEF Active, Terminal, JInv, RowTypes, EntryTypes, outcome, ledger
  <2>1. ASSUME NEW k \in Keys, Accepts(k) PROVE q # k
    BY <2>1 DEF Accepts
  <2>2. ASSUME NEW k \in Keys,
               Advances(k) \/ Delivers(k) \/ \E s \in {"failed", "canceled"} : Withdraws(k, s)
        PROVE  q # k
    BY <2>2 DEF Advances, Delivers, Withdraws
  <2>3. ASSUME NEW k \in Keys, Accepts(k)
        PROVE  /\ UNCHANGED <<status[q], materialized[q], notices[q]>>
               /\ UNCHANGED <<reserved[q], committed[q], refunded[q]>>
    BY <2>1, <2>3 DEF Accepts
  <2>4. ASSUME NEW k \in Keys, Advances(k)
        PROVE  /\ UNCHANGED <<status[q], materialized[q], notices[q]>>
               /\ UNCHANGED <<reserved[q], committed[q], refunded[q]>>
    BY <2>2, <2>4 DEF Advances, vars
  <2>5. ASSUME NEW k \in Keys, NEW s \in {"failed", "canceled"}, Withdraws(k, s)
        PROVE  /\ UNCHANGED <<status[q], materialized[q], notices[q]>>
               /\ UNCHANGED <<reserved[q], committed[q], refunded[q]>>
    BY <2>2, <2>5 DEF Withdraws
  <2>6. ASSUME NEW k \in Keys, Delivers(k)
        PROVE  /\ UNCHANGED <<status[q], materialized[q], notices[q]>>
               /\ UNCHANGED <<reserved[q], committed[q], refunded[q]>>
    BY <2>2, <2>6 DEF Delivers
  <2>7. CASE Idles
    BY <2>7 DEF Idles, jobs
  <2> HIDE DEF Active, Terminal, JInv, RowTypes, EntryTypes, outcome, ledger
  <2> QED BY <2>3, <2>4, <2>5, <2>6, <2>7, StepCases
<1> QED BY <1>1, JobInvariant, PTL DEF JobSpec, TerminalIsFinal

----------------------------------------------------------------------------
(* The jobs keep the application's promise *)

(* The refinement mapping, one request at a time. *)
PhaseOf(s) ==
  CASE s = "absent"    -> "absent"
    [] s \in Active    -> "accepted"
    [] s = "completed" -> "delivered"
    [] OTHER           -> "withdrawn"
ChargeOf(r, c, f) ==
  IF f # 0 THEN "returned"
  ELSE IF c # 0 THEN "charged"
  ELSE IF r # 0 THEN "held" ELSE "none"

LEMMA MappingPointwise ==
  /\ Phase = [k \in Keys |-> PhaseOf(status[k])]
  /\ Charge = [k \in Keys |-> ChargeOf(reserved[k], committed[k], refunded[k])]
  BY DEF Phase, PhaseOf, Charge, ChargeOf

LEMMA MappingPointwisePrimed ==
  /\ Phase' = [k \in Keys |-> PhaseOf(status'[k])]
  /\ Charge' = [k \in Keys |-> ChargeOf(reserved'[k], committed'[k], refunded'[k])]
  BY DEF Phase, PhaseOf, Charge, ChargeOf

LEMMA PhaseValues ==
  /\ PhaseOf("absent") = "absent" /\ PhaseOf("completed") = "delivered"
  /\ PhaseOf("failed") = "withdrawn" /\ PhaseOf("canceled") = "withdrawn"
  /\ \A s \in Active : PhaseOf(s) = "accepted"
  BY DEF PhaseOf, Active

LEMMA ChargeValues ==
  /\ ChargeOf(0, 0, 0) = "none"
  /\ \A r : r # 0 => ChargeOf(r, 0, 0) = "held"
  /\ \A r, c : c # 0 => ChargeOf(r, c, 0) = "charged"
  /\ \A r, c, f : f # 0 => ChargeOf(r, c, f) = "returned"
  BY DEF ChargeOf

(* A step on request k changes the three mapped functions at k only. *)
LEMMA MappedStep ==
  ASSUME NEW k \in Keys,
         \A q \in Keys \ {k} :
           UNCHANGED <<status[q], reserved[q], committed[q], refunded[q], materialized[q]>>
  PROVE  /\ Phase' = [Phase EXCEPT ![k] = PhaseOf(status'[k])]
         /\ Charge' = [Charge EXCEPT ![k] = ChargeOf(reserved'[k], committed'[k], refunded'[k])]
         /\ Result' = [Result EXCEPT ![k] = (materialized'[k] = 1)]
<1>1. \A q \in Keys : q # k => /\ PhaseOf(status'[q]) = PhaseOf(status[q])
                               /\ ChargeOf(reserved'[q], committed'[q], refunded'[q])
                                    = ChargeOf(reserved[q], committed[q], refunded[q])
  OBVIOUS
<1>2. Phase' = [Phase EXCEPT ![k] = PhaseOf(status'[k])]
  BY <1>1, MappingPointwise, MappingPointwisePrimed
<1>3. Charge' = [Charge EXCEPT ![k] = ChargeOf(reserved'[k], committed'[k], refunded'[k])]
  BY <1>1, MappingPointwise, MappingPointwisePrimed
<1>4. Result' = [Result EXCEPT ![k] = (materialized'[k] = 1)]
  <2> DEFINE R == [q \in Keys |-> materialized[q] = 1]
             N == [q \in Keys |-> materialized'[q] = 1]
  <2>1. Result = R /\ Result' = N
    BY DEF Result
  <2>2. \A q \in Keys : N[q] = [R EXCEPT ![k] = (materialized'[k] = 1)][q]
    BY Zenon
  <2>3. N = [R EXCEPT ![k] = (materialized'[k] = 1)]
    BY <2>2, Zenon
  <2> QED BY <2>1, <2>3, Zenon
<1> QED BY <1>2, <1>3, <1>4

(* Accepting, delivering and withdrawing a job are what AIJob does; its    *)
(* progress, the calendar and the plans are invisible.  This is the        *)
(* refinement run KeepsPromise, for any number of requests.                *)
THEOREM PromiseKept == JobSpec => KeepsPromise
<1>1. JobInit => Promise!Init
  <2> SUFFICES ASSUME JobInit PROVE Promise!Init
    OBVIOUS
  <2>1. \A k \in Keys : /\ PhaseOf(status[k]) = "absent"
                        /\ ChargeOf(reserved[k], committed[k], refunded[k]) = "none"
                        /\ materialized[k] = 0
    BY PhaseValues, ChargeValues DEF JobInit, Init, NotBooked
  <2>2. Phase = [k \in Keys |-> "absent"] /\ Charge = [k \in Keys |-> "none"]
    BY <2>1, MappingPointwise
  <2>3. Result = [k \in Keys |-> FALSE]
    <3>1. \A k \in Keys : (materialized[k] = 1) = FALSE
      BY <2>1
    <3> QED BY <3>1, Zenon DEF Result
  <2> QED BY <2>2, <2>3 DEF Promise!Init
<1>2. ASSUME JInv, [JobNext]_jobVars
      PROVE  [Promise!Next]_(Promise!vars)
  <2>0. RowTypes /\ EntryTypes /\ CreditFollowsStatus /\ OutcomeIsTold /\ month # 0
    BY <1>2 DEF JInv, EntryTypes, Months
  <2>1. ASSUME NEW k \in Keys, Accepts(k) PROVE Promise!Accept(k)
    <3>1. \A q \in Keys \ {k} :
            UNCHANGED <<status[q], reserved[q], committed[q], refunded[q], materialized[q]>>
      BY <2>1 DEF Accepts, outcome
    <3>2. /\ status[k] = "absent" /\ reserved[k] = 0 /\ committed[k] = 0 /\ refunded[k] = 0
          /\ status'[k] = "queued" /\ reserved'[k] = month /\ committed'[k] = 0 /\ refunded'[k] = 0
          /\ materialized'[k] = materialized[k]
      BY <2>0, <2>1 DEF Accepts, RowTypes, EntryTypes, CreditFollowsStatus, outcome
    <3>3. Phase[k] = "absent" /\ Charge[k] = "none"
      BY <3>2, MappingPointwise, PhaseValues, ChargeValues
    <3>4. PhaseOf(status'[k]) = "accepted"
          /\ ChargeOf(reserved'[k], committed'[k], refunded'[k]) = "held"
      BY <2>0, <3>2, PhaseValues, ChargeValues DEF Active
    <3>5. Result' = Result
      BY <2>1 DEF Accepts, Result, outcome
    <3> QED BY <3>1, <3>3, <3>4, <3>5, MappedStep DEF Promise!Accept
  <2>2. ASSUME NEW k \in Keys, Advances(k) PROVE UNCHANGED Promise!vars
    <3>1. \A q \in Keys : PhaseOf(status'[q]) = PhaseOf(status[q])
      BY <2>0, <2>2, PhaseValues DEF Advances, RowTypes
    <3>2. UNCHANGED <<reserved, committed, refunded, materialized>>
      BY <2>2 DEF Advances, vars, ledger, outcome
    <3> QED BY <3>1, <3>2, MappingPointwise, MappingPointwisePrimed DEF Promise!vars, Result
  <2>3. ASSUME NEW k \in Keys, NEW s \in {"failed", "canceled"}, Withdraws(k, s)
        PROVE  Promise!Withdraw(k)
    <3>1. \A q \in Keys \ {k} :
            UNCHANGED <<status[q], reserved[q], committed[q], refunded[q], materialized[q]>>
      BY <2>3 DEF Withdraws
    <3>2. /\ status[k] \in Active /\ reserved[k] # 0 /\ committed[k] = 0 /\ refunded[k] = 0
          /\ status'[k] = s /\ refunded'[k] = month
      BY <2>0, <2>3 DEF Withdraws, RowTypes, EntryTypes, CreditFollowsStatus
    <3>3. Phase[k] = "accepted" /\ Charge[k] = "held"
      BY <3>2, MappingPointwise, PhaseValues, ChargeValues
    <3>4. PhaseOf(status'[k]) = "withdrawn"
          /\ ChargeOf(reserved'[k], committed'[k], refunded'[k]) = "returned"
      BY <2>0, <3>2, PhaseValues, ChargeValues
    <3>5. Result' = Result
      BY <2>3 DEF Withdraws, Result
    <3> QED BY <3>1, <3>3, <3>4, <3>5, MappedStep DEF Promise!Withdraw
  <2>4. ASSUME NEW k \in Keys, Delivers(k) PROVE Promise!Deliver(k)
    <3>1. \A q \in Keys \ {k} :
            UNCHANGED <<status[q], reserved[q], committed[q], refunded[q], materialized[q]>>
      BY <2>4 DEF Delivers
    <3>2. /\ status[k] \in Active /\ reserved[k] # 0 /\ committed[k] = 0 /\ refunded[k] = 0
          /\ status'[k] = "completed" /\ committed'[k] = month /\ refunded'[k] = 0
          /\ materialized'[k] = 1
      BY <2>0, <2>4 DEF Delivers, RowTypes, EntryTypes, CreditFollowsStatus
    <3>3. Phase[k] = "accepted" /\ Charge[k] = "held"
      BY <3>2, MappingPointwise, PhaseValues, ChargeValues
    <3>4. PhaseOf(status'[k]) = "delivered"
          /\ ChargeOf(reserved'[k], committed'[k], refunded'[k]) = "charged"
      BY <2>0, <3>2, PhaseValues, ChargeValues
    <3>5. Result' = [Result EXCEPT ![k] = TRUE]
      BY <3>1, <3>2, MappedStep
    <3> QED BY <3>1, <3>3, <3>4, <3>5, MappedStep DEF Promise!Deliver
  <2>5. CASE Idles
    BY <2>5, MappingPointwise, MappingPointwisePrimed
       DEF Idles, ledger, jobs, outcome, Promise!vars, Result
  <2> QED BY <1>2, <2>1, <2>2, <2>3, <2>4, <2>5, StepCases DEF Promise!Next
<1> QED BY <1>1, <1>2, JobInvariant, PTL DEF JobSpec, KeepsPromise, Promise!Spec

(* Types of what is promised. *)
THEOREM PromiseTypeCorrect == Promise!Spec => []Promise!TypeOK
<1>1. Promise!Init => Promise!TypeOK
  BY DEF Promise!Init, Promise!TypeOK
<1>2. Promise!TypeOK /\ [Promise!Next]_(Promise!vars) => Promise!TypeOK'
  <2> SUFFICES ASSUME Promise!TypeOK, [Promise!Next]_(Promise!vars) PROVE Promise!TypeOK'
    OBVIOUS
  <2>1. ASSUME NEW k \in Keys, Promise!Accept(k) \/ Promise!Deliver(k) \/ Promise!Withdraw(k)
        PROVE  Promise!TypeOK'
    BY <2>1 DEF Promise!TypeOK, Promise!Accept, Promise!Deliver, Promise!Withdraw
  <2>2. CASE UNCHANGED Promise!vars
    BY <2>2 DEF Promise!TypeOK, Promise!vars
  <2> QED BY <2>1, <2>2 DEF Promise!Next
<1> QED BY <1>1, <1>2, PTL DEF Promise!Spec

(* What is promised, read off the phase: a delivery has a result and costs *)
(* a credit, a request that is not delivered has none and ends up free.    *)
AsPromised(k) ==
  /\ Phase[k] = "absent"    => Charge[k] = "none"     /\ Result[k] = FALSE
  /\ Phase[k] = "accepted"  => Charge[k] = "held"     /\ Result[k] = FALSE
  /\ Phase[k] = "delivered" => Charge[k] = "charged"  /\ Result[k] = TRUE
  /\ Phase[k] = "withdrawn" => Charge[k] = "returned" /\ Result[k] = FALSE

LEMMA PromiseStep ==
  ASSUME Promise!TypeOK, \A k \in Keys : AsPromised(k), Promise!Next
  PROVE  \A k \in Keys : AsPromised(k)'
<1>1. PICK j \in Keys : Promise!Accept(j) \/ Promise!Deliver(j) \/ Promise!Withdraw(j)
  BY DEF Promise!Next
<1> SUFFICES ASSUME NEW k \in Keys PROVE AsPromised(k)'
  OBVIOUS
<1>2. CASE k # j
  <2>1. Phase'[k] = Phase[k] /\ Charge'[k] = Charge[k] /\ Result'[k] = Result[k]
    BY <1>1, <1>2 DEF Promise!TypeOK, Promise!Accept, Promise!Deliver, Promise!Withdraw
  <2> QED BY <2>1 DEF AsPromised
<1>3. CASE k = j
  <2>1. /\ \/ Phase'[k] = "accepted"  /\ Charge'[k] = "held"     /\ Result'[k] = Result[k]
           \/ Phase'[k] = "delivered" /\ Charge'[k] = "charged"  /\ Result'[k] = TRUE
           \/ Phase'[k] = "withdrawn" /\ Charge'[k] = "returned" /\ Result'[k] = Result[k]
        /\ Phase[k] \in {"absent", "accepted"}
    BY <1>1, <1>3 DEF Promise!TypeOK, Promise!Accept, Promise!Deliver, Promise!Withdraw
  <2>2. Result[k] = FALSE
    BY <2>1 DEF AsPromised
  <2> QED BY <2>1, <2>2 DEF AsPromised
<1> QED BY <1>2, <1>3

(* Every request is charged and answered as it was promised.               *)
THEOREM PromisedOutcome == JobSpec => [](\A k \in Keys : AsPromised(k))
<1>1. Promise!Init => \A k \in Keys : AsPromised(k)
  BY DEF Promise!Init, AsPromised
<1>2. Promise!TypeOK /\ (\A k \in Keys : AsPromised(k)) /\ [Promise!Next]_(Promise!vars)
        => (\A k \in Keys : AsPromised(k))'
  <2>1. CASE UNCHANGED Promise!vars
    BY <2>1 DEF Promise!vars, AsPromised
  <2> QED BY <2>1, PromiseStep
<1> QED BY <1>1, <1>2, PromiseKept, PromiseTypeCorrect, PTL DEF Promise!Spec, KeepsPromise
=============================================================================
