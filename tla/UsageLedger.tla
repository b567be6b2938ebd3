---------------------------- MODULE UsageLedger ----------------------------
(***************************************************************************)
(* The metered usage of one user: the monthly counters of                  *)
(* SubscriptionUsage (a projection) and the immutable UsageLedgerEntry     *)
(* rows they are said to be a projection of.                               *)
(*                                                                         *)
(* Every operation of apps/subscriptions/services.py modelled here runs in *)
(* one transaction that holds the lock of the usage row it changes, so an  *)
(* operation is one atomic step.  Rows of different users never meet (all  *)
(* queries filter by user), so one user is enough.                         *)
(*                                                                         *)
(* A key is the idempotency key of one AI job.  The unique constraint      *)
(* (user, operation, idempotency_key) allows one entry per key and         *)
(* operation, so the ledger is three functions from keys to the month the  *)
(* entry was booked in.                                                    *)
(***************************************************************************)
EXTENDS Integers, FiniteSets

CONSTANTS
  Keys,            \* idempotency keys of AI requests
  Characters,      \* the AI characters (khota, fahes, ...)
  CharacterOf,     \* the character a request is for: part of the key's hash
  Plans,           \* the catalogue of subscription plans
  FreePlan,        \* the plan of a user without an entitlement
  GeneralLimit,    \* plan -> max_ai_requests_per_month
  CharacterLimit,  \* plan -> character -> max_<character>_requests_per_month
  Features,        \* plan -> characters its can_use_<character> flags allow
  NoLimit,         \* a limit the plan does not set (limit_value is None)
  MaxMonth         \* bound: number of calendar months explored

Limit == Nat \cup {NoLimit}

ASSUME KeysAssumption == IsFiniteSet(Keys) /\ CharacterOf \in [Keys -> Characters]
ASSUME MonthAssumption == MaxMonth \in Nat \ {0}
ASSUME PlanAssumption ==
  /\ FreePlan \in Plans
  /\ NoLimit \notin Nat
  /\ GeneralLimit \in [Plans -> Limit]
  /\ CharacterLimit \in [Plans -> [Characters -> Limit]]
  /\ Features \in [Plans -> SUBSET Characters]

Months    == 1 .. MaxMonth
NotBooked == 0               \* no ledger entry
Booking   == {NotBooked} \cup Months

VARIABLES
  month,      \* the current calendar month (current_month_period)
  plan,       \* UserSubscription.plan
  entitled,   \* subscription_has_entitlement: status and period allow the plan
  used,       \* SubscriptionUsage.ai_requests_used of each month
  usedBy,     \* SubscriptionUsage.<character>_requests of each month
  reserved,   \* month of the key's RESERVE entry
  committed,  \* month of the key's COMMIT entry
  refunded    \* month of the key's REFUND entry

calendar   == <<month, plan, entitled>>
projection == <<used, usedBy>>
ledger     == <<reserved, committed, refunded>>
vars       == <<calendar, projection, ledger>>

TypeOK ==
  /\ month \in Months
  /\ plan \in Plans
  /\ entitled \in BOOLEAN
  /\ used \in [Months -> Nat]
  /\ usedBy \in [Months -> [Characters -> Nat]]
  /\ reserved \in [Keys -> Booking]
  /\ committed \in [Keys -> Booking]
  /\ refunded \in [Keys -> Booking]

Init ==
  /\ month = 1
  /\ plan = FreePlan
  /\ entitled = TRUE
  /\ used = [m \in Months |-> 0]
  /\ usedBy = [m \in Months |-> [c \in Characters |-> 0]]
  /\ reserved = [k \in Keys |-> NotBooked]
  /\ committed = [k \in Keys |-> NotBooked]
  /\ refunded = [k \in Keys |-> NotBooked]

----------------------------------------------------------------------------
(* Plans and limits *)

EffectivePlan == IF entitled THEN plan ELSE FreePlan

(* Mutant: the limit is checked one request too late. *)
BelowOrAt(n, limit) == limit # NoLimit => n <= limit

Below(n, limit) == limit # NoLimit => n < limit

HasCapacity(c) ==
  /\ Below(used[month], GeneralLimit[EffectivePlan])
  /\ Below(usedBy[month][c], CharacterLimit[EffectivePlan][c])

(* max(n - 1, 0) *)
Decrement(n) == IF n > 0 THEN n - 1 ELSE 0

(* The services only ever write the usage row of the current month. *)
SetCounters(c, total, byCharacter) ==
  /\ used' = [used EXCEPT ![month] = total]
  /\ usedBy' = [usedBy EXCEPT ![month][c] = byCharacter]

----------------------------------------------------------------------------
(* Operations on the ledger *)

(* Mutant: nothing is reserved. *)
ReserveNothing(k) == UNCHANGED vars

(* A request whose feature or limit check fails raises and changes        *)
(* nothing; a second reservation with the same key returns the usage row. *)
Reserve(k) ==
  LET c == CharacterOf[k] IN
  /\ c \in Features[EffectivePlan]
  /\ \/ /\ reserved[k] # NotBooked
        /\ UNCHANGED <<projection, reserved>>
     \/ /\ reserved[k] = NotBooked
        /\ HasCapacity(c)
        /\ SetCounters(c, used[month] + 1, usedBy[month][c] + 1)
        /\ reserved' = [reserved EXCEPT ![k] = month]
  /\ UNCHANGED <<calendar, committed, refunded>>

Commit(k) ==
  /\ committed' = [committed EXCEPT ![k] = IF @ = NotBooked THEN month ELSE @]
  /\ UNCHANGED <<calendar, projection, reserved, refunded>>

(* Mutant: a refund does not look for the entry of an earlier one. *)
RefundAgain(k) ==
  /\ SetCounters(CharacterOf[k], Decrement(used[month]), Decrement(usedBy[month][CharacterOf[k]]))
  /\ refunded' = [refunded EXCEPT ![k] = month]
  /\ UNCHANGED <<calendar, reserved, committed>>

(* The refund is booked in the month it happens in, and lowers that       *)
(* month's counters, whatever month the reservation was booked in.        *)
Refund(k) ==
  LET c == CharacterOf[k] IN
  /\ \/ /\ refunded[k] # NotBooked
        /\ UNCHANGED <<projection, refunded>>
     \/ /\ refunded[k] = NotBooked
        /\ SetCounters(c, Decrement(used[month]), Decrement(usedBy[month][c]))
        /\ refunded' = [refunded EXCEPT ![k] = month]
  /\ UNCHANGED <<calendar, reserved, committed>>

(* What the ledger says a month's counter is, over the requests in S.     *)
Replay(m, S) ==
  LET r == Cardinality({k \in S : reserved[k] = m})
      f == Cardinality({k \in S : refunded[k] = m})
  IN  IF r > f THEN r - f ELSE 0

KeysOf(c) == {k \in Keys : CharacterOf[k] = c}

Rebuild(m) ==
  /\ m <= month
  /\ used' = [used EXCEPT ![m] = Replay(m, Keys)]
  /\ usedBy' = [usedBy EXCEPT ![m] = [c \in Characters |-> Replay(m, KeysOf(c))]]
  /\ UNCHANGED <<calendar, ledger>>

----------------------------------------------------------------------------
(* The subscription and the calendar *)

(* change_user_plan activates the plan unless a status or an end date in  *)
(* the past comes with it.                                                *)
ChangePlan(p) ==
  /\ plan' = p
  /\ entitled' \in BOOLEAN
  /\ UNCHANGED <<month, projection, ledger>>

(* cancel_user_subscription, or the end of the paid or trial period.      *)
LoseEntitlement ==
  /\ entitled
  /\ entitled' = FALSE
  /\ UNCHANGED <<month, plan, projection, ledger>>

NextMonth ==
  /\ month < MaxMonth
  /\ month' = month + 1
  /\ UNCHANGED <<plan, entitled, projection, ledger>>

----------------------------------------------------------------------------
(* The callers only commit or refund a reserved request, and never do     *)
(* both: fail_job and cancel_job refund, and complete_job commits, only   *)
(* "if job.credits_reserved and not job.credits_committed".  They may     *)
(* repeat themselves.  AIJob shows that they keep to this protocol.       *)

CommitReserved(k) == reserved[k] # NotBooked /\ refunded[k] = NotBooked /\ Commit(k)
RefundReserved(k) == reserved[k] # NotBooked /\ committed[k] = NotBooked /\ Refund(k)

Next ==
  \/ \E k \in Keys : Reserve(k) \/ CommitReserved(k) \/ RefundReserved(k)
  \/ \E m \in Months : Rebuild(m)
  \/ \E p \in Plans : ChangePlan(p)
  \/ LoseEntitlement
  \/ NextMonth

Spec == Init /\ [][Next]_vars

----------------------------------------------------------------------------
(* Properties *)

(* A refund booked in month m of a reservation of another month. *)
LateRefundIn(m) == \E k \in Keys : refunded[k] = m /\ reserved[k] # m

(* Requests that count against month m. *)
Charged(m, S) == {k \in S : reserved[k] = m /\ refunded[k] # m}

(* Requests made in month m whose credit the user has not got back. *)
Live(m) == {k \in Keys : reserved[k] = m /\ refunded[k] = NotBooked}

Within(n, limit) == limit # NoLimit => n <= limit

(* rebuild_usage_projection changes nothing in a month all of whose       *)
(* refunds are of that month's own reservations: the counters that        *)
(* reserve and refund maintain one by one, clamped at zero, are what the  *)
(* ledger replays to, in total and for each character.                    *)
ProjectionIsReplayUnlessLate ==
  \A m \in Months : ~LateRefundIn(m) =>
    /\ used[m] = Replay(m, Keys)
    /\ \A c \in Characters : usedBy[m][c] = Replay(m, KeysOf(c))

(* reserve_character_request never lets a month hold more unrefunded      *)
(* requests than some plan of the catalogue allows, in total and for each *)
(* character, whatever plan changes, refunds and rebuilds happen, as long *)
(* as no refund of another month's request was booked in that month.      *)
WithinPlanUnlessLate ==
  \A m \in Months : ~LateRefundIn(m) =>
    /\ \E p \in Plans : Within(Cardinality(Charged(m, Keys)), GeneralLimit[p])
    /\ \A c \in Characters : \E p \in Plans :
         Within(Cardinality(Charged(m, KeysOf(c))), CharacterLimit[p][c])

(* The same promise without the proviso: "prevent concurrent requests     *)
(* from exceeding a plan" (docstring of reserve_character_request).       *)
WithinPlan ==
  \A m \in Months :
    \E p \in Plans : Within(Cardinality(Live(m)), GeneralLimit[p])

=============================================================================
