---------------------------- MODULE Subscription ---------------------------
(***************************************************************************)
(* The subscription plans and one user's subscription                      *)
(* (apps/subscriptions/services.py and views.py, and the two subscription  *)
(* actions of apps/admin_dashboard/views.py: ManagedUserViewSet).          *)
(*                                                                         *)
(* Administrators change the plan and cancel through services that save    *)
(* the row and write a SubscriptionEvent in one transaction, and PATCH the *)
(* row without one.  Nothing locks the row before it is read: the change   *)
(* and the PATCH save it whole, the cancellation its own columns.  A plan  *)
(* is known by its code, which is taken not to be edited.                  *)
(***************************************************************************)
EXTENDS Naturals

CONSTANTS
  Tiers,          \* rows of SubscriptionPlan that may come to be
  DefaultTiers,   \* DEFAULT_PLANS
  FreeTier,       \* FREE_PLAN_CODE
  PlanClerks,     \* handlers at a time
  SubStatuses,    \* bounds: the statuses administrators set,
  SubEnds         \* and the ends of periods and trials

ASSUME SubscriptionAssumption ==
  /\ FreeTier \in DefaultTiers /\ DefaultTiers \subseteq Tiers
  /\ SubStatuses \subseteq {"active", "trialing", "expired", "canceled", "past_due", "paused"}
  /\ SubEnds \subseteq {"open", "running"}

VARIABLES
  tier,       \* the plans: "absent", "active" or "inactive"
  member,     \* the UserSubscription row
  planClerk,  \* what each handler fetched and does next
  told        \* what the events say, and whether nothing was changed without one

subscriptionVars == <<tier, member, planClerk, told>>

TierStates == {"absent", "active", "inactive"}
AllStatuses == {"active", "trialing", "expired", "canceled", "past_due", "paused"}
Spans      == {"open", "running", "over"}       \* an end that is unset, ahead, passed
MemberRow  == [plan: Tiers, status: AllStatuses, period: Spans, trial: Spans, live: BOOLEAN]
NoMember   == [live |-> FALSE]
Unoccupied == [op |-> "none"]
Event      == [plan: Tiers, canceled: BOOLEAN, sure: BOOLEAN]

SubscriptionTypeOK ==
  /\ tier \in [Tiers -> TierStates]
  /\ member = NoMember \/ member \in MemberRow
  /\ told \in Event
  /\ DOMAIN planClerk = PlanClerks

SubscriptionInit ==
  /\ tier = [p \in Tiers |-> "absent"]
  /\ member = NoMember
  /\ planClerk = [h \in PlanClerks |-> Unoccupied]
  /\ told = [plan |-> FreeTier, canceled |-> FALSE, sure |-> TRUE]

----------------------------------------------------------------------------
(* Entitlement *)

(* subscription_has_entitlement *)
Entitled(m) ==
  /\ m.status \in {"active", "trialing"}
  /\ m.status = "trialing" => m.trial # "over"
  /\ m.period # "over"

(* get_user_plan *)
EntitledTier == IF Entitled(member) THEN member.plan ELSE FreeTier

(* ensure_default_plans makes or resets them, and activates them all. *)
Seeded == [p \in Tiers |-> IF p \in DefaultTiers THEN "active" ELSE tier[p]]

(* get_free_plan: missing, it is made with the other default plans. *)
WithFree == IF tier[FreeTier] = "absent" THEN Seeded ELSE tier

OnFree == [plan |-> FreeTier, status |-> "active", period |-> "open", trial |-> "open", live |-> TRUE]

(* get_or_create_user_subscription, on registration and wherever the plan  *)
(* is asked for: a deleted row comes back as it was, but on the free plan. *)
Subscribe ==
  /\ ~ member.live
  /\ tier' = WithFree
  /\ member' = IF member = NoMember THEN OnFree
               ELSE [member EXCEPT !.live = TRUE, !.plan = FreeTier, !.status = "active"]
  /\ told' = [plan |-> FreeTier, canceled |-> FALSE, sure |-> TRUE]
  /\ UNCHANGED planClerk

TimePasses ==
  /\ member # NoMember
  /\ \/ member.period = "running" /\ member' = [member EXCEPT !.period = "over"]
     \/ member.trial = "running" /\ member' = [member EXCEPT !.trial = "over"]
  /\ UNCHANGED <<tier, planClerk, told>>

(* The Django admin's deletion, a soft one. *)
RemoveMember ==
  /\ member.live
  /\ member' = [member EXCEPT !.live = FALSE]
  /\ UNCHANGED <<tier, planClerk, told>>

----------------------------------------------------------------------------
(* Administrators *)

Occupy(h, what) == planClerk[h] = Unoccupied /\ planClerk' = [planClerk EXCEPT ![h] = what]
Ends(h, op)     == planClerk[h].op = op /\ planClerk' = [planClerk EXCEPT ![h] = Unoccupied]

(* Only an active plan is accepted; change_user_plan reads the row. *)
AskChange(h, p, status, period) ==
  /\ tier[p] = "active" /\ member.live
  /\ Occupy(h, [op |-> "change", row |-> [member EXCEPT !.plan = p, !.status = status, !.period = period]])
  /\ UNCHANGED <<tier, member, told>>

(* The row is saved whole, and PLAN_CHANGED says so. *)
SaveChange(h) ==
  LET row == planClerk[h].row IN
  /\ Ends(h, "change")
  /\ tier[row.plan] # "absent"
  /\ member' = row
  /\ told' = [plan |-> row.plan, canceled |-> FALSE, sure |-> row.status \in {"active", "trialing"}]
  /\ UNCHANGED tier

(* The plan was deleted meanwhile: the foreign key refuses it. *)
ChangeFails(h) ==
  /\ planClerk[h].op = "change" /\ tier[planClerk[h].row.plan] = "absent"
  /\ Ends(h, "change")
  /\ UNCHANGED <<tier, member, told>>

AskCancel(h) ==
  /\ member.live
  /\ Occupy(h, [op |-> "cancel", row |-> [member EXCEPT !.status = "canceled"]])
  /\ UNCHANGED <<tier, member, told>>

(* Mutant: the cancellation saves the row whole. *)
SaveCancelWhole(h) ==
  /\ Ends(h, "cancel")
  /\ member' = planClerk[h].row
  /\ told' = [told EXCEPT !.canceled = TRUE]
  /\ UNCHANGED tier

(* cancel_user_subscription saves the columns it sets, and CANCELED says so. *)
SaveCancel(h) ==
  /\ Ends(h, "cancel")
  /\ member' = [member EXCEPT !.status = "canceled"]
  /\ told' = [told EXCEPT !.canceled = TRUE]
  /\ UNCHANGED tier

(* partial_update of the row without a plan: no event.                    *)
AskMemberPatch(h, status, trial) ==
  /\ member.live
  /\ Occupy(h, [op |-> "patch", row |-> [member EXCEPT !.status = status, !.trial = trial]])
  /\ UNCHANGED <<tier, member, told>>

SaveMemberPatch(h) ==
  /\ Ends(h, "patch")
  /\ member' = planClerk[h].row
  /\ told' = [told EXCEPT !.sure = FALSE]
  /\ UNCHANGED tier

----------------------------------------------------------------------------
(* Plans *)

(* ensure_default_plans, by bootstrap_baraq *)
SeedPlans ==
  /\ tier' = Seeded
  /\ UNCHANGED <<member, planClerk, told>>

CreateTier(p) ==
  /\ tier[p] = "absent" /\ tier' = [tier EXCEPT ![p] = "active"]
  /\ UNCHANGED <<member, planClerk, told>>

(* partial_update of a plan saves the whole row, active or not. *)
PatchTier(p, state) ==
  /\ tier[p] # "absent" /\ state # "absent" /\ tier' = [tier EXCEPT ![p] = state]
  /\ UNCHANGED <<member, planClerk, told>>

Subscribed(p) == member # NoMember /\ member.plan = p

(* destroy: a plan that has subscriptions is deactivated, any other one    *)
(* fetched again and deleted, but not the free plan.                       *)
AskTierDestroy(h, p) ==
  /\ tier[p] # "absent" /\ p # FreeTier
  /\ Occupy(h, [op |-> IF Subscribed(p) /\ member.live THEN "deactivate" ELSE "delete", plan |-> p])
  /\ UNCHANGED <<tier, member, told>>

(* The plan is deleted unless PROTECT meets a subscription, a deleted one  *)
(* too.                                                                    *)
DestroyTier(h) ==
  LET p == planClerk[h].plan IN
  /\ \/ Ends(h, "deactivate") /\ tier' = [tier EXCEPT ![p] = IF @ = "absent" THEN @ ELSE "inactive"]
     \/ Ends(h, "delete") /\ tier' = [tier EXCEPT ![p] = IF Subscribed(p) THEN @ ELSE "absent"]
  /\ UNCHANGED <<member, told>>

SubscriptionNext ==
  \/ Subscribe \/ TimePasses \/ RemoveMember \/ SeedPlans
  \/ \E p \in Tiers : CreateTier(p) \/ \E s \in {"active", "inactive"} : PatchTier(p, s)
  \/ \E h \in PlanClerks :
       \/ \E p \in Tiers, s \in SubStatuses, e \in SubEnds : AskChange(h, p, s, e)
       \/ \E s \in SubStatuses, e \in SubEnds : AskMemberPatch(h, s, e)
       \/ AskCancel(h) \/ \E p \in Tiers : AskTierDestroy(h, p)
       \/ SaveChange(h) \/ ChangeFails(h) \/ SaveCancel(h) \/ SaveMemberPatch(h) \/ DestroyTier(h)

SubscriptionSpec == SubscriptionInit /\ [][SubscriptionNext]_subscriptionVars

----------------------------------------------------------------------------
(* However plan changes and cancellations overlap, the events tell the     *)
(* plan, and a user whose subscription was cancelled has the free plan's   *)
(* limits only; a PATCH without a plan, which leaves no event, ends that   *)
(* until the next change.                                                  *)
EventsTellPlan ==
  told.sure /\ member.live =>
    /\ member.plan = told.plan
    /\ told.canceled => EntitledTier = FreeTier

=============================================================================
