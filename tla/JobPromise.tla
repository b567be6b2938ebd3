----------------------------- MODULE JobPromise -----------------------------
(***************************************************************************)
(* What the application promises about an AI request, without saying how   *)
(* (docs/AI_SERVICE_INTEGRATION.md, "Credits"): a request is accepted, and  *)
(* then at most one of two things happens to it, once and for all.  It is  *)
(* delivered, with a result and a charge, or it is withdrawn, with neither. *)
(***************************************************************************)
CONSTANT Jobs

VARIABLES phase, charge, result

vars == <<phase, charge, result>>

TypeOK ==
  /\ phase \in [Jobs -> {"absent", "accepted", "delivered", "withdrawn"}]
  /\ charge \in [Jobs -> {"none", "held", "charged", "returned"}]
  /\ result \in [Jobs -> BOOLEAN]

Init ==
  /\ phase = [j \in Jobs |-> "absent"]
  /\ charge = [j \in Jobs |-> "none"]
  /\ result = [j \in Jobs |-> FALSE]

Accept(j) ==
  /\ phase[j] = "absent" /\ charge[j] = "none"
  /\ phase' = [phase EXCEPT ![j] = "accepted"]
  /\ charge' = [charge EXCEPT ![j] = "held"]
  /\ UNCHANGED result

Deliver(j) ==
  /\ phase[j] = "accepted" /\ charge[j] = "held"
  /\ phase' = [phase EXCEPT ![j] = "delivered"]
  /\ charge' = [charge EXCEPT ![j] = "charged"]
  /\ result' = [result EXCEPT ![j] = TRUE]

Withdraw(j) ==
  /\ phase[j] = "accepted" /\ charge[j] = "held"
  /\ phase' = [phase EXCEPT ![j] = "withdrawn"]
  /\ charge' = [charge EXCEPT ![j] = "returned"]
  /\ UNCHANGED result

Next == \E j \in Jobs : Accept(j) \/ Deliver(j) \/ Withdraw(j)

Spec == Init /\ [][Next]_vars
=============================================================================
