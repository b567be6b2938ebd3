---------------------------- MODULE MCAIWebhook ----------------------------
(* Instances of AIWebhook for TLC: its constants are model values, and the *)
(* run checks liveness, which no symmetry would leave sound.               *)
EXTENDS AIWebhook
=============================================================================
