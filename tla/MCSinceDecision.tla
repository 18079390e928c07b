-------------------------- MODULE MCSinceDecision --------------------------
(* Instances of SinceDecision for TLC, on the casts of MCRuleLifecycle. *)
EXTENDS SinceDecision, MCRuleLifecycle
=============================================================================
