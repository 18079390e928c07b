-------------------------- MODULE MCReviewHistory --------------------------
(* Instances of ReviewHistory for TLC, on the casts of MCRuleLifecycle. *)
EXTENDS ReviewHistory, MCRuleLifecycle
=============================================================================
