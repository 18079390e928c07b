-------------------------- MODULE MCRuleLifecycle --------------------------
(* Instances of RuleLifecycle for TLC. *)
EXTENDS RuleLifecycle, TLC

CONSTANTS ann, ben, cem, fw, aci

\* Everybody may do everything: the restrictions left are those on the account.
EverybodyHoldsAll == [r \in Roles |-> Users]

\* One person for the workflow, and one who approves and may be handed the rule.
ClerkAndApprover ==
    [r \in Roles |-> CASE r = "change_approver" -> {ben}
                       [] r = "architect"       -> {ann, ben}
                       [] OTHER                 -> {ann}]

\* The accounts that stay are alike.
AnyAccount == Permutations(Users \ Leavers)
=============================================================================
