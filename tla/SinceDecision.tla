--------------------------- MODULE SinceDecision ---------------------------
(***************************************************************************)
(* RuleLifecycle with one of the two sets the documentation defines        *)
(* separation of duties by: who was the requestor since the last decision  *)
(* on the rule, an expiry counting as a decision.  Nothing reads it;       *)
(* accounts_involved() is compared with it.                                *)
(***************************************************************************)
EXTENDS RuleLifecycle

VARIABLE
    asked         \* accounts that were the requestor since the last decision

sinceVars == <<vars, asked>>

Decided == Job \/ (status \notin CycleClosed /\ status' \in CycleClosed)

\* A step that writes a version.
Recorded ==
    asked' = IF Decided THEN {requestor'} ELSE asked \cup {requestor'}

SinceInit == Init /\ asked = {}

SinceNext ==
    \/ \E u \in Users : Handler(u) /\ Recorded
    \/ Job /\ Recorded
    \/ Environment /\ UNCHANGED asked

SinceSpec == SinceInit /\ [][SinceNext]_sinceVars

----------------------------------------------------------------------------
\* Nobody approves a rule they were the requestor of at some time since the last
\* decision on it.
RequestorsDoNotApprove == [][\A u \in Users : ApproveRule(u) => u \notin asked]_sinceVars

=============================================================================
