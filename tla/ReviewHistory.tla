--------------------------- MODULE ReviewHistory ---------------------------
(***************************************************************************)
(* RuleLifecycle with two history variables, which no action reads: who    *)
(* really wrote a version while the present content was open, and who      *)
(* brought it into force.  They are what separation of duties is about;    *)
(* the code has to get there from the version history alone.               *)
(***************************************************************************)
EXTENDS RuleLifecycle

VARIABLES
    revision,     \* accounts that wrote a version while this content was open
    approver      \* the account whose approval brought it into force

reviewVars == <<vars, revision, approver>>

Stage ==
    IF status \in Open THEN "open" ELSE IF status \in InForce THEN "in force" ELSE "closed"

\* u writes a version: what the step means for the history variables.
Witness(u) ==
    /\ revision' =
         CASE Stage' = "open"     -> {u} \cup (IF Stage = "open" THEN revision ELSE {})
           [] Stage' = "in force" -> revision
           [] Stage' = "closed"   -> {}
    /\ approver' =
         IF Stage' # "in force" THEN NoUser
         ELSE IF Stage = "in force" THEN approver ELSE u

ReviewInit == Init /\ revision = {} /\ approver = NoUser

ReviewNext ==
    \/ \E u \in Users : Handler(u) /\ Witness(u)
    \/ Job /\ Witness(System)
    \/ Environment /\ UNCHANGED <<revision, approver>>

ReviewSpec == ReviewInit /\ [][ReviewNext]_reviewVars

----------------------------------------------------------------------------
\* Every rule in force was shaped by somebody and approved by somebody else,
\* who neither wrote a version of the approved content nor created the rule.
TwoPairsOfEyes ==
    status \in InForce =>
        /\ revision # {}
        /\ approver \in Users \ (revision \cup {creator})

\* The writers accounts_involved() reconstructs include everybody who wrote
\* while the present content was open: no version that carries no status, and no
\* version written while the rule was in force, makes it forget one of them.
CycleCoversRevision == status \in Open => revision \subseteq history.writers

Abstract == INSTANCE FourEyes
    WITH Accounts <- Users, Nobody <- NoUser, stage <- Stage, shapers <- revision

\* The lifecycle implements the four-eyes workflow.
FourEyesSpec == Abstract!Spec

=============================================================================
