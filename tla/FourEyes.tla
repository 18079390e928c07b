------------------------------ MODULE FourEyes ------------------------------
(***************************************************************************)
(* What the review workflow of Permitra promises, without saying how: the  *)
(* content of a rule is open while people shape it, and it comes into      *)
(* force by the decision of an account that did not take part in shaping   *)
(* it.  Content that is in force does not change without being opened.     *)
(***************************************************************************)
CONSTANTS Accounts, Nobody

VARIABLES
    stage,        \* "closed", "open" or "in force"
    shapers,      \* who shaped the content that is open or in force
    approver      \* who brought it into force

eyes == <<stage, shapers, approver>>

Init == stage = "closed" /\ shapers = {} /\ approver = Nobody

\* a takes up new content, or withdraws content from force to rework it.
Open(a) ==
    /\ stage # "open" /\ stage' = "open"
    /\ shapers' = {a} /\ approver' = Nobody

Shape(a) ==
    /\ stage = "open"
    /\ shapers' = shapers \cup {a}
    /\ UNCHANGED <<stage, approver>>

Approve(a) ==
    /\ stage = "open" /\ a \notin shapers
    /\ stage' = "in force" /\ approver' = a
    /\ UNCHANGED shapers

\* A rejection, a deactivation, an expiry, a deletion.
Close ==
    /\ stage # "closed" /\ stage' = "closed"
    /\ shapers' = {} /\ approver' = Nobody

Next == Close \/ \E a \in Accounts : Open(a) \/ Shape(a) \/ Approve(a)

Spec == Init /\ [][Next]_eyes

=============================================================================
