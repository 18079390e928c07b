---------------------------- MODULE EvidenceLog ----------------------------
(***************************************************************************)
(* What docs/AUDIT.md promises of the audit log and the SIEM: entries      *)
(* reach the SIEM in the order they were written, and while a SIEM is      *)
(* configured nothing that was queued for it leaves the database before it *)
(* has arrived there.  AuditChain is shown to implement this.              *)
(***************************************************************************)
EXTENDS Integers

VARIABLES
    written,       \* how many entries there have been
    held,          \* those the database holds
    queued,        \* those that were written for the SIEM
    seen,          \* those that have arrived at the SIEM
    configured     \* is there a SIEM

vars == <<written, held, queued, seen, configured>>

Init ==
    /\ written = 0
    /\ held = {} /\ queued = {} /\ seen = {}
    /\ configured \in BOOLEAN

Write ==
    /\ written' = written + 1
    /\ held' = held \cup {written'}
    /\ queued' = IF configured THEN queued \cup {written'} ELSE queued
    /\ UNCHANGED <<seen, configured>>

\* A first arrival: everything older that is held and queued is there already.
Arrive ==
    /\ \E e \in queued \ seen :
          /\ \A f \in held \cap queued : f < e => f \in seen
          /\ seen' = seen \cup {e}
    /\ UNCHANGED <<written, held, queued, configured>>

\* Retention removes a prefix.
Forget ==
    /\ \E k \in 1..written : held' = {e \in held : e > k}
    /\ configured => (held \ held') \cap queued \subseteq seen
    /\ UNCHANGED <<written, queued, seen, configured>>

Lose ==
    /\ \E k \in 0..written : held' = {e \in held : e <= k}
    /\ UNCHANGED <<written, queued, seen, configured>>

Configure ==
    /\ configured' \in BOOLEAN
    /\ UNCHANGED <<written, held, queued, seen>>

Next == Write \/ Arrive \/ Forget \/ Lose \/ Configure

Spec == Init /\ [][Next]_vars

=============================================================================
