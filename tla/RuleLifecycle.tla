--------------------------- MODULE RuleLifecycle ---------------------------
(***************************************************************************)
(* One firewall rule from its request to its deletion: every handler and   *)
(* background job of Permitra that changes the rule, as one action each.   *)
(*                                                                         *)
(* The rules of the register do not decide about each other, so the        *)
(* module follows one of them.  The version history is kept as the two     *)
(* facts accounts_involved() folds out of it: who wrote or requested in    *)
(* the open review cycle, and whether the last version that carries a      *)
(* status carries a closed one.                                            *)
(*                                                                         *)
(* A definition commented as a slip is a plausible mistake in the one that *)
(* follows it; no action uses it, and the properties have to catch it.     *)
(***************************************************************************)
CONSTANTS
    Users,        \* accounts, by account key (accounts.account_key)
    System,       \* the account name background jobs sign with
    NoUser,       \* an empty name
    Holds,        \* Holds[role]: the accounts holding a role
    Leavers,      \* accounts an administrator may disable or enable
    Components,   \* firewall clusters and fabrics a rule can be rolled out on
    Reports,      \* the rollout states operations reports in this instance
    Relations,    \* the verdicts on the rule's zone relation in this instance
    Dates         \* the valid_until values an edit may choose in this instance

Roles == {"architect", "operations", "change_approver", "admin"}

\* domain_values.IMPL_STATUSES; "none" is a component without an entry.
ReportedStatus == {"open", "new", "to change", "to remove", "implemented", "deactivated"}
ImplStatus == ReportedStatus \cup {"none"}

InForce == {"approved", "active"}
Open == {"draft", "in_review"}
CycleClosed == InForce \cup {"rejected", "deactivated", "deleted"}
Status == {"absent"} \cup Open \cup CycleClosed

\* The answer to "may this rule stand between these zones": permitted, an
\* explicit Block cell of the zone matrix, inadmissible for another reason (an
\* unmaintained relation under default-deny, a segment relation), or permitted
\* by the matrix while the ping baseline's licence has lapsed.
Verdict == {"allow", "block", "deny", "lapsed"}
ValidUntil == {"none", "future", "past"}
Window == {"none", "running", "overdue"}

ASSUME LifecycleAssumption ==
    /\ System \notin Users /\ NoUser \notin Users /\ System # NoUser
    /\ Holds \in [Roles -> SUBSET Users]
    /\ Leavers \subseteq Users
    /\ Reports \subseteq ReportedStatus
    /\ Relations \subseteq Verdict /\ "allow" \in Relations
    /\ Dates \subseteq ValidUntil

VARIABLES
    status,       \* Rule.status; "absent" before the rule is created
    creator, requestor,      \* Rule.created_by, Rule.requestor
    pending, proposer,       \* Rule.pending_requestor, Rule.handover_proposed_by
    comps,        \* names of Rule.components
    impl,         \* Rule.impl_status
    removal,      \* whether Rule.removal_reason is set
    due,          \* Rule.emergency_approval_due: not set, ahead, or reached
    validity,     \* Rule.valid_until: not set, ahead, or in the past
    relation,     \* the verdict on the rule's relation, owned by the zone matrix
    history,      \* the open review cycle as accounts_involved() reads it
    accounts      \* accounts with is_active

parties == <<creator, requestor, pending, proposer>>
rollout == <<comps, impl>>
clocks  == <<due, validity>>
vars == <<status, parties, rollout, removal, clocks, relation, history, accounts>>

Exists == status \notin {"absent", "deleted"}

\* require_roles() on an active account.
May(u, roles) == u \in accounts /\ \E r \in roles : u \in Holds[r]

----------------------------------------------------------------------------
(* The version history. *)

Histories == [writers : SUBSET (Users \cup {System, NoUser}), closed : BOOLEAN]

EmptyHistory == [writers |-> {}, closed |-> FALSE]

\* Slips: only the newest version counts; the cycle never opens again.
NewestOnly(h, u, st, req) == [writers |-> {u, req}, closed |-> st \in CycleClosed]
NeverReopened(h, u, st, req) ==
    [writers |-> IF st \in CycleClosed /\ ~h.closed THEN {} ELSE h.writers \cup {u, req},
     closed  |-> h.closed \/ st \in CycleClosed]

\* add_version() by u: the snapshot carries the status and the requestor the
\* rule has now.  The transition into a closed status is the decision; it ends
\* the cycle and is not part of the next one.
Versioned(h, u, st, req) ==
    [writers |-> IF st \in CycleClosed /\ ~h.closed THEN {} ELSE h.writers \cup {u, req},
     closed  |-> st \in CycleClosed]

\* Slip: a version without a status is skipped.
StatuslessIgnored(h, u) == h

\* A version whose snapshot is {"auto": ...}: it names its writer, but carries
\* neither status nor requestor.
AutoVersioned(h, u) == [h EXCEPT !.writers = @ \cup {u}]

\* Slip: whoever else edited may approve.
CreatorAndRequestor == {creator, requestor}

\* accounts_involved(): creator, current requestor and the open cycle.
Involved == ({creator, requestor} \cup history.writers) \ {System, NoUser}

----------------------------------------------------------------------------
(* The rollout. *)

ComponentSets == SUBSET Components \ {{}}

FullyImplemented(cs, f) == cs # {} /\ \A c \in cs : f[c] = "implemented"

\* Components to take the rule off, except those in one of the spared states.
ToRemove(f, cs, spared) ==
    [c \in Components |-> IF c \in cs /\ f[c] \notin spared THEN "to remove" ELSE f[c]]

\* Slip: a value outside the closed set of rollout states.
ToChangeMisspelt(f, cs) ==
    [c \in Components |-> IF c \in cs /\ f[c] = "implemented" THEN "to_change" ELSE f[c]]

\* What is already implemented has to be adjusted.
ToChange(f, cs) ==
    [c \in Components |-> IF c \in cs /\ f[c] = "implemented" THEN "to change" ELSE f[c]]

----------------------------------------------------------------------------
Init ==
    /\ status = "absent"
    /\ creator = NoUser /\ requestor = NoUser /\ pending = NoUser /\ proposer = NoUser
    /\ comps = {} /\ impl = [c \in Components |-> "none"]
    /\ removal = FALSE /\ due = "none" /\ validity = "none"
    /\ relation = "allow"
    /\ history = EmptyHistory
    /\ accounts = Users

(* Creation: derived zones, components and, on the normal path, the matrix. *)

Created(u, st) ==
    /\ status = "absent" /\ status' = st
    /\ creator' = u /\ requestor' = u
    /\ comps' \in ComponentSets
    /\ impl' \in [Components -> Reports \cup {"none"}]
    /\ validity' \in Dates
    /\ UNCHANGED <<pending, proposer, accounts>>

CreateRule(u) ==
    /\ May(u, {"architect"})
    /\ Created(u, "draft")
    /\ relation' = "allow" /\ removal' = FALSE
    /\ history' = Versioned(history, u, "draft", u)
    /\ UNCHANGED due

\* Documents a rule already on the device: a violated matrix is recorded as
\* the removal reason instead of refused.
DeclareEmergency(u) ==
    /\ May(u, {"architect", "operations"})
    /\ Created(u, "in_review")
    /\ relation' \in Relations \ {"lapsed"}
    /\ removal' = (relation' # "allow")
    /\ due' = "running"
    /\ history' = Versioned(Versioned(history, u, "in_review", u), u, "in_review", u)

----------------------------------------------------------------------------
(* Edits.  All of them face the checks of a creation before they apply. *)

PassesChecks ==
    /\ Exists
    /\ comps' \in ComponentSets
    /\ relation' = "allow"
    /\ removal' = FALSE

\* A substantive change to a rule in force, or to a rejected one, resets the
\* review; every other status stays.
Reset(s) == IF s \in InForce \cup {"rejected"} THEN "draft" ELSE s

UpdateRule(u) ==
    /\ May(u, {"architect"})
    /\ PassesChecks
    /\ status' = Reset(status)
    /\ validity' \in Dates
    /\ history' = Versioned(history, u, status', requestor)
    /\ UNCHANGED <<parties, impl, due, accounts>>

RestoreVersion(u) ==
    /\ May(u, {"architect"})
    /\ PassesChecks
    /\ status' = "draft"
    /\ validity' \in Dates
    /\ history' = Versioned(history, u, "draft", requestor)
    /\ UNCHANGED <<parties, impl, due, accounts>>

\* propagate_ip_change(): an address object's new IP in the rules that name it.
PropagateAddress(u) ==
    /\ May(u, {"architect", "operations"})
    /\ PassesChecks
    /\ status' = Reset(status)
    /\ history' = AutoVersioned(history, u)
    /\ UNCHANGED <<parties, impl, clocks, accounts>>

\* rule_recheck.apply() after a group or the inventory moved: a redefined group
\* or a changed zone withdraws the approval, an inventory change keeps it and
\* marks what is implemented as to be changed.
RecheckResets(u) ==
    /\ May(u, {"architect", "operations", "admin"})
    /\ PassesChecks
    /\ status' = Reset(status)
    /\ history' = AutoVersioned(history, u)
    /\ UNCHANGED <<parties, impl, clocks, accounts>>

RecheckKeeps(u) ==
    /\ May(u, {"architect", "operations", "admin"})
    /\ PassesChecks
    /\ status' = IF status = "active" THEN "approved" ELSE status
    /\ impl' = IF status \in InForce THEN ToChange(impl, comps') ELSE impl
    /\ history' = AutoVersioned(history, u)
    /\ UNCHANGED <<parties, clocks, accounts>>

----------------------------------------------------------------------------
(* Review. *)

\* Slip: a decision leaves the emergency window open.
WindowForgotten(u, st) ==
    /\ status' = st
    /\ history' = Versioned(history, u, st, requestor)
    /\ UNCHANGED due

\* What every end of _decide() does: an emergency window closes on any decision.
Decision(u, st) ==
    /\ status' = st
    /\ due' = "none"
    /\ history' = Versioned(history, u, st, requestor)

SubmitForReview(u) ==
    /\ May(u, {"architect"})
    /\ status \in {"draft", "rejected"}
    /\ status' = "in_review"
    /\ history' = Versioned(history, u, "in_review", requestor)
    /\ UNCHANGED <<parties, rollout, removal, clocks, relation, accounts>>

\* Separation of duties: the acting account must not have shaped the content.
MayApprove(u) ==
    /\ May(u, {"change_approver"})
    /\ status = "in_review"
    /\ u \notin Involved

\* Slips: only the proposal, or only the relation, is looked at.
ProposalOnly == removal
RelationOnly == relation # "allow"

\* A removal proposal, an inadmissible relation or a lapsed baseline turns the
\* approval into the approval of the removal.
RemovalDue == removal \/ relation # "allow"

ApproveRule(u) ==
    /\ MayApprove(u) /\ ~RemovalDue
    /\ Decision(u, "approved")
    /\ impl' = ToChange(impl, comps)
    /\ UNCHANGED <<parties, comps, removal, validity, relation, accounts>>

ApproveRemoval(u) ==
    /\ MayApprove(u) /\ RemovalDue
    /\ Decision(u, "deactivated")
    /\ impl' = ToRemove(impl, comps, {"deactivated"})
    /\ removal' = FALSE
    /\ UNCHANGED <<parties, comps, validity, relation, accounts>>

\* A rejection leaves the removal proposal standing.
Reject(u) ==
    /\ May(u, {"change_approver"})
    /\ status = "in_review"
    /\ Decision(u, "rejected")
    /\ UNCHANGED <<parties, rollout, removal, validity, relation, accounts>>

\* From any status; only a rule in force opens removal work on its components.
Deactivate(u) ==
    /\ May(u, {"operations", "architect"})
    /\ Exists
    /\ Decision(u, "deactivated")
    /\ impl' = IF status \in InForce
               THEN ToRemove(impl, comps, {"deactivated", "new", "open"})
               ELSE impl
    /\ UNCHANGED <<parties, comps, removal, validity, relation, accounts>>

DeleteRule(u) ==
    /\ May(u, {"admin"})
    /\ Exists
    /\ status' = "deleted"
    /\ history' = Versioned(history, u, "deleted", requestor)
    /\ UNCHANGED <<parties, rollout, removal, clocks, relation, accounts>>

\* Every in-force rule of a retired application goes into review for removal.
RetireApplication(u) ==
    /\ May(u, {"architect"})
    /\ status \in InForce
    /\ status' = "in_review"
    /\ removal' = TRUE
    /\ history' = Versioned(history, u, "in_review", requestor)
    /\ UNCHANGED <<parties, rollout, clocks, relation, accounts>>

----------------------------------------------------------------------------
(* Operations and metadata. *)

\* Slip: a report never takes "active" back.
OnlyPromoted(s, cs, f) ==
    IF s = "approved" /\ FullyImplemented(cs, f) THEN "active" ELSE s

\* _sync_active_status(): approved and active follow the rollout reports.
Synced(s, cs, f) ==
    IF s = "approved" /\ FullyImplemented(cs, f) THEN "active"
    ELSE IF s = "active" /\ ~FullyImplemented(cs, f) THEN "approved"
    ELSE s

\* Reports for some of the rule's components; a change of status is a second
\* version after the report's own.
SetImplStatus(u) ==
    /\ May(u, {"operations"})
    /\ Exists
    /\ \E touched \in SUBSET comps : \E report \in [touched -> Reports] :
          impl' = [c \in Components |-> IF c \in touched THEN report[c] ELSE impl[c]]
    /\ status' = Synced(status, comps, impl')
    /\ LET reported == Versioned(history, u, status, requestor)
       IN  history' = IF status' = status THEN reported
                      ELSE Versioned(reported, u, status', requestor)
    /\ UNCHANGED <<parties, comps, removal, clocks, relation, accounts>>

ExtendValidity(u) ==
    /\ May(u, {"architect", "operations", "change_approver"})
    /\ status \in InForce
    /\ "future" \in Dates /\ validity' = "future"
    /\ history' = Versioned(history, u, status, requestor)
    /\ UNCHANGED <<status, parties, rollout, removal, due, relation, accounts>>

SetChangeId(u) ==
    /\ May(u, {"architect", "operations", "change_approver"})
    /\ Exists
    /\ history' = Versioned(history, u, status, requestor)
    /\ UNCHANGED <<status, parties, rollout, removal, clocks, relation, accounts>>

----------------------------------------------------------------------------
(* Requestor handover. *)

ProposeHandover(u) ==
    /\ May(u, {"architect", "operations", "admin"})
    /\ Exists
    /\ u = requestor \/ (May(u, {"admin"}) /\ requestor \notin accounts)
    /\ \E successor \in Users :
          /\ May(successor, {"architect"}) /\ successor # requestor
          /\ pending' = successor
    /\ proposer' = u
    /\ history' = Versioned(history, u, status, requestor)
    /\ UNCHANGED <<status, creator, requestor, rollout, removal, clocks, relation, accounts>>

ConfirmHandover(u) ==
    /\ May(u, {"architect"})
    /\ Exists
    /\ pending = u
    /\ requestor' = u
    /\ pending' = NoUser /\ proposer' = NoUser
    /\ history' = Versioned(history, u, status, u)
    /\ UNCHANGED <<status, creator, rollout, removal, clocks, relation, accounts>>

CancelHandover(u) ==
    /\ May(u, {"architect", "admin"})
    /\ Exists
    /\ pending # NoUser
    /\ u \in {proposer, pending} \/ May(u, {"admin"})
    /\ pending' = NoUser /\ proposer' = NoUser
    /\ history' = Versioned(history, u, status, requestor)
    /\ UNCHANGED <<status, creator, requestor, rollout, removal, clocks, relation, accounts>>

----------------------------------------------------------------------------
(* Recertification, on an open item of an open campaign. *)

RecertRoles == {"architect", "operations", "change_approver"}

ConfirmItem(u) ==
    /\ May(u, RecertRoles)
    /\ status \in InForce
    /\ validity' \in {validity} \cup ({"future"} \cap Dates)
    /\ history' = Versioned(history, u, status, requestor)
    /\ UNCHANGED <<status, parties, rollout, removal, due, relation, accounts>>

ReworkItem(u) ==
    /\ May(u, RecertRoles)
    /\ status \in InForce
    /\ status' = "in_review"
    /\ history' = Versioned(history, u, "in_review", requestor)
    /\ UNCHANGED <<parties, rollout, removal, clocks, relation, accounts>>

RetireItem(u) ==
    /\ May(u, RecertRoles)
    /\ status \in InForce
    /\ status' = "deactivated"
    /\ impl' = ToRemove(impl, comps, {})
    /\ history' = Versioned(history, u, "deactivated", requestor)
    /\ UNCHANGED <<parties, comps, removal, clocks, relation, accounts>>

----------------------------------------------------------------------------
(* Zone matrix and network registry, at the second approval of a request.  *)

\* A cell set to Block, a segment cell set to Block or a zone switched to
\* default-deny sends the relation's rules in force back into review.
BlockRelation(u) ==
    /\ May(u, {"change_approver"})
    /\ status \in InForce
    /\ relation' \in Relations \cap {"block", "deny"}
    /\ status' = "in_review"
    /\ history' = Versioned(history, u, "in_review", requestor)
    /\ UNCHANGED <<parties, rollout, removal, clocks, accounts>>

\* _apply_reassessment(): a moved network puts the rule on another relation.
\* It asks the zone matrix and the BSI firewall only, so a segment relation or a
\* lapsed baseline may stay unnoticed.
MovedInadmissible(u) ==
    /\ May(u, {"change_approver"})
    /\ status \in InForce \cup Open
    /\ relation' \in Relations
    /\ removal' = TRUE
    /\ status' = "in_review"
    /\ history' = Versioned(history, u, "in_review", requestor)
    /\ UNCHANGED <<parties, rollout, clocks, accounts>>

MovedAdmissible(u) ==
    /\ May(u, {"change_approver"})
    /\ status \in InForce \cup Open
    /\ relation' \in Relations \ {"block"}
    /\ removal' = FALSE
    /\ history' = Versioned(history, u, status, requestor)
    /\ UNCHANGED <<status, parties, rollout, clocks, accounts>>

----------------------------------------------------------------------------
(* Background jobs. *)

\* Slip: rules that are implemented everywhere do not expire.
ExpiredUnlessActive == status = "approved" /\ validity = "past"

\* expiring_rules(), the part that has expired.
Expired == status \in InForce /\ validity = "past"

ExpireRules ==
    /\ Expired
    /\ status' = "deactivated"
    /\ history' = AutoVersioned(history, System)
    /\ UNCHANGED <<parties, rollout, removal, clocks, relation, accounts>>

\* Slip: a proposed removal stops the clock.
OverdueUnlessProposed == status = "in_review" /\ due = "overdue" /\ ~removal

\* Only an emergency change that is still under review runs out.
EmergencyOverdue == status = "in_review" /\ due = "overdue"

ExpireEmergencyRules ==
    /\ EmergencyOverdue
    /\ status' = "deactivated"
    /\ due' = "none"
    /\ impl' = ToRemove(impl, comps, {})
    /\ history' = AutoVersioned(history, System)
    /\ UNCHANGED <<parties, comps, removal, validity, relation, accounts>>

----------------------------------------------------------------------------
(* What happens around the rule without a version of it. *)

DayPasses ==
    /\ Exists /\ validity = "future" /\ validity' = "past"
    /\ UNCHANGED <<status, parties, rollout, removal, due, relation, history, accounts>>

WindowPasses ==
    /\ Exists /\ due = "running" /\ due' = "overdue"
    /\ UNCHANGED <<status, parties, rollout, removal, validity, relation, history, accounts>>

\* A matrix decision that finds no rule in force on the relation.
DecideRelation ==
    /\ Exists /\ status \notin InForce
    /\ relation' \in Relations \cap {"allow", "block", "deny"}
    /\ UNCHANGED <<status, parties, rollout, removal, clocks, history, accounts>>

\* An Allow decision, or one of the direct edits that move the verdict without
\* visiting the rules: zone_matrix_default, a zone's P-A-P level, a new segment.
RelationDrifts ==
    /\ Exists
    /\ relation' \in Relations \ {"block"}
    /\ UNCHANGED <<status, parties, rollout, removal, clocks, history, accounts>>

DisableAccount ==
    /\ \E u \in accounts \cap Leavers : accounts' = accounts \ {u}
    /\ UNCHANGED <<status, parties, rollout, removal, clocks, relation, history>>

EnableAccount ==
    /\ \E u \in Leavers \ accounts : accounts' = accounts \cup {u}
    /\ UNCHANGED <<status, parties, rollout, removal, clocks, relation, history>>

----------------------------------------------------------------------------
\* Steps that write a version in an account's name, in the background jobs'
\* name, and steps that write none.
Handler(u) ==
    \/ CreateRule(u) \/ DeclareEmergency(u)
    \/ UpdateRule(u) \/ RestoreVersion(u)
    \/ PropagateAddress(u) \/ RecheckResets(u) \/ RecheckKeeps(u)
    \/ SubmitForReview(u) \/ ApproveRule(u) \/ ApproveRemoval(u) \/ Reject(u)
    \/ Deactivate(u) \/ DeleteRule(u) \/ RetireApplication(u)
    \/ SetImplStatus(u) \/ ExtendValidity(u) \/ SetChangeId(u)
    \/ ProposeHandover(u) \/ ConfirmHandover(u) \/ CancelHandover(u)
    \/ ConfirmItem(u) \/ ReworkItem(u) \/ RetireItem(u)
    \/ BlockRelation(u) \/ MovedInadmissible(u) \/ MovedAdmissible(u)

Job == ExpireRules \/ ExpireEmergencyRules

Environment ==
    \/ DayPasses \/ WindowPasses \/ DecideRelation \/ RelationDrifts
    \/ DisableAccount \/ EnableAccount

Next == (\E u \in Users : Handler(u)) \/ Job \/ Environment

Spec == Init /\ [][Next]_vars

\* The clocks run and the two jobs are loops that survive every exception.
Fairness ==
    /\ WF_vars(DayPasses) /\ WF_vars(WindowPasses)
    /\ WF_vars(ExpireRules) /\ WF_vars(ExpireEmergencyRules)

FairSpec == Spec /\ Fairness

----------------------------------------------------------------------------
(* Properties. *)

\* Every variable holds a value the columns of the rule can hold.
TypeOK ==
    /\ status \in Status
    /\ creator \in Users \cup {NoUser} /\ requestor \in Users \cup {NoUser}
    /\ pending \in Users \cup {NoUser} /\ proposer \in Users \cup {NoUser}
    /\ comps \in SUBSET Components /\ impl \in [Components -> ImplStatus]
    /\ removal \in BOOLEAN /\ due \in Window /\ validity \in ValidUntil
    /\ relation \in Verdict
    /\ history \in Histories
    /\ accounts \in SUBSET Users

\* A rule is "active" exactly when it is in force and implemented on all of its
\* components, whichever handler changed the rule, its components or their
\* rollout state last.
RolloutMatchesStatus ==
    status \in InForce => (status = "active" <=> FullyImplemented(comps, impl))

\* No rule stands in force on a relation the zone matrix sets to Block: the
\* approval asks the matrix, and the decision that sets the cell finds the rules
\* already in force.
InForceNotBlocked == status \in InForce => relation # "block"

\* A proposal to remove the rule is decided before the rule is in force again:
\* no path back into force leaves it standing.
NoRemovalProposalInForce == removal => status \notin InForce

\* An emergency window that is still open belongs to a rule nobody has decided
\* on: every decision, by a person or by the clock, closes it.
OpenWindowIsUndecided == due # "none" => status \in Open \cup {"deleted"}

\* accounts_involved() never judges a rule under review by its fallback for
\* records without versions: the open cycle names somebody, and the last status
\* it reads is not a closed one.
UnderReviewHasWriters ==
    status = "in_review" => history.writers \cap Users # {} /\ ~history.closed

\* A rule that is in force although its validity has ended does not stay so: the
\* expiry job deactivates it unless somebody prolongs or changes it first.
ExpiredRuleLeavesForce ==
    (status \in InForce /\ validity = "past") ~> ~(status \in InForce /\ validity = "past")

\* An emergency change under review does not wait for ever: it is decided, or
\* taken out of review, or the clock deactivates it.
EmergencyLeavesReview ==
    (status = "in_review" /\ due # "none") ~> (status # "in_review" \/ due = "none")

=============================================================================
