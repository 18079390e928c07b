---------------------------- MODULE RuleRegister ----------------------------
(***************************************************************************)
(* The register of rules and its recertification campaigns as a reader of  *)
(* the handlers expects them to behave: every handler as one step, from    *)
(* what it reads to what it stores.                                        *)
(*                                                                         *)
(* RuleTransactions runs the same handlers in overlapping sessions.        *)
(***************************************************************************)
EXTENDS Naturals

CONSTANTS
    Rules,         \* rules of the register
    Named,         \* the rules that name the address object
    Campaigns,     \* campaigns that may be started
    Addresses,     \* what the address object may stand for
    MaxVersion     \* bound on the versions of each rule

ASSUME RegisterAssumption ==
    /\ Named \subseteq Rules
    /\ MaxVersion \in [Rules -> Nat]

InForce == {"approved", "active"}
Status  == InForce \cup {"draft", "in_review", "rejected", "deactivated", "deleted"}

VARIABLES
    rows,        \* what a rule's row holds
    address,     \* what the address object stands for
    campaign,    \* a campaign: not started, open, closed
    item         \* the decision on a rule in a campaign

register == <<rows, address, campaign, item>>

\* The columns that matter: the version, the status, the content by the version
\* that wrote it, the content an approval was given for, and the address the
\* rule carries for the object it names.
Row == [version : Nat, status : Status, content : Nat, vetted : Nat, address : Addresses]

Decisions == {"confirmed", "rework", "retired"}
Undecided == {"none", "open"}

RegisterInit ==
    /\ address \in Addresses
    /\ rows \in [Rules -> {[version |-> 0, status |-> s, content |-> 0, vetted |-> 0,
                            address |-> address] : s \in {"in_review", "active"}}]
    /\ campaign = [c \in Campaigns |-> "absent"]
    /\ item = [c \in Campaigns |-> [r \in Rules |-> "none"]]

Live(r) == rows[r].status # "deleted"

----------------------------------------------------------------------------
(* What a handler makes of one row: the rows it may leave behind, none when  *)
(* it refuses.                                                               *)

Bumped(row, st) == [row EXCEPT !.version = @ + 1, !.status = st]

\* Slip: a value that is not a status.
ResetToNew(st) == IF st \in InForce \cup {"rejected"} THEN "new" ELSE st

\* What was approved was the old content.
Reset(st) == IF st \in InForce \cup {"rejected"} THEN "draft" ELSE st

\* Slip: a rule that is not in force is edited without a version.
EditedInPlace(row) ==
    IF row.status \in InForce
    THEN {[Bumped(row, "draft") EXCEPT !.content = row.version + 1]}
    ELSE {[row EXCEPT !.content = row.version + 1]}

\* New content, with the address it carries for the object.
Rewritten(row, st, a) == [Bumped(row, st) EXCEPT !.content = row.version + 1, !.address = a]

\* update_rule(), restore_version(): with the address the client last saw.
Edited(row) ==
    {Rewritten(row, st, a) : st \in {Reset(row.status), "draft"}, a \in Addresses}

\* Slip: only what is in force has to follow the object.
NamingInForce == {r \in Named : rows[r].status \in InForce}

\* active_rules(): the rules that carry the object's name.
Naming == {r \in Named : Live(r)}

\* propagate_ip_change(), resync_groups().
Moved(row, a) == Rewritten(row, Reset(row.status), a)

\* approve() puts the rule into force, or out of it when a removal is due.
Approved(row) ==
    {[Bumped(row, "approved") EXCEPT !.vetted = row.content], Bumped(row, "deactivated")}

\* Rollout reports move a rule between approved and active.
Reported(row) ==
    {Bumped(row, st) : st \in IF row.status \in InForce THEN InForce ELSE {row.status}}

Kinds == {"edit", "submit", "approve", "reject", "deactivate", "delete", "report", "note"}

\* The handlers of a single rule.  "note" stands for those that touch neither
\* the status nor the content: validity, change id, handover.
After(kind, row) ==
    IF row.status = "deleted" THEN {}
    ELSE CASE kind = "edit" -> Edited(row)
           [] kind = "submit" /\ row.status \in {"draft", "rejected"} -> {Bumped(row, "in_review")}
           [] kind = "approve" /\ row.status = "in_review" -> Approved(row)
           [] kind = "reject" /\ row.status = "in_review" -> {Bumped(row, "rejected")}
           [] kind = "deactivate" -> {Bumped(row, "deactivated")}
           [] kind = "delete" -> {Bumped(row, "deleted")}
           [] kind = "report" -> Reported(row)
           [] kind = "note" -> {Bumped(row, row.status)}
           [] OTHER -> {}

\* The handlers of every rule in force they find: a retired application and a
\* relation set to Block send them into review, the daily job ends those whose
\* validity has run out.
Sweeps == {"recall", "expire"}
Swept(kind, row) == Bumped(row, IF kind = "expire" THEN "deactivated" ELSE "in_review")

\* Slip: a confirmation is noted on the item alone.
ConfirmedQuietly(d, row) ==
    CASE d = "confirmed" -> row
      [] d = "rework"    -> Bumped(row, "in_review")
      [] d = "retired"   -> Bumped(row, "deactivated")

\* What a campaign's decision makes of its rule.
Recertified(d, row) ==
    CASE d = "confirmed" -> Bumped(row, row.status)
      [] d = "rework"    -> Bumped(row, "in_review")
      [] d = "retired"   -> Bumped(row, "deactivated")

----------------------------------------------------------------------------
(* The handlers as single steps. *)

HandleRule(kind, r) ==
    /\ \E new \in After(kind, rows[r]) : rows' = [rows EXCEPT ![r] = new]
    /\ UNCHANGED <<address, campaign, item>>

\* Rules that come into force while the handler runs may escape it.
Sweep(kind, S) ==
    /\ S # {} /\ \A r \in S : rows[r].status \in InForce
    /\ rows' = [r \in Rules |-> IF r \in S THEN Swept(kind, rows[r]) ELSE rows[r]]
    /\ UNCHANGED <<address, campaign, item>>

MoveAddress(a) ==
    /\ address' = a
    /\ rows' = [r \in Rules |-> IF r \in Naming THEN Moved(rows[r], a) ELSE rows[r]]
    /\ UNCHANGED <<campaign, item>>

StartCampaign(c, S) ==
    /\ campaign[c] = "absent" /\ S # {}
    /\ campaign' = [campaign EXCEPT ![c] = "open"]
    /\ item' = [item EXCEPT ![c] = [r \in Rules |-> IF r \in S THEN "open" ELSE "none"]]
    /\ UNCHANGED <<rows, address>>

\* A campaign that is closed while the decision is under way still takes it.
DecideItem(c, r, d) ==
    /\ item[c][r] = "open"
    /\ rows[r].status \in InForce
    /\ item' = [item EXCEPT ![c][r] = d]
    /\ rows' = [rows EXCEPT ![r] = Recertified(d, @)]
    /\ UNCHANGED <<address, campaign>>

CloseCampaign(c) ==
    /\ campaign[c] = "open"
    /\ campaign' = [campaign EXCEPT ![c] = "closed"]
    /\ UNCHANGED <<rows, address, item>>

Handled ==
    \/ \E r \in Rules, kind \in Kinds : HandleRule(kind, r)
    \/ \E S \in SUBSET Rules, kind \in Sweeps : Sweep(kind, S)
    \/ \E a \in Addresses : MoveAddress(a)
    \/ \E c \in Campaigns, S \in SUBSET Rules : StartCampaign(c, S)
    \/ \E c \in Campaigns, r \in Rules, d \in Decisions : DecideItem(c, r, d)
    \/ \E c \in Campaigns : CloseCampaign(c)

RegisterNext == register' # register /\ Handled

\* The order of the handlers' steps as they take effect: the promise of the
\* register, which RuleTransactions has to keep.
SerialSpec == RegisterInit /\ [][RegisterNext]_register

=============================================================================
