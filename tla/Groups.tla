------------------------------- MODULE Groups -------------------------------
(***************************************************************************)
(* The inventory of workloads and the address groups built on it.          *)
(*                                                                         *)
(* An address entry is an IP or a network; here it is the set of hosts it  *)
(* covers.  A label is one key with its value; a selector is a conjunction *)
(* of labels that must be there and labels that must not.                  *)
(***************************************************************************)
EXTENDS Integers, FiniteSets

CONSTANTS
    Networks,      \* address entries, as sets of hosts
    Labels,
    Workloads,     \* names of workloads
    Imports,       \* workloads that NetBox maintains, the others are manual
    Groups         \* names of groups

ASSUME GroupsAssumption ==
    /\ {} \notin Networks /\ IsFiniteSet(Networks)
    /\ \A n \in Networks : IsFiniteSet(n)
    /\ Imports \subseteq Workloads

VARIABLES
    workload,      \* the inventory: addresses and labels of a workload
    group          \* a group's definition

inventory == <<workload, group>>

Absent == [kind |-> "absent"]

Workload == [kind : {"workload"}, at : SUBSET Networks, labels : SUBSET Labels]

Selector == [kind : {"selector"}, has : SUBSET Labels, lacks : SUBSET Labels]
Static   == [kind : {"static"}, workloads : SUBSET Workloads, networks : SUBSET Networks]

Present(w) == workload[w] # Absent

\* selector_matches().
Matches(labels, sel) == sel.has \subseteq labels /\ sel.lacks \cap labels = {}

\* resolve_group(), the selector: every workload whose labels satisfy it.
Selected(def) == {w \in Workloads : Present(w) /\ Matches(workload[w].labels, def)}

\* resolve_group(): a static group is what was listed; a workload that does not
\* exist adds nothing.
Resolve(g) ==
    LET def == group[g]
        of(W) == UNION {workload[w].at : w \in W}
    IN  CASE def.kind = "selector" -> of(Selected(def))
          [] def.kind = "static"   -> of({w \in def.workloads : Present(w)}) \cup def.networks
          [] def.kind = "absent"   -> {}

\* Slip: the workload's labels before the change do not count.
AffectedNow(before, after) ==
    {g \in Groups : group[g].kind = "selector" /\ after # Absent /\ Matches(after.labels, group[g])}

\* groups_affected_by_labels().
AffectedByLabels(before, after) ==
    {g \in Groups : group[g].kind = "selector" /\
        \/ before # Absent /\ Matches(before.labels, group[g])
        \/ after # Absent /\ Matches(after.labels, group[g])}

\* groups_listing_workload().
Listing(w) == {g \in Groups : group[g].kind = "static" /\ w \in group[g].workloads}

\* The most specific entry of C that covers n: the one lookup behind zones,
\* components and segments.
Covering(n, C) == {c \in C : n \subseteq c}
MostSpecific(n, C) ==
    LET covering == Covering(n, C)
    IN  CHOOSE c \in covering : \A d \in covering : Cardinality(c) <= Cardinality(d)

=============================================================================
