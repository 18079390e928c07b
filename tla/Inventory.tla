----------------------------- MODULE Inventory -----------------------------
(***************************************************************************)
(* Rules that refer to groups: how a change of the inventory, of a group   *)
(* or of the segment matrix reaches them.                                  *)
(*                                                                         *)
(* A rule stores the addresses its groups had when it was written.  A      *)
(* handler that moves a group's membership expands the groups of every     *)
(* rule that refers to it again, checks each as an edit would be checked,  *)
(* and applies the change to all of them or to none.  Handlers are single  *)
(* steps (RuleTransactions shows how sessions overlap), except the import, *)
(* which commits the inventory before it turns to the rules.               *)
(***************************************************************************)
EXTENDS Segments

CONSTANTS
    Rules,
    Refs,              \* per rule and side the groups and the plain entries it names
    ZoneAt,            \* zone_networks: the zone of some networks
    SegmentedZone,     \* the zone that has the segments
    Behind,            \* address_component_map: the components of some networks
    Firewalls,         \* components that are firewalls
    Permitted,         \* the pairs of zones the zone matrix permits
    Shapes,            \* per workload the states it may take in this instance
    Definitions        \* per group the definitions it may take in this instance

Sides == {"source", "destination"}

ASSUME InventoryAssumption ==
    /\ DOMAIN ZoneAt \subseteq Networks /\ DOMAIN Behind \subseteq Networks
    /\ \A r \in Rules, side \in Sides :
          Refs[r][side].groups \subseteq Groups /\ Refs[r][side].plain \subseteq Networks
    /\ \A w \in Workloads : Shapes[w] \subseteq Workload
    /\ \A g \in Groups : Definitions[g] \subseteq Selector \cup Static

InForce == {"approved", "active"}
Status  == {"absent", "draft", "in_review", "deactivated"} \cup InForce

VARIABLES
    status,        \* Rule.status
    members,       \* Rule.source and Rule.destination, expanded
    zone,          \* Rule.source_zone and Rule.destination_zone
    snapshot,      \* the addresses in the newest version that carries a snapshot
    importing,     \* an import has committed the inventory, not yet the rules
    left,          \* bookkeeping: rules a handler has left behind their groups
    restored,      \* bookkeeping: rules with the addresses of an earlier day
    adrift         \* bookkeeping: rules that have come to lie in other segments unasked

rules == <<status, members, zone, snapshot, left, restored, adrift>>
vars  == <<inventory, matrix, rules, importing>>

Live(r) == status[r] # "absent"
Standing(r) == status[r] \in InForce

GroupsOf(r) == UNION {Refs[r][side].groups : side \in Sides}

----------------------------------------------------------------------------
(* The checks every address list of a rule faces. *)

\* expand_entries(): plain entries, and the members of every group.
Expanded(r) ==
    [side \in Sides |-> Refs[r][side].plain \cup UNION {Resolve(g) : g \in Refs[r][side].groups}]

\* A group that does not exist or has no members is a problem.
Expandable(r) == \A g \in GroupsOf(r) : Resolve(g) # {}

\* resolve_zone_for_entries(), find_mapping(): the most specific network decides.
Zones(A) == {ZoneAt[MostSpecific(n, DOMAIN ZoneAt)] : n \in {m \in A : Covering(m, DOMAIN ZoneAt) # {}}}
Assigned(A) == \A n \in A : Covering(n, DOMAIN ZoneAt) # {}
Mapped(A)   == \A n \in A : Covering(n, DOMAIN Behind) # {}
ZoneOf(A)   == IF Zones(A) = {} THEN "none" ELSE CHOOSE z \in Zones(A) : TRUE

\* resolve_rule_components(): what enforces the rule, by kind when that leaves
\* anything: micro-segmentation inside a zone, firewalls between zones.
ComponentsFor(A, inside) ==
    LET all  == UNION {Behind[MostSpecific(n, DOMAIN Behind)] : n \in A}
        kind == IF inside THEN all \ Firewalls ELSE all \cap Firewalls
    IN  IF kind = {} THEN all ELSE kind

\* check_rule_pair(): the zone matrix, and inside the segmented zone its own.
PairAllowed(m) ==
    LET src == ZoneOf(m.source)
        dst == ZoneOf(m.destination)
    IN  IF src # dst THEN <<src, dst>> \in Permitted
        ELSE src = SegmentedZone => SegmentVerdict(m.source, m.destination)

\* reassess() without a reason to refuse; the same checks in the same order on
\* every path that writes a rule.
Admissible(m) ==
    /\ \A side \in Sides : Assigned(m[side]) /\ Cardinality(Zones(m[side])) = 1
    /\ Mapped(m.source \cup m.destination)
    /\ LET inside == ZoneOf(m.source) = ZoneOf(m.destination)
           comps  == ComponentsFor(m.source \cup m.destination, inside)
       IN  comps # {} /\ (inside \/ comps \cap Firewalls # {})
    /\ PairAllowed(m)

Passes(r) == Expandable(r) /\ Admissible(Expanded(r))

----------------------------------------------------------------------------
(* Resynchronisation. *)

\* The zones of a rule that passes.
ZonesOf(m) == [side \in Sides |-> ZoneOf(m[side])]

\* rules_referencing().
Referring(names) == {r \in Rules : Live(r) /\ GroupsOf(r) \cap names # {}}

\* Slip: the rule takes the word that is its components'.
RolledOutAgain(r, reset) ==
    IF Standing(r) /\ reset THEN "draft" ELSE IF status[r] = "active" THEN "to change" ELSE status[r]

\* rule_recheck.apply(), the status: what somebody changed, and what comes to lie
\* in another zone, withdraws the approval; what merely moved has to be rolled
\* out again.
Rechecked(r, reset) ==
    IF Standing(r) /\ (reset \/ ZonesOf(Expanded(r))' # zone[r]) THEN "draft"
    ELSE IF status[r] = "active" THEN "approved" ELSE status[r]

\* Slip: a rule that no longer passes is not looked at again.
Expands(names) == \A r \in Referring(names) : Expandable(r)'

\* One rule that would not pass refuses the whole change.
AllPass(names) ==
    \A r \in Referring(names) :
        Expandable(r)' /\ (Expanded(r)' # members[r] => Passes(r)')

\* Where a rule's sides lie in the segments.
Place(r) == [side \in Sides |-> Spread(members[r][side])]

\* Bookkeeping: the boundaries have moved in this step; the rules of C are checked.
Drift(C) == adrift' = (adrift \cup {r \in Rules : Place(r)' # Place(r)}) \ C

\* resync_groups() after the inventory or a group has changed in this step; the
\* rules that only name the groups `unseen' stay as they are.
Resync(names, reset, unseen) ==
    LET moved == {r \in Referring(names) : Expanded(r)' # members[r]}
    IN  /\ AllPass(names)
        /\ status'  = [r \in Rules |-> IF r \in moved THEN Rechecked(r, reset) ELSE status[r]]
        /\ members' = [r \in Rules |-> IF r \in moved THEN Expanded(r)' ELSE members[r]]
        /\ zone'    = [r \in Rules |-> IF r \in moved THEN ZonesOf(members[r])' ELSE zone[r]]
        /\ left' = (left \cup Referring(unseen)) \ Referring(names)
        /\ restored' = restored \ moved
        /\ Drift(moved)
        /\ UNCHANGED snapshot

----------------------------------------------------------------------------
Init ==
    /\ workload = [w \in Workloads |-> Absent]
    /\ group = [g \in Groups |-> Absent]
    /\ segment = [s \in Segments |-> "none"]
    /\ cell = [p \in Segments \X Segments |-> "none"]
    /\ intra = "none" /\ requested = "none"
    /\ status = [r \in Rules |-> "absent"]
    /\ members = [r \in Rules |-> [side \in Sides |-> {}]]
    /\ zone = [r \in Rules |-> [side \in Sides |-> "none"]]
    /\ snapshot = members
    /\ importing = FALSE /\ left = {} /\ restored = {} /\ adrift = {}

(* The inventory: what operations enters, and what NetBox knows. *)

\* create_workload(): a static group that already lists the name is not looked
\* for, and the rules that name it stay behind.
CreateWorkload(w, shape) ==
    /\ ~Present(w) /\ w \notin Imports
    /\ workload' = [workload EXCEPT ![w] = shape]
    /\ UNCHANGED <<group, matrix, importing>>
    /\ Resync(AffectedByLabels(Absent, shape), FALSE, Listing(w))

\* update_workload()
UpdateWorkload(w, shape) ==
    /\ Present(w) /\ shape # workload[w]
    /\ workload' = [workload EXCEPT ![w] = shape]
    /\ UNCHANGED <<group, matrix, importing>>
    /\ Resync(AffectedByLabels(workload[w], shape) \cup Listing(w), FALSE, {})

\* delete_workload()
DeleteWorkload(w) ==
    /\ Present(w)
    /\ workload' = [workload EXCEPT ![w] = Absent]
    /\ UNCHANGED <<group, matrix, importing>>
    /\ Resync(AffectedByLabels(workload[w], Absent) \cup Listing(w), FALSE, {})

\* What an import may find.
Found ==
    {found \in [Imports -> UNION {Shapes[w] : w \in Imports} \cup {Absent}] :
        \A w \in Imports : found[w] \in Shapes[w] \cup {Absent}}

\* import_workloads() adds, updates and removes what NetBox maintains, and
\* commits: until the second commit every rule with a group is behind.
ImportWorkloads(shapes) ==
    /\ ~importing
    /\ shapes # [w \in Imports |-> workload[w]]
    /\ workload' = [w \in Workloads |-> IF w \in Imports THEN shapes[w] ELSE workload[w]]
    /\ importing' = TRUE
    /\ UNCHANGED <<group, matrix>>
    /\ Resync({}, FALSE, Groups)

\* run_workload_import() brings every rule up to date ...
ImportResync ==
    /\ importing /\ importing' = FALSE
    /\ UNCHANGED <<inventory, matrix>>
    /\ Resync(Groups, FALSE, {})

\* ... unless one of them would not pass, or the process stops: the inventory
\* stays as imported.
ImportRefused ==
    /\ importing /\ importing' = FALSE
    /\ UNCHANGED <<inventory, matrix, rules>>

----------------------------------------------------------------------------
(* Groups. *)

CreateGroup(g, def) ==
    /\ group[g] = Absent
    /\ group' = [group EXCEPT ![g] = def]
    /\ UNCHANGED <<workload, matrix, rules, importing>>

\* update_group(): what a group means is a content change to every rule using it.
UpdateGroup(g, def) ==
    /\ group[g] # Absent /\ def # group[g]
    /\ group' = [group EXCEPT ![g] = def]
    /\ UNCHANGED <<workload, matrix, importing>>
    /\ Resync({g}, TRUE, {})

Free(g) == Referring({g}) = {}

\* delete_group(); a segment's group is held by the foreign key.
DeleteGroup(g) ==
    /\ group[g] # Absent /\ Free(g)
    /\ \A s \in Segments : segment[s] # g
    /\ group' = [group EXCEPT ![g] = Absent]
    /\ UNCHANGED <<workload, matrix, rules, importing>>

----------------------------------------------------------------------------
(* Segments and the matrix between them. *)

\* What a segment's handlers leave alone; the boundaries may move under a rule.
Redrawn(unasked) ==
    /\ UNCHANGED <<inventory, requested, members, zone, snapshot, left, restored, importing>>
    /\ adrift' = adrift \cup unasked \cup {r \in Rules : Place(r)' # Place(r)}

\* _group_in_zone(), and no other segment has the group.
FitsZone(g) ==
    /\ Resolve(g) # {}
    /\ Assigned(Resolve(g)) /\ Zones(Resolve(g)) = {SegmentedZone}
    /\ \A s \in Segments : segment[s] # g

Inside(r) == zone[r] = [side \in Sides |-> SegmentedZone]

\* rules_touching_segment().
TouchedBy(s) ==
    {r \in Rules : Standing(r) /\ Inside(r) /\ Touches(s, members[r].source, members[r].destination)}

\* Bookkeeping: a default that was turned to deny when there was no segment left
\* reaches the rules of the zone with the next one, and they are not asked.
DeniedUnasked ==
    IF Existing = {} /\ Denies THEN {r \in Rules : Standing(r) /\ Inside(r)} ELSE {}

CreateSegment(s, g) ==
    /\ segment[s] = "none" /\ FitsZone(g)
    /\ segment' = [segment EXCEPT ![s] = g]
    /\ UNCHANGED <<cell, intra, status>>
    /\ Redrawn(DeniedUnasked)

\* update_segment() with another group: only the old boundary is asked.
SwapGroup(s, g) ==
    /\ segment[s] # "none" /\ FitsZone(g)
    /\ TouchedBy(s) = {}
    /\ segment' = [segment EXCEPT ![s] = g]
    /\ UNCHANGED <<cell, intra, status>>
    /\ Redrawn({})

\* Slip: a deleted segment leaves its cells, and the zone its default.
Emptied(s) == UNCHANGED <<cell, intra>>

\* The cells of a deleted segment go with it, and with the last one the default.
Cleared(s) ==
    /\ cell' = [p \in DOMAIN cell |-> IF s \in {p[1], p[2]} THEN "none" ELSE cell[p]]
    /\ intra' = IF Existing = {s} THEN "none" ELSE intra

\* delete_segment()
DeleteSegment(s) ==
    /\ segment[s] # "none" /\ TouchedBy(s) = {}
    /\ segment' = [segment EXCEPT ![s] = "none"]
    /\ Cleared(s)
    /\ UNCHANGED status
    /\ Redrawn({})

\* Slip: a Block sends only the active rules back.
ActiveOn(s, t) ==
    {r \in Rules : status[r] = "active" /\ Inside(r)
                  /\ OnRelation(s, t, members[r].source, members[r].destination)}

\* affected_intra_rules(): the rules in force a Block from s to t concerns, and
\* those a default turned to deny does.
BlockedBy(s, t) ==
    {r \in Rules : Standing(r) /\ Inside(r)
                  /\ OnRelation(s, t, members[r].source, members[r].destination)}

DeniedBy ==
    {r \in Rules : Standing(r) /\ Inside(r)
                  /\ Unmaintained(members[r].source, members[r].destination)}

\* A rule to be reassessed goes back into review.
SentBack(R) ==
    /\ status' = [r \in Rules |-> IF r \in R THEN "in_review" ELSE status[r]]
    /\ snapshot' = [r \in Rules |-> IF r \in R THEN members[r] ELSE snapshot[r]]
    /\ UNCHANGED <<inventory, segment, members, zone, left, restored, importing>>

\* An approved request for a cell of the segment matrix.  The approval asks again
\* whether both segments exist, so that it may as well be one step with the filing.
SetCell(s, t, policy) ==
    /\ {s, t} \subseteq Existing /\ s # t /\ policy # cell[<<s, t>>]
    /\ cell' = [cell EXCEPT ![<<s, t>>] = policy]
    /\ SentBack(IF policy = "block" THEN BlockedBy(s, t) ELSE {})
    /\ UNCHANGED <<intra, requested, adrift>>

\* _segment_change(): only the filing of a request for the zone's default asks
\* whether the zone has segments.
RequestDefault(default) ==
    /\ requested = "none" /\ Existing # {}
    /\ default # (IF Denies THEN "deny" ELSE "permit")
    /\ requested' = default
    /\ UNCHANGED <<inventory, segment, cell, intra, rules, importing>>

RejectDefault ==
    /\ requested # "none"
    /\ requested' = "none"
    /\ UNCHANGED <<inventory, segment, cell, intra, rules, importing>>

\* Bookkeeping: a side that lies partly in one segment and partly in none resolves
\* to that segment, and a default turned to deny does not find the rule.
PartlyOutside ==
    {r \in Rules : /\ Standing(r) /\ Inside(r) /\ r \notin DeniedBy
                   /\ \E side \in Sides : Unsegmented(members[r][side])}

\* _decide_change(): the second approval, whatever has become of the segments.
SetDefault ==
    /\ requested # "none"
    /\ intra' = requested /\ requested' = "none"
    /\ SentBack(IF requested = "deny" THEN DeniedBy ELSE {})
    /\ adrift' = adrift \cup (IF requested = "deny" THEN PartlyOutside ELSE {})
    /\ UNCHANGED cell

----------------------------------------------------------------------------
(* Rules. *)

\* What is written to a rule: the addresses, and the zones and status with them.
Stored(r, m, z, st) ==
    /\ status' = [status EXCEPT ![r] = st]
    /\ members' = [members EXCEPT ![r] = m]
    /\ zone' = [zone EXCEPT ![r] = z]
    /\ snapshot' = [snapshot EXCEPT ![r] = m]
    /\ UNCHANGED <<inventory, matrix, importing>>

\* create_rule() and update_rule(): the groups are expanded, everything is
\* checked, and what was in force is a draft again.
WriteRule(r) ==
    /\ Passes(r)
    /\ Stored(r, Expanded(r), ZonesOf(Expanded(r)),
              IF Standing(r) \/ ~Live(r) THEN "draft" ELSE status[r])
    /\ left' = left \ {r} /\ restored' = restored \ {r} /\ adrift' = adrift \ {r}

\* restore_version(): the checks are about the groups of today, the addresses
\* written are those of the version.
RestoreVersion(r) ==
    /\ Live(r) /\ Passes(r)
    /\ Stored(r, snapshot[r], ZonesOf(Expanded(r)), "draft")
    /\ LET aged == IF snapshot[r] # Expanded(r) THEN {r} ELSE {}
       IN  /\ left' = (left \ {r}) \cup aged
           /\ restored' = (restored \ {r}) \cup aged
           /\ adrift' = (adrift \ {r}) \cup aged

Submit(r) ==
    /\ status[r] = "draft"
    /\ Stored(r, members[r], zone[r], "in_review")
    /\ UNCHANGED <<left, restored, adrift>>

\* check_rule_pair() on what the rule has stored.
StoredVerdict(r) ==
    IF zone[r].source # zone[r].destination THEN <<zone[r].source, zone[r].destination>> \in Permitted
    ELSE zone[r].source = SegmentedZone => SegmentVerdict(members[r].source, members[r].destination)

\* _decide(): approving what the matrix does not admit approves its removal.
Approve(r) ==
    /\ status[r] = "in_review"
    /\ Stored(r, members[r], zone[r], IF StoredVerdict(r) THEN "approved" ELSE "deactivated")
    /\ adrift' = adrift \ {r}
    /\ UNCHANGED <<left, restored>>

\* set_impl_status(), the last component reports.
Implemented(r) ==
    /\ status[r] = "approved"
    /\ Stored(r, members[r], zone[r], "active")
    /\ UNCHANGED <<left, restored, adrift>>

----------------------------------------------------------------------------
Next ==
    \/ \E w \in Workloads :
          \/ \E shape \in Shapes[w] : CreateWorkload(w, shape) \/ UpdateWorkload(w, shape)
          \/ DeleteWorkload(w)
    \/ \E shapes \in Found : ImportWorkloads(shapes)
    \/ ImportResync
    \/ ImportRefused
    \/ \E g \in Groups :
          \/ \E def \in Definitions[g] : CreateGroup(g, def) \/ UpdateGroup(g, def)
          \/ DeleteGroup(g)
    \/ \E s \in Segments, g \in Groups : CreateSegment(s, g) \/ SwapGroup(s, g)
    \/ \E s \in Segments : DeleteSegment(s)
    \/ \E s, t \in Segments, policy \in {"allow", "block"} : SetCell(s, t, policy)
    \/ \E default \in {"permit", "deny"} : RequestDefault(default)
    \/ RejectDefault
    \/ SetDefault
    \/ \E r \in Rules :
          WriteRule(r) \/ RestoreVersion(r) \/ Submit(r) \/ Approve(r) \/ Implemented(r)

Spec == Init /\ [][Next]_vars

----------------------------------------------------------------------------
TypeOK ==
    /\ workload \in [Workloads -> Workload \cup {Absent}]
    /\ group \in [Groups -> Selector \cup Static \cup {Absent}]
    /\ segment \in [Segments -> Groups \cup {"none"}]
    /\ cell \in [Segments \X Segments -> {"none", "allow", "block"}]
    /\ {intra, requested} \subseteq {"none", "permit", "deny"}
    /\ status \in [Rules -> Status]
    /\ members \in [Rules -> [Sides -> SUBSET Networks]]
    /\ snapshot \in [Rules -> [Sides -> SUBSET Networks]]
    /\ importing \in BOOLEAN
    /\ left \cup restored \cup adrift \subseteq Rules

\* A rule is about its groups as they are: whatever sequence of inventory, group
\* and rule changes came before, no group moves without the rules that name it
\* (but for those a handler is known to leave behind).
RulesFollowGroups ==
    \A r \in Rules : Live(r) /\ r \notin left =>
        Expandable(r) /\ members[r] = Expanded(r)

\* The zones and the mapping a rule was checked for are those of the addresses it
\* has come to have: no change of the inventory puts it across two zones, not even
\* in a rule that is left behind.
AddressesAdmissible ==
    \A r \in Rules : Live(r) /\ r \notin restored =>
        /\ \A side \in Sides : Assigned(members[r][side]) /\ Zones(members[r][side]) = {zone[r][side]}
        /\ Mapped(members[r].source \cup members[r].destination)

\* What is in force is what the segment matrix admits, through every change of a
\* cell, of the default and of the segments, as long as no boundary has moved
\* under the rule since it was checked and no default has turned to deny that
\* is known not to find it.
StandingRulesAdmitted ==
    \A r \in Rules : Standing(r) /\ r \notin adrift => StoredVerdict(r)

\* The matrix speaks of segments that exist: a cell of a former segmentation does
\* not resurface when a segment of that name comes back.
NoLeftoverCells ==
    \A p \in DOMAIN cell : cell[p] # "none" => {p[1], p[2]} \subseteq Existing

----------------------------------------------------------------------------
(* What a comment of the code says, and the code does not do. *)

\* rules_router, restore_version(): the restored rule is about the group's
\* members of today, not of the day of the snapshot.
RestoredIsOfToday ==
    [][\A r \in Rules : RestoreVersion(r) => members[r]' = Expanded(r)]_vars

=============================================================================
