-------------------------- MODULE InventoryProofs --------------------------
(***************************************************************************)
(* Rules follow their groups, stay admissible, and are admitted by the     *)
(* segment matrix while they are in force: the invariant of Inventory and  *)
(* its properties, for any inventory, groups, segments and rules.          *)
(***************************************************************************)
EXTENDS Inventory, FiniteSetTheorems, WellFoundedInduction, TLAPS

InventoryType ==
    /\ workload \in [Workloads -> Workload \cup {Absent}]
    /\ group \in [Groups -> Selector \cup Static \cup {Absent}]

\* TypeOK, and zones as a table of rules and sides.
Shaped ==
    /\ TypeOK
    /\ zone = [r \in Rules |-> [side \in Sides |-> zone[r][side]]]

----------------------------------------------------------------------------
(* What groups mean. *)

\* A group's members are address entries.
LEMMA ResolveType ==
    ASSUME InventoryType, NEW g \in Groups
    PROVE  Resolve(g) \in SUBSET Networks
<1>1. \A w \in Workloads : Present(w) => workload[w].at \in SUBSET Networks
  BY DEF InventoryType, Present, Workload
<1>2. CASE group[g].kind = "selector"
  <2>1. Resolve(g) = UNION {workload[w].at : w \in Selected(group[g])}
    BY <1>2 DEF Resolve
  <2> QED BY <1>1, <2>1 DEF Selected
<1>3. CASE group[g].kind = "static"
  <2>1. group[g] \in Static
    BY <1>3 DEF InventoryType, Selector, Absent
  <2>2. group[g].networks \in SUBSET Networks /\ group[g].workloads \in SUBSET Workloads
    BY <2>1 DEF Static
  <2>3. Resolve(g) = (UNION {workload[w].at : w \in {v \in group[g].workloads : Present(v)}})
                        \cup group[g].networks
    BY <1>3 DEF Resolve
  <2> QED BY <1>1, <2>2, <2>3
<1>4. CASE group[g].kind = "absent"
  BY <1>4 DEF Resolve
<1> QED BY <1>2, <1>3, <1>4 DEF InventoryType, Selector, Static, Absent

\* A group that neither matches the labels before or after nor lists the workload
\* has the members it had.
LEMMA ResolveKeeps ==
    ASSUME InventoryType, NEW w \in Workloads, NEW new \in Workload \cup {Absent},
           workload' = [workload EXCEPT ![w] = new], group' = group,
           NEW g \in Groups, g \notin AffectedByLabels(workload[w], new), g \notin Listing(w)
    PROVE  Resolve(g)' = Resolve(g)
<1>1. \A v \in Workloads : v # w => workload'[v] = workload[v]
  BY DEF InventoryType
<1>2. workload'[w] = new
  BY DEF InventoryType
<1>3. \A v \in Workloads : v # w => (Present(v)' <=> Present(v))
  BY <1>1 DEF Present
<1>4. CASE group[g].kind = "selector"
  <2>1. /\ workload[w] # Absent => ~Matches(workload[w].labels, group[g])
        /\ new # Absent => ~Matches(new.labels, group[g])
    BY <1>4 DEF AffectedByLabels
  <2>2. w \notin Selected(group[g]) /\ w \notin Selected(group[g])'
    BY <2>1, <1>2 DEF Selected, Present
  <2>3. \A v \in Workloads : v # w => (v \in Selected(group[g])' <=> v \in Selected(group[g]))
    BY <1>1, <1>3 DEF Selected
  <2>4. Selected(group[g])' = Selected(group[g])
    BY <2>2, <2>3 DEF Selected
  <2>5. \A v \in Selected(group[g]) : workload'[v] = workload[v]
    BY <2>2, <1>1 DEF Selected
  <2>6. Resolve(g)' = UNION {workload'[v].at : v \in Selected(group[g])'}
    BY <1>4 DEF Resolve
  <2>7. Resolve(g) = UNION {workload[v].at : v \in Selected(group[g])}
    BY <1>4 DEF Resolve
  <2> QED BY <2>4, <2>5, <2>6, <2>7
<1>5. CASE group[g].kind = "static"
  <2> DEFINE L == group[g].workloads
  <2>1. w \notin L
    BY <1>5 DEF Listing
  <2>2. L \in SUBSET Workloads
    BY <1>5 DEF InventoryType, Static, Selector, Absent
  <2>3. {v \in L : Present(v)'} = {v \in L : Present(v)}
    BY <2>1, <2>2, <1>3
  <2>4. \A v \in L : workload'[v] = workload[v]
    BY <2>1, <2>2, <1>1
  <2>5. Resolve(g)' = (UNION {workload'[v].at : v \in {u \in L : Present(u)'}}) \cup group[g].networks
    BY <1>5 DEF Resolve
  <2>6. Resolve(g) = (UNION {workload[v].at : v \in {u \in L : Present(u)}}) \cup group[g].networks
    BY <1>5 DEF Resolve
  <2> HIDE DEF L
  <2> QED BY <2>3, <2>4, <2>5, <2>6
<1>6. CASE group[g].kind = "absent"
  BY <1>6 DEF Resolve
<1> QED BY <1>4, <1>5, <1>6 DEF InventoryType, Selector, Static, Absent

----------------------------------------------------------------------------
(* The columns. *)

LEMMA ResolveTyped == InventoryType => \A g \in Groups : Resolve(g) \in SUBSET Networks
BY ResolveType

LEMMA ExpandedTyped ==
    InventoryType => \A r \in Rules : Expanded(r) \in [Sides -> SUBSET Networks]
<1> SUFFICES ASSUME InventoryType, NEW r \in Rules, NEW side \in Sides
             PROVE  Refs[r][side].plain \cup UNION {Resolve(g) : g \in Refs[r][side].groups}
                        \in SUBSET Networks
  BY DEF Expanded
<1> QED BY ResolveTyped, InventoryAssumption DEF InventoryAssumption

\* A step that resynchronises writes columns the code can hold.
LEMMA ResyncType ==
    ASSUME Shaped, InventoryType', NEW names, NEW reset \in BOOLEAN, NEW unseen,
           Resync(names, reset, unseen), UNCHANGED matrix, importing' \in BOOLEAN
    PROVE  Shaped'
<1>1. \A r \in Rules : Expanded(r)' \in [Sides -> SUBSET Networks]
  <2>1. InventoryType' => (\A r \in Rules : Expanded(r) \in [Sides -> SUBSET Networks])'
    BY ExpandedTyped, PTL
  <2> QED BY <2>1
<1>2. \A r \in Rules : status[r] \in Status => Rechecked(r, reset) \in Status
  BY DEF Rechecked, Status, InForce
<1>3. status' \in [Rules -> Status]
  BY <1>2 DEF Resync, Shaped, TypeOK
<1>4. members' \in [Rules -> [Sides -> SUBSET Networks]]
  BY <1>1 DEF Resync, Shaped, TypeOK
<1>5. zone' = [r \in Rules |-> [side \in Sides |-> zone'[r][side]]]
  BY DEF Resync, Shaped, ZonesOf
<1>6. left' \cup restored' \cup adrift' \subseteq Rules
  BY DEF Resync, Shaped, TypeOK, Drift, Referring
<1>7. snapshot' \in [Rules -> [Sides -> SUBSET Networks]]
  BY DEF Resync, Shaped, TypeOK
<1> QED
  BY <1>3, <1>4, <1>5, <1>6, <1>7 DEF Shaped, TypeOK, InventoryType, matrix

LEMMA StoredType ==
    ASSUME Shaped, NEW r \in Rules, NEW m \in [Sides -> SUBSET Networks],
           NEW z, z = [side \in Sides |-> z[side]], NEW st \in Status, Stored(r, m, z, st),
           left' \cup restored' \cup adrift' \subseteq Rules
    PROVE  Shaped'
<1>1. zone' = [q \in Rules |-> [side \in Sides |-> zone'[q][side]]]
  BY DEF Stored, Shaped
<1>2. /\ status' \in [Rules -> Status]
      /\ members' \in [Rules -> [Sides -> SUBSET Networks]]
      /\ snapshot' \in [Rules -> [Sides -> SUBSET Networks]]
  BY DEF Stored, Shaped, TypeOK
<1> QED BY <1>1, <1>2 DEF Stored, Shaped, TypeOK, inventory, matrix

LEMMA RedrawnType ==
    ASSUME Shaped, NEW unasked \in SUBSET Rules, Redrawn(unasked), UNCHANGED status,
           segment' \in [Segments -> Groups \cup {"none"}],
           cell' \in [Segments \X Segments -> {"none", "allow", "block"}],
           intra' \in {"none", "permit", "deny"}
    PROVE  Shaped'
BY DEF Redrawn, Shaped, TypeOK, inventory

LEMMA SentBackType ==
    ASSUME Shaped, NEW R, SentBack(R),
           cell' \in [Segments \X Segments -> {"none", "allow", "block"}],
           {intra', requested'} \subseteq {"none", "permit", "deny"}, adrift' \subseteq Rules
    PROVE  Shaped'
<1>1. status' \in [Rules -> Status]
  BY DEF SentBack, Shaped, TypeOK, Status
<1>2. snapshot' \in [Rules -> [Sides -> SUBSET Networks]]
  BY DEF SentBack, Shaped, TypeOK
<1> QED BY <1>1, <1>2 DEF SentBack, Shaped, TypeOK, inventory

LEMMA ShapeKept == Shaped /\ [Next]_vars => Shaped'
<1> SUFFICES ASSUME Shaped, [Next]_vars PROVE Shaped'
  OBVIOUS
<1>0. InventoryType
  BY DEF Shaped, TypeOK, InventoryType
<1>1. ASSUME NEW w \in Workloads, NEW shape \in Shapes[w], CreateWorkload(w, shape)
      PROVE  Shaped'
  <2>1. InventoryType'
    BY <1>0, <1>1, InventoryAssumption DEF CreateWorkload, InventoryType, InventoryAssumption
  <2> QED BY <1>1, <2>1, ResyncType DEF CreateWorkload, Shaped, TypeOK
<1>2. ASSUME NEW w \in Workloads, NEW shape \in Shapes[w], UpdateWorkload(w, shape)
      PROVE  Shaped'
  <2>1. InventoryType'
    BY <1>0, <1>2, InventoryAssumption DEF UpdateWorkload, InventoryType, InventoryAssumption
  <2> QED BY <1>2, <2>1, ResyncType DEF UpdateWorkload, Shaped, TypeOK
<1>3. ASSUME NEW w \in Workloads, DeleteWorkload(w) PROVE Shaped'
  <2>1. InventoryType'
    BY <1>0, <1>3 DEF DeleteWorkload, InventoryType
  <2> QED BY <1>3, <2>1, ResyncType DEF DeleteWorkload, Shaped, TypeOK
<1>4. ASSUME NEW shapes \in Found, ImportWorkloads(shapes) PROVE Shaped'
  <2>1. \A w \in Imports : shapes[w] \in Workload \cup {Absent}
    BY InventoryAssumption, GroupsAssumption DEF Found, InventoryAssumption, GroupsAssumption
  <2>2. InventoryType'
    BY <1>0, <1>4, <2>1 DEF ImportWorkloads, InventoryType
  <2> QED BY <1>4, <2>2, ResyncType DEF ImportWorkloads
<1>5. CASE ImportResync
  <2>1. InventoryType'
    BY <1>0, <1>5 DEF ImportResync, InventoryType, inventory
  <2> QED BY <1>5, <2>1, ResyncType DEF ImportResync
<1>6. CASE ImportRefused
  BY <1>6 DEF ImportRefused, Shaped, TypeOK, inventory, matrix, rules
<1>7. ASSUME NEW g \in Groups, NEW def \in Definitions[g], CreateGroup(g, def)
      PROVE  Shaped'
  <2>1. InventoryType'
    BY <1>0, <1>7, InventoryAssumption DEF CreateGroup, InventoryType, InventoryAssumption
  <2> QED BY <1>7, <2>1 DEF CreateGroup, Shaped, TypeOK, InventoryType, matrix, rules
<1>8. ASSUME NEW g \in Groups, NEW def \in Definitions[g], UpdateGroup(g, def)
      PROVE  Shaped'
  <2>1. InventoryType'
    BY <1>0, <1>8, InventoryAssumption DEF UpdateGroup, InventoryType, InventoryAssumption
  <2> QED BY <1>8, <2>1, ResyncType DEF UpdateGroup, Shaped, TypeOK
<1>9. ASSUME NEW g \in Groups, DeleteGroup(g) PROVE Shaped'
  <2>1. InventoryType'
    BY <1>0, <1>9 DEF DeleteGroup, InventoryType
  <2> QED BY <1>9, <2>1 DEF DeleteGroup, Shaped, TypeOK, InventoryType, matrix, rules
<1>10. ASSUME NEW s \in Segments, NEW g \in Groups, CreateSegment(s, g) \/ SwapGroup(s, g)
       PROVE  Shaped'
  <2>1. /\ \E unasked \in SUBSET Rules : Redrawn(unasked)
        /\ UNCHANGED <<cell, intra, status>> /\ segment' = [segment EXCEPT ![s] = g]
    BY <1>10 DEF CreateSegment, SwapGroup, DeniedUnasked
  <2>2. segment' \in [Segments -> Groups \cup {"none"}]
    BY <2>1 DEF Shaped, TypeOK
  <2> QED BY <2>1, <2>2, RedrawnType DEF Shaped, TypeOK
<1>11. ASSUME NEW s \in Segments, DeleteSegment(s) PROVE Shaped'
  <2>1. segment' \in [Segments -> Groups \cup {"none"}]
    BY <1>11 DEF DeleteSegment, Shaped, TypeOK
  <2>2. cell' \in [Segments \X Segments -> {"none", "allow", "block"}]
    BY <1>11 DEF DeleteSegment, Cleared, Shaped, TypeOK
  <2>3. intra' \in {"none", "permit", "deny"}
    BY <1>11 DEF DeleteSegment, Cleared, Shaped, TypeOK
  <2> QED BY <1>11, <2>1, <2>2, <2>3, RedrawnType DEF DeleteSegment
<1>12. ASSUME NEW s \in Segments, NEW t \in Segments, NEW policy \in {"allow", "block"},
              SetCell(s, t, policy)
       PROVE  Shaped'
  <2>1. cell' \in [Segments \X Segments -> {"none", "allow", "block"}]
    BY <1>12 DEF SetCell, Shaped, TypeOK
  <2> QED BY <1>12, <2>1, SentBackType DEF SetCell, Shaped, TypeOK
<1>13. CASE SetDefault
  <2>1. adrift' \subseteq Rules
    BY <1>13 DEF SetDefault, PartlyOutside, Shaped, TypeOK
  <2>2. {intra', requested'} \subseteq {"none", "permit", "deny"}
    BY <1>13 DEF SetDefault, Shaped, TypeOK
  <2> QED BY <1>13, <2>1, <2>2, SentBackType DEF SetDefault, Shaped, TypeOK
<1>14. ASSUME NEW r \in Rules, WriteRule(r) \/ RestoreVersion(r) \/ Submit(r) \/ Approve(r) \/ Implemented(r)
       PROVE  Shaped'
  <2>1. left' \cup restored' \cup adrift' \subseteq Rules
    BY <1>14 DEF WriteRule, RestoreVersion, Submit, Approve, Implemented, Shaped, TypeOK
  <2>2. Expanded(r) \in [Sides -> SUBSET Networks]
    BY <1>0, ExpandedTyped
  <2>3. ZonesOf(Expanded(r)) = [side \in Sides |-> ZonesOf(Expanded(r))[side]]
    BY DEF ZonesOf
  <2>4. /\ zone[r] = [side \in Sides |-> zone[r][side]]
        /\ members[r] \in [Sides -> SUBSET Networks] /\ snapshot[r] \in [Sides -> SUBSET Networks]
        /\ status[r] \in Status
    BY DEF Shaped, TypeOK
  <2>5. CASE WriteRule(r)
    <3>1. (IF Standing(r) \/ ~Live(r) THEN "draft" ELSE status[r]) \in Status
      BY <2>4 DEF Status
    <3> QED BY <2>1, <2>2, <2>3, <2>5, <3>1, StoredType DEF WriteRule
  <2>6. CASE RestoreVersion(r)
    BY <2>1, <2>3, <2>4, <2>6, StoredType DEF RestoreVersion, Status
  <2>7. CASE Submit(r)
    BY <2>1, <2>4, <2>7, StoredType DEF Submit, Status
  <2>8. CASE Approve(r)
    <3>1. (IF StoredVerdict(r) THEN "approved" ELSE "deactivated") \in Status
      BY DEF Status, InForce
    <3> QED BY <2>1, <2>4, <2>8, <3>1, StoredType DEF Approve
  <2>9. CASE Implemented(r)
    BY <2>1, <2>4, <2>9, StoredType DEF Implemented, Status, InForce
  <2> QED BY <1>14, <2>5, <2>6, <2>7, <2>8, <2>9
<1>15. CASE RejectDefault \/ \E default \in {"permit", "deny"} : RequestDefault(default)
  BY <1>15 DEF RequestDefault, RejectDefault, inventory, rules, Shaped, TypeOK
<1>16. CASE UNCHANGED vars
  BY <1>16 DEF vars, inventory, matrix, rules, Shaped, TypeOK
<1> QED
  BY <1>1, <1>2, <1>3, <1>4, <1>5, <1>6, <1>7, <1>8, <1>9, <1>10, <1>11, <1>12, <1>13, <1>14, <1>15, <1>16
  DEF Next

----------------------------------------------------------------------------
(* Rules follow their groups. *)

\* What a rule's groups mean is the same when none of them has moved.
LEMMA ExpandedKeeps ==
    ASSUME NEW r \in Rules, \A g \in GroupsOf(r) : Resolve(g)' = Resolve(g)
    PROVE  Expanded(r)' = Expanded(r) /\ (Expandable(r)' <=> Expandable(r))
<1>1. \A side \in Sides : Refs[r][side].groups \subseteq GroupsOf(r)
  BY DEF GroupsOf
<1>2. \A side \in Sides : {Resolve(g)' : g \in Refs[r][side].groups} = {Resolve(g) : g \in Refs[r][side].groups}
  BY <1>1
<1>3. Expanded(r)' = Expanded(r)
  BY <1>2 DEF Expanded
<1> QED BY <1>3 DEF Expandable

LEMMA ReferredGroups == \A r \in Rules : GroupsOf(r) \subseteq Groups
BY InventoryAssumption DEF GroupsOf, InventoryAssumption

\* A resynchronisation of all groups that move, but for those unseen.
LEMMA ResyncFollows ==
    ASSUME Shaped, RulesFollowGroups, NEW names, NEW reset, NEW unseen,
           Resync(names, reset, unseen),
           \A g \in Groups \ (names \cup unseen) : Resolve(g)' = Resolve(g)
    PROVE  RulesFollowGroups'
<1> SUFFICES ASSUME NEW r \in Rules, Live(r)', r \notin left'
             PROVE  Expandable(r)' /\ members'[r] = Expanded(r)'
  BY DEF RulesFollowGroups
<1> DEFINE moved == {q \in Referring(names) : Expanded(q)' # members[q]}
<1>1. Live(r)
  BY DEF Resync, Live, Referring
<1>2. CASE r \in Referring(names)
  <2>1. Expandable(r)'
    BY <1>2 DEF Resync, AllPass
  <2>2. CASE Expanded(r)' # members[r]
    <3>1. members'[r] = Expanded(r)'
      BY <1>2, <2>2 DEF Resync
    <3> QED BY <2>1, <3>1
  <2>3. CASE Expanded(r)' = members[r]
    <3>1. members'[r] = members[r]
      BY <2>3 DEF Resync
    <3> QED BY <2>1, <2>3, <3>1
  <2> QED BY <2>2, <2>3
<1>3. CASE r \notin Referring(names)
  <2>1. r \notin left /\ r \notin Referring(unseen)
    BY <1>3 DEF Resync
  <2>2. GroupsOf(r) \cap (names \cup unseen) = {}
    BY <1>1, <1>3, <2>1 DEF Referring
  <2>3. \A g \in GroupsOf(r) : Resolve(g)' = Resolve(g)
    BY <2>2, ReferredGroups
  <2>4. Expandable(r) /\ members[r] = Expanded(r)
    BY <1>1, <2>1 DEF RulesFollowGroups
  <2>5. Expandable(r)' /\ Expanded(r)' = members[r]
    BY <2>3, <2>4, ExpandedKeeps
  <2>6. members'[r] = members[r]
    BY <1>3 DEF Resync
  <2> QED BY <2>5, <2>6
<1> QED BY <1>2, <1>3

\* Steps that move neither a group nor the addresses of a rule.
LEMMA StillFollows ==
    ASSUME RulesFollowGroups, UNCHANGED inventory, UNCHANGED <<members, left>>,
           \A r \in Rules : Live(r)' => Live(r)
    PROVE  RulesFollowGroups'
<1>1. \A g \in Groups : Resolve(g)' = Resolve(g)
  BY DEF inventory, Resolve, Selected, Present
<1>2. \A r \in Rules : Expanded(r)' = Expanded(r) /\ (Expandable(r)' <=> Expandable(r))
  BY <1>1, ExpandedKeeps, ReferredGroups
<1> QED BY <1>2 DEF RulesFollowGroups

\* A rule that is written, beside others that are not.
LEMMA StoredFollows ==
    ASSUME Shaped, RulesFollowGroups, NEW r \in Rules, NEW m, NEW z, NEW st, Stored(r, m, z, st),
           Live(r)' /\ r \notin left' => Expandable(r) /\ m = Expanded(r),
           left \subseteq left' \cup {r}
    PROVE  RulesFollowGroups'
<1>1. \A g \in Groups : Resolve(g)' = Resolve(g)
  BY DEF Stored, inventory, Resolve, Selected, Present
<1>2. \A q \in Rules : Expanded(q)' = Expanded(q) /\ (Expandable(q)' <=> Expandable(q))
  BY <1>1, ExpandedKeeps, ReferredGroups
<1>3. \A q \in Rules : q # r => (Live(q)' <=> Live(q)) /\ members'[q] = members[q]
  BY DEF Stored, Live, Shaped, TypeOK
<1>4. members'[r] = m
  BY DEF Stored, Shaped, TypeOK
<1> QED BY <1>2, <1>3, <1>4 DEF RulesFollowGroups

LEMMA FollowsKept == Shaped /\ RulesFollowGroups /\ [Next]_vars => RulesFollowGroups'
<1> SUFFICES ASSUME Shaped, RulesFollowGroups, [Next]_vars PROVE RulesFollowGroups'
  OBVIOUS
<1>0. InventoryType
  BY DEF Shaped, TypeOK, InventoryType
<1>1. ASSUME NEW w \in Workloads, NEW shape \in Shapes[w], CreateWorkload(w, shape)
      PROVE  RulesFollowGroups'
  <2>1. shape \in Workload \cup {Absent} /\ workload[w] = Absent
    BY <1>1, InventoryAssumption DEF CreateWorkload, InventoryAssumption, Present
  <2>2. \A g \in Groups \ (AffectedByLabels(Absent, shape) \cup Listing(w)) : Resolve(g)' = Resolve(g)
    BY <1>0, <1>1, <2>1, ResolveKeeps DEF CreateWorkload
  <2> QED BY <1>1, <2>2, ResyncFollows DEF CreateWorkload
<1>2. ASSUME NEW w \in Workloads, NEW shape \in Shapes[w], UpdateWorkload(w, shape)
      PROVE  RulesFollowGroups'
  <2>1. shape \in Workload \cup {Absent}
    BY InventoryAssumption DEF InventoryAssumption
  <2>2. \A g \in Groups \ (AffectedByLabels(workload[w], shape) \cup Listing(w)) : Resolve(g)' = Resolve(g)
    BY <1>0, <1>2, <2>1, ResolveKeeps DEF UpdateWorkload
  <2> QED BY <1>2, <2>2, ResyncFollows DEF UpdateWorkload
<1>3. ASSUME NEW w \in Workloads, DeleteWorkload(w) PROVE RulesFollowGroups'
  <2>1. \A g \in Groups \ (AffectedByLabels(workload[w], Absent) \cup Listing(w)) : Resolve(g)' = Resolve(g)
    BY <1>0, <1>3, ResolveKeeps DEF DeleteWorkload
  <2> QED BY <1>3, <2>1, ResyncFollows DEF DeleteWorkload
<1>4. ASSUME NEW shapes \in Found, ImportWorkloads(shapes) PROVE RulesFollowGroups'
  BY <1>4, ResyncFollows DEF ImportWorkloads
<1>5. CASE ImportResync
  BY <1>5, ResyncFollows DEF ImportResync
<1>6. CASE ImportRefused
  BY <1>6, StillFollows DEF ImportRefused, rules, Live
<1>7. ASSUME NEW g \in Groups, NEW def \in Definitions[g], CreateGroup(g, def)
      PROVE  RulesFollowGroups'
  <2>1. /\ \A r \in Rules : Live(r)' <=> Live(r)
        /\ UNCHANGED <<workload, members, left>>
        /\ \A h \in Groups : h # g => group'[h] = group[h]
    BY <1>7 DEF CreateGroup, Live, rules, Shaped, TypeOK
  <2>2. Resolve(g) = {}
    BY <1>7 DEF CreateGroup, Resolve, Absent
  <2>3. \A h \in Groups : h # g => Resolve(h)' = Resolve(h)
    BY <2>1 DEF Resolve, Selected, Present
  <2>4. ASSUME NEW r \in Rules, Live(r), r \notin left PROVE Expandable(r)' /\ members'[r] = Expanded(r)'
    <3>1. g \notin GroupsOf(r) /\ Expandable(r) /\ members[r] = Expanded(r)
      BY <2>2, <2>4 DEF RulesFollowGroups, Expandable
    <3>2. \A h \in GroupsOf(r) : Resolve(h)' = Resolve(h)
      BY <2>3, <3>1, ReferredGroups
    <3> QED BY <2>1, <3>1, <3>2, ExpandedKeeps
  <2> QED BY <2>1, <2>4 DEF RulesFollowGroups
<1>8. ASSUME NEW g \in Groups, NEW def \in Definitions[g], UpdateGroup(g, def)
      PROVE  RulesFollowGroups'
  <2>1. workload' = workload /\ \A h \in Groups : h # g => group'[h] = group[h]
    BY <1>8 DEF UpdateGroup, Shaped, TypeOK
  <2>2. \A h \in Groups \ {g} : Resolve(h)' = Resolve(h)
    BY <2>1 DEF Resolve, Selected, Present
  <2> QED BY <1>8, <2>2, ResyncFollows DEF UpdateGroup
<1>9. ASSUME NEW g \in Groups, DeleteGroup(g) PROVE RulesFollowGroups'
  <2>1. /\ \A r \in Rules : Live(r)' <=> Live(r)
        /\ UNCHANGED <<workload, members, left>>
        /\ \A h \in Groups : h # g => group'[h] = group[h]
    BY <1>9 DEF DeleteGroup, Live, rules, Shaped, TypeOK
  <2>2. \A h \in Groups : h # g => Resolve(h)' = Resolve(h)
    BY <2>1 DEF Resolve, Selected, Present
  <2>3. ASSUME NEW r \in Rules, Live(r), r \notin left PROVE Expandable(r)' /\ members'[r] = Expanded(r)'
    <3>1. g \notin GroupsOf(r)
      BY <1>9, <2>3 DEF DeleteGroup, Free, Referring
    <3>2. \A h \in GroupsOf(r) : Resolve(h)' = Resolve(h)
      BY <2>2, <3>1, ReferredGroups
    <3> QED BY <2>1, <2>3, <3>2, ExpandedKeeps DEF RulesFollowGroups
  <2> QED BY <2>1, <2>3 DEF RulesFollowGroups
<1>10. ASSUME NEW s \in Segments, NEW g \in Groups, CreateSegment(s, g) \/ SwapGroup(s, g)
       PROVE  RulesFollowGroups'
  BY <1>10, StillFollows DEF CreateSegment, SwapGroup, Redrawn, Live
<1>11. ASSUME NEW s \in Segments, DeleteSegment(s) PROVE RulesFollowGroups'
  BY <1>11, StillFollows DEF DeleteSegment, Redrawn, Live
<1>12. ASSUME NEW R \in SUBSET Rules, SentBack(R), \A r \in R : Standing(r) PROVE RulesFollowGroups'
  <2>1. \A r \in Rules : Live(r)' => Live(r)
    BY <1>12 DEF SentBack, Live, Standing, InForce
  <2> QED BY <1>12, <2>1, StillFollows DEF SentBack
<1>13. ASSUME NEW s \in Segments, NEW t \in Segments, NEW policy \in {"allow", "block"},
              SetCell(s, t, policy)
       PROVE  RulesFollowGroups'
  BY <1>12, <1>13 DEF SetCell, BlockedBy
<1>14. CASE SetDefault
  BY <1>12, <1>14 DEF SetDefault, DeniedBy
<1>15. ASSUME NEW r \in Rules, WriteRule(r) \/ RestoreVersion(r) PROVE RulesFollowGroups'
  <2>1. CASE WriteRule(r)
    BY <2>1, StoredFollows DEF WriteRule, Passes
  <2>2. CASE RestoreVersion(r)
    <3>1. r \notin left' => snapshot[r] = Expanded(r)
      BY <2>2 DEF RestoreVersion
    <3>2. left \subseteq left' \cup {r}
      BY <2>2 DEF RestoreVersion
    <3> QED BY <2>2, <3>1, <3>2, StoredFollows DEF RestoreVersion, Passes
  <2> QED BY <1>15, <2>1, <2>2
<1>16. ASSUME NEW r \in Rules, Submit(r) \/ Approve(r) \/ Implemented(r) PROVE RulesFollowGroups'
  <2>1. /\ Live(r) /\ left' = left
        /\ Stored(r, members[r], zone[r], "in_review") \/ Stored(r, members[r], zone[r], "active")
           \/ Stored(r, members[r], zone[r], IF StoredVerdict(r) THEN "approved" ELSE "deactivated")
    BY <1>16 DEF Submit, Approve, Implemented, Live
  <2>2. r \notin left => Expandable(r) /\ members[r] = Expanded(r)
    BY <2>1 DEF RulesFollowGroups
  <2> QED BY <2>1, <2>2, StoredFollows
<1>17. CASE \/ UNCHANGED vars \/ RejectDefault
            \/ \E default \in {"permit", "deny"} : RequestDefault(default)
  BY <1>17, StillFollows DEF RequestDefault, RejectDefault, vars, rules, Live
<1> QED
  BY <1>1, <1>2, <1>3, <1>4, <1>5, <1>6, <1>7, <1>8, <1>9, <1>10, <1>11, <1>13, <1>14, <1>15, <1>16, <1>17
  DEF Next

----------------------------------------------------------------------------
(* The matrix speaks of segments that exist. *)

LEMMA CellsKept == Shaped /\ NoLeftoverCells /\ [Next]_vars => NoLeftoverCells'
<1> SUFFICES ASSUME Shaped, NoLeftoverCells, [Next]_vars PROVE NoLeftoverCells'
  OBVIOUS
<1>1. DOMAIN cell = Segments \X Segments /\ DOMAIN segment = Segments
  BY DEF Shaped, TypeOK
<1>2. ASSUME UNCHANGED <<segment, cell>> PROVE NoLeftoverCells'
  BY <1>2 DEF NoLeftoverCells, Existing
<1>3. ASSUME NEW s \in Segments, NEW g \in Groups, CreateSegment(s, g) \/ SwapGroup(s, g)
      PROVE  NoLeftoverCells'
  <2>1. segment' = [segment EXCEPT ![s] = g] /\ UNCHANGED cell /\ g # "none"
    BY <1>3, SegmentsAssumption DEF CreateSegment, SwapGroup, SegmentsAssumption
  <2>2. Existing \subseteq Existing'
    BY <1>1, <2>1 DEF Existing
  <2> QED BY <2>1, <2>2 DEF NoLeftoverCells
<1>4. ASSUME NEW s \in Segments, DeleteSegment(s) PROVE NoLeftoverCells'
  <2>1. Existing' = Existing \ {s} /\ s \in Existing
    BY <1>1, <1>4 DEF DeleteSegment, Existing
  <2>2. cell' = [p \in DOMAIN cell |-> IF s \in {p[1], p[2]} THEN "none" ELSE cell[p]]
    BY <1>4 DEF DeleteSegment, Cleared
  <2>3. ASSUME NEW p \in DOMAIN cell', cell'[p] # "none" PROVE {p[1], p[2]} \subseteq Existing'
    <3>1. s \notin {p[1], p[2]} /\ p \in DOMAIN cell /\ cell[p] # "none"
      BY <2>2, <2>3
    <3> QED BY <2>1, <3>1 DEF NoLeftoverCells
  <2> QED BY <2>3 DEF NoLeftoverCells
<1>5. ASSUME NEW s \in Segments, NEW t \in Segments, NEW policy \in {"allow", "block"},
             SetCell(s, t, policy)
      PROVE  NoLeftoverCells'
  <2>1. UNCHANGED segment /\ cell' = [cell EXCEPT ![<<s, t>>] = policy] /\ {s, t} \subseteq Existing
    BY <1>5 DEF SetCell, SentBack
  <2>2. Existing' = Existing
    BY <2>1 DEF Existing
  <2>3. ASSUME NEW p \in DOMAIN cell', cell'[p] # "none" PROVE {p[1], p[2]} \subseteq Existing
    <3>1. CASE p = <<s, t>>
      BY <2>1, <3>1
    <3>2. CASE p # <<s, t>>
      BY <2>1, <2>3, <3>2 DEF NoLeftoverCells
    <3> QED BY <3>1, <3>2
  <2> QED BY <2>1, <2>2, <2>3 DEF NoLeftoverCells
<1>6. CASE SetDefault \/ RejectDefault \/ \E default \in {"permit", "deny"} : RequestDefault(default)
  BY <1>2, <1>6 DEF SetDefault, RequestDefault, RejectDefault, SentBack
<1>7. ASSUME NEW w \in Workloads, NEW shape \in Shapes[w], CreateWorkload(w, shape) \/ UpdateWorkload(w, shape)
      PROVE  NoLeftoverCells'
  BY <1>2, <1>7 DEF CreateWorkload, UpdateWorkload, matrix
<1>8. ASSUME NEW w \in Workloads, DeleteWorkload(w) PROVE NoLeftoverCells'
  BY <1>2, <1>8 DEF DeleteWorkload, matrix
<1>9. ASSUME (\E shapes \in Found : ImportWorkloads(shapes)) \/ ImportResync \/ ImportRefused
      PROVE  NoLeftoverCells'
  BY <1>2, <1>9 DEF ImportWorkloads, ImportResync, ImportRefused, matrix
<1>10. ASSUME NEW g \in Groups, DeleteGroup(g) \/ \E def \in Definitions[g] : CreateGroup(g, def) \/ UpdateGroup(g, def)
       PROVE  NoLeftoverCells'
  BY <1>2, <1>10 DEF CreateGroup, UpdateGroup, DeleteGroup, matrix
<1>11. ASSUME NEW r \in Rules, WriteRule(r) \/ RestoreVersion(r) \/ Submit(r) \/ Approve(r) \/ Implemented(r)
       PROVE  NoLeftoverCells'
  BY <1>2, <1>11 DEF WriteRule, RestoreVersion, Submit, Approve, Implemented, Stored, matrix
<1>12. CASE UNCHANGED vars
  BY <1>2, <1>12 DEF vars, matrix
<1> QED
  BY <1>3, <1>4, <1>5, <1>6, <1>7, <1>8, <1>9, <1>10, <1>11, <1>12 DEF Next

----------------------------------------------------------------------------
(* Rules lie in the zones they were checked for. *)

\* What the registry of networks says of addresses and of zones.
Placed(m, z) ==
    /\ \A side \in Sides : Assigned(m[side]) /\ Zones(m[side]) = {z[side]}
    /\ Mapped(m.source \cup m.destination)

LEMMA ZonesFinite ==
    ASSUME NEW A \in SUBSET Networks
    PROVE  IsFiniteSet(Zones(A))
<1> DEFINE B == {m \in A : Covering(m, DOMAIN ZoneAt) # {}}
           f == [n \in B |-> ZoneAt[MostSpecific(n, DOMAIN ZoneAt)]]
<1>1. IsFiniteSet(B)
  BY FS_Subset, GroupsAssumption DEF GroupsAssumption
<1>2. Zones(A) = {f[n] : n \in B}
  BY DEF Zones
<1>3. f = [n \in B |-> f[n]]
  OBVIOUS
<1> HIDE DEF B, f
<1>4. f \in Surjection(B, {f[n] : n \in B})
  BY <1>3 DEF Surjection
<1> QED BY <1>1, <1>2, <1>4, FS_Surjection

LEMMA CheckedPlaced ==
    ASSUME NEW m \in [Sides -> SUBSET Networks],
           \A side \in Sides : Assigned(m[side]) /\ Cardinality(Zones(m[side])) = 1,
           Mapped(m.source \cup m.destination)
    PROVE  Placed(m, ZonesOf(m))
<1>1. ASSUME NEW side \in Sides PROVE Zones(m[side]) = {ZonesOf(m)[side]}
  <2>1. IsFiniteSet(Zones(m[side]))
    BY ZonesFinite
  <2>2. PICK z : Zones(m[side]) = {z}
    BY <2>1, FS_Singleton
  <2>3. ZoneOf(m[side]) = z
    BY <2>2 DEF ZoneOf
  <2> QED BY <2>2, <2>3 DEF ZonesOf
<1> QED BY <1>1 DEF Placed

LEMMA PassesPlaced ==
    InventoryType => \A r \in Rules : Passes(r) => Placed(Expanded(r), ZonesOf(Expanded(r)))
BY ExpandedTyped, CheckedPlaced DEF Passes, Admissible

LEMMA AddressesPlaced ==
    AddressesAdmissible <=> \A q \in Rules : Live(q) /\ q \notin restored => Placed(members[q], zone[q])
BY DEF AddressesAdmissible, Placed

LEMMA AddressesPlacedNext ==
    AddressesAdmissible' <=> (\A q \in Rules : Live(q) /\ q \notin restored => Placed(members[q], zone[q]))'
BY AddressesPlaced, PTL

LEMMA ResyncPlaced ==
    ASSUME Shaped, InventoryType', AddressesAdmissible, NEW names, NEW reset, NEW unseen,
           Resync(names, reset, unseen)
    PROVE  AddressesAdmissible'
<1> DEFINE moved == {q \in Referring(names) : Expanded(q)' # members[q]}
<1>1. InventoryType' => (\A r \in Rules : Passes(r) => Placed(Expanded(r), ZonesOf(Expanded(r))))'
  BY PassesPlaced, PTL
<1>2. ASSUME NEW r \in Rules, Live(r)', r \notin restored' PROVE Placed(members'[r], zone'[r])
  <2>1. CASE r \in moved
    <3>1. Passes(r)'
      BY <2>1 DEF Resync, AllPass
    <3>2. members'[r] = Expanded(r)' /\ zone'[r] = ZonesOf(Expanded(r))'
      BY <2>1 DEF Resync
    <3>3. Placed(Expanded(r), ZonesOf(Expanded(r)))'
      BY <1>1, <3>1
    <3> QED BY <3>2, <3>3
  <2>2. CASE r \notin moved
    <3>1. members'[r] = members[r] /\ zone'[r] = zone[r] /\ status'[r] = status[r]
      BY <2>2 DEF Resync
    <3>2. Live(r) /\ r \notin restored
      BY <1>2, <2>2, <3>1 DEF Resync, Live
    <3> QED BY <3>1, <3>2, AddressesPlaced
  <2> QED BY <2>1, <2>2
<1> QED BY <1>2, AddressesPlacedNext

LEMMA StillPlaced ==
    ASSUME AddressesAdmissible, UNCHANGED <<members, zone, restored>>, \A r \in Rules : Live(r)' => Live(r)
    PROVE  AddressesAdmissible'
BY DEF AddressesAdmissible

LEMMA StoredPlaced ==
    ASSUME Shaped, AddressesAdmissible, NEW r \in Rules, NEW m, NEW z, NEW st, Stored(r, m, z, st),
           r \notin restored' => Placed(m, z), restored \subseteq restored' \cup {r}
    PROVE  AddressesAdmissible'
<1>1. ASSUME NEW q \in Rules, Live(q)', q \notin restored' PROVE Placed(members'[q], zone'[q])
  <2>1. CASE q = r
    BY <1>1, <2>1 DEF Stored, Shaped, TypeOK
  <2>2. CASE q # r
    <3>1. members'[q] = members[q] /\ zone'[q] = zone[q] /\ status'[q] = status[q]
      BY <2>2 DEF Stored, Shaped, TypeOK
    <3> QED BY <1>1, <2>2, <3>1, AddressesPlaced DEF Live
  <2> QED BY <2>1, <2>2
<1> QED BY <1>1, AddressesPlacedNext

LEMMA PlacedKept == Shaped /\ AddressesAdmissible /\ [Next]_vars => AddressesAdmissible'
<1> SUFFICES ASSUME Shaped, AddressesAdmissible, [Next]_vars PROVE AddressesAdmissible'
  OBVIOUS
<1>0. InventoryType /\ InventoryType'
  BY ShapeKept DEF Shaped, TypeOK, InventoryType
<1>1. ASSUME NEW w \in Workloads, NEW shape \in Shapes[w], CreateWorkload(w, shape) \/ UpdateWorkload(w, shape)
      PROVE  AddressesAdmissible'
  BY <1>0, <1>1, ResyncPlaced DEF CreateWorkload, UpdateWorkload
<1>2. ASSUME NEW w \in Workloads, DeleteWorkload(w) PROVE AddressesAdmissible'
  BY <1>0, <1>2, ResyncPlaced DEF DeleteWorkload
<1>3. ASSUME (\E shapes \in Found : ImportWorkloads(shapes)) \/ ImportResync PROVE AddressesAdmissible'
  BY <1>0, <1>3, ResyncPlaced DEF ImportWorkloads, ImportResync
<1>4. CASE \/ ImportRefused \/ UNCHANGED vars \/ RejectDefault
           \/ \E default \in {"permit", "deny"} : RequestDefault(default)
  BY <1>4, StillPlaced DEF ImportRefused, RequestDefault, RejectDefault, vars, rules, Live
<1>5. ASSUME NEW g \in Groups, NEW def \in Definitions[g], CreateGroup(g, def) PROVE AddressesAdmissible'
  BY <1>5, StillPlaced DEF CreateGroup, rules, Live
<1>6. ASSUME NEW g \in Groups, NEW def \in Definitions[g], UpdateGroup(g, def) PROVE AddressesAdmissible'
  BY <1>0, <1>6, ResyncPlaced DEF UpdateGroup
<1>7. ASSUME NEW g \in Groups, DeleteGroup(g) PROVE AddressesAdmissible'
  BY <1>7, StillPlaced DEF DeleteGroup, rules, Live
<1>8. ASSUME NEW s \in Segments, DeleteSegment(s) \/ \E g \in Groups : CreateSegment(s, g) \/ SwapGroup(s, g)
      PROVE  AddressesAdmissible'
  BY <1>8, StillPlaced DEF CreateSegment, SwapGroup, DeleteSegment, Redrawn, Live
<1>9. ASSUME NEW R \in SUBSET Rules, SentBack(R), \A r \in R : Standing(r) PROVE AddressesAdmissible'
  <2>1. \A r \in Rules : Live(r)' => Live(r)
    BY <1>9 DEF SentBack, Live, Standing, InForce
  <2> QED BY <1>9, <2>1, StillPlaced DEF SentBack
<1>10. ASSUME NEW s \in Segments, NEW t \in Segments, NEW policy \in {"allow", "block"},
              SetCell(s, t, policy)
       PROVE  AddressesAdmissible'
  BY <1>9, <1>10 DEF SetCell, BlockedBy
<1>11. CASE SetDefault
  BY <1>9, <1>11 DEF SetDefault, DeniedBy
<1>12. ASSUME NEW r \in Rules, WriteRule(r) PROVE AddressesAdmissible'
  <2>1. Placed(Expanded(r), ZonesOf(Expanded(r)))
    BY <1>0, <1>12, PassesPlaced DEF WriteRule
  <2> QED BY <1>12, <2>1, StoredPlaced DEF WriteRule
<1>13. ASSUME NEW r \in Rules, RestoreVersion(r) PROVE AddressesAdmissible'
  <2>1. Placed(Expanded(r), ZonesOf(Expanded(r)))
    BY <1>0, <1>13, PassesPlaced DEF RestoreVersion
  <2>2. r \notin restored' => snapshot[r] = Expanded(r)
    BY <1>13 DEF RestoreVersion
  <2>3. restored \subseteq restored' \cup {r}
    BY <1>13 DEF RestoreVersion
  <2> QED BY <1>13, <2>1, <2>2, <2>3, StoredPlaced DEF RestoreVersion
<1>14. ASSUME NEW r \in Rules, Submit(r) \/ Approve(r) \/ Implemented(r) PROVE AddressesAdmissible'
  <2>1. /\ Live(r) /\ restored' = restored
        /\ Stored(r, members[r], zone[r], "in_review") \/ Stored(r, members[r], zone[r], "active")
           \/ Stored(r, members[r], zone[r], IF StoredVerdict(r) THEN "approved" ELSE "deactivated")
    BY <1>14 DEF Submit, Approve, Implemented, Live
  <2>2. r \notin restored => Placed(members[r], zone[r])
    BY <2>1, AddressesPlaced
  <2> QED BY <2>1, <2>2, StoredPlaced
<1> QED
  BY <1>1, <1>2, <1>3, <1>4, <1>5, <1>6, <1>7, <1>8, <1>10, <1>11, <1>12, <1>13, <1>14 DEF Next

----------------------------------------------------------------------------
(* Where addresses lie in the segments. *)

LEMMA Least ==
    ASSUME NEW S \in SUBSET Nat, S # {}
    PROVE  \E x \in S : \A y \in S : x <= y
<1>1. PICK x \in S : \A y \in S : ~ (<<y, x>> \in OpToRel(<, Nat))
  BY WFMin, NatLessThanWellFounded
<1>2. \A y \in S : ~ (y < x)
  BY <1>1 DEF OpToRel
<1> QED BY <1>2

LEMMA Smallest ==
    ASSUME NEW C, C # {}, \A c \in C : IsFiniteSet(c)
    PROVE  \E c \in C : \A d \in C : Cardinality(c) <= Cardinality(d)
<1> DEFINE sizes == {Cardinality(c) : c \in C}
<1>1. PICK k \in sizes : \A j \in sizes : k <= j
  <2>1. sizes \in SUBSET Nat /\ sizes # {}
    BY FS_CardinalityType
  <2> HIDE DEF sizes
  <2> QED BY <2>1, Least
<1> QED BY <1>1

\* An entry lies in a segment there is, or in none.
LEMMA SegmentOfType == Shaped => \A n : SegmentOf(n) \in Existing \cup {0}
<1> SUFFICES ASSUME Shaped, NEW n PROVE SegmentOf(n) \in Existing \cup {0}
  OBVIOUS
<1> DEFINE networks == [s \in Existing |-> SegmentNetworks(s)]
           all      == UNION {networks[s] : s \in Existing}
           best     == MostSpecific(n, all)
           holders  == {s \in Existing : best \in networks[s]}
<1>1. \A s \in Existing : networks[s] \in SUBSET Networks
  <2>1. \A s \in Existing : segment[s] \in Groups
    BY DEF Existing, Shaped, TypeOK
  <2>2. InventoryType
    BY DEF Shaped, TypeOK, InventoryType
  <2> QED BY <2>1, <2>2, ResolveTyped DEF SegmentNetworks
<1>2. CASE Covering(n, all) = {}
  BY <1>2 DEF SegmentOf
<1>3. CASE Covering(n, all) # {}
  <2>1. \A c \in Covering(n, all) : IsFiniteSet(c)
    BY <1>1, GroupsAssumption DEF Covering, GroupsAssumption
  <2>2. \E c \in Covering(n, all) : \A d \in Covering(n, all) : Cardinality(c) <= Cardinality(d)
    <3> HIDE DEF all
    <3> QED BY <1>3, <2>1, Smallest
  <2>3. best \in Covering(n, all)
    <3> HIDE DEF all
    <3> QED BY <2>2 DEF MostSpecific
  <2>4. holders # {}
    <3>1. best \in all
      BY <2>3 DEF Covering
    <3>2. PICK s \in Existing : best \in networks[s]
      <4> HIDE DEF best, networks
      <4> QED BY <3>1
    <3> QED BY <3>2
  <2>5. holders \in SUBSET Nat
    BY SegmentsAssumption DEF Existing, SegmentsAssumption
  <2>6. \E s \in holders : \A t \in holders : s <= t
    <3> HIDE DEF holders
    <3> QED BY <2>4, <2>5, Least
  <2>7. SegmentOf(n) = CHOOSE s \in holders : \A t \in holders : s <= t
    BY <1>3 DEF SegmentOf
  <2>8. SegmentOf(n) \in holders
    <3> HIDE DEF holders
    <3> QED BY <2>6, <2>7
  <2> QED BY <2>8
<1> QED BY <1>2, <1>3

\* A list that resolves to a segment hits it.
LEMMA SegmentForType == \A A : SegmentFor(A) \in SegmentsHit(A) \cup {0}
<1> SUFFICES ASSUME NEW A PROVE SegmentFor(A) \in SegmentsHit(A) \cup {0}
  OBVIOUS
<1>1. CASE Cardinality(SegmentsHit(A)) = 1
  <2>1. SegmentsHit(A) # {}
    BY <1>1, FS_EmptySet
  <2>2. SegmentFor(A) = CHOOSE s \in SegmentsHit(A) : TRUE
    BY <1>1 DEF SegmentFor
  <2> QED BY <2>1, <2>2
<1>2. CASE Cardinality(SegmentsHit(A)) # 1
  BY <1>2 DEF SegmentFor
<1> QED BY <1>1, <1>2

LEMMA SegmentForExists == Shaped => \A A : SegmentFor(A) # 0 => SegmentFor(A) \in Existing
BY SegmentForType, SegmentOfType DEF SegmentsHit, Spread

\* The boundaries are the groups of the segments.
Among(n, networks) ==
    LET all == UNION {networks[s] : s \in DOMAIN networks}
    IN  IF Covering(n, all) = {} THEN 0
        ELSE LET best == MostSpecific(n, all)
                 holders == {s \in DOMAIN networks : best \in networks[s]}
             IN  CHOOSE s \in holders : \A t \in holders : s <= t

LEMMA SegmentAmong == \A n : SegmentOf(n) = Among(n, [s \in Existing |-> SegmentNetworks(s)])
BY DEF SegmentOf, Among

LEMMA SegmentOfKeeps ==
    ASSUME Existing' = Existing, \A s \in Existing : SegmentNetworks(s)' = SegmentNetworks(s)
    PROVE  \A n : SegmentOf(n)' = SegmentOf(n)
<1>1. [s \in Existing |-> SegmentNetworks(s)]' = [s \in Existing |-> SegmentNetworks(s)]
  OBVIOUS
<1>2. (\A n : SegmentOf(n) = Among(n, [s \in Existing |-> SegmentNetworks(s)]))'
  BY SegmentAmong, PTL
<1> QED BY <1>1, <1>2, SegmentAmong

----------------------------------------------------------------------------
(* A segment's group exists. *)

SegmentsGrounded == \A s \in Existing : group[segment[s]] # Absent

LEMMA GroundedKept == Shaped /\ SegmentsGrounded /\ [Next]_vars => SegmentsGrounded'
<1> SUFFICES ASSUME Shaped, SegmentsGrounded, [Next]_vars PROVE SegmentsGrounded'
  OBVIOUS
<1>1. ASSUME UNCHANGED <<group, segment>> PROVE SegmentsGrounded'
  BY <1>1 DEF SegmentsGrounded, Existing
<1>2. \A s \in Existing : segment[s] \in Groups
  BY DEF Existing, Shaped, TypeOK
<1>3. ASSUME NEW g \in Groups, NEW def, def # Absent, UNCHANGED segment, group' = [group EXCEPT ![g] = def]
      PROVE  SegmentsGrounded'
  BY <1>2, <1>3 DEF SegmentsGrounded, Existing, Shaped, TypeOK
<1>4. \A g \in Groups : \A def \in Definitions[g] : def # Absent
  BY InventoryAssumption DEF InventoryAssumption, Absent, Selector, Static
<1>5. ASSUME NEW g \in Groups, NEW def \in Definitions[g], CreateGroup(g, def) \/ UpdateGroup(g, def)
      PROVE  SegmentsGrounded'
  BY <1>3, <1>4, <1>5 DEF CreateGroup, UpdateGroup, matrix
<1>6. ASSUME NEW g \in Groups, DeleteGroup(g) PROVE SegmentsGrounded'
  <2>1. UNCHANGED segment /\ group' = [group EXCEPT ![g] = Absent] /\ \A s \in Segments : segment[s] # g
    BY <1>6 DEF DeleteGroup, matrix
  <2> QED BY <1>2, <2>1 DEF SegmentsGrounded, Existing, Shaped, TypeOK
<1>7. ASSUME NEW s \in Segments, NEW g \in Groups, CreateSegment(s, g) \/ SwapGroup(s, g)
      PROVE  SegmentsGrounded'
  <2>1. group' = group /\ segment' = [segment EXCEPT ![s] = g] /\ Resolve(g) # {}
    BY <1>7 DEF CreateSegment, SwapGroup, FitsZone, Redrawn, inventory
  <2>2. group[g] # Absent
    BY <2>1 DEF Resolve, Absent
  <2>3. ASSUME NEW t \in Segments, segment'[t] # "none" PROVE group'[segment'[t]] # Absent
    <3>1. CASE t = s
      BY <2>1, <2>2, <3>1 DEF Shaped, TypeOK
    <3>2. CASE t # s
      <4>1. segment'[t] = segment[t]
        BY <2>1, <3>2 DEF Shaped, TypeOK
      <4> QED BY <2>1, <2>3, <4>1 DEF SegmentsGrounded, Existing
    <3> QED BY <3>1, <3>2
  <2> QED BY <2>3 DEF SegmentsGrounded, Existing
<1>8. ASSUME NEW s \in Segments, DeleteSegment(s) PROVE SegmentsGrounded'
  BY <1>8 DEF DeleteSegment, Redrawn, inventory, SegmentsGrounded, Existing, Shaped, TypeOK
<1>9. CASE \/ \E s, t \in Segments, policy \in {"allow", "block"} : SetCell(s, t, policy)
           \/ \E default \in {"permit", "deny"} : RequestDefault(default)
           \/ RejectDefault \/ SetDefault
  BY <1>1, <1>9 DEF SetCell, RequestDefault, RejectDefault, SetDefault, SentBack, inventory
<1>10. ASSUME NEW w \in Workloads,
              DeleteWorkload(w) \/ \E shape \in Shapes[w] : CreateWorkload(w, shape) \/ UpdateWorkload(w, shape)
       PROVE  SegmentsGrounded'
  BY <1>1, <1>10 DEF CreateWorkload, UpdateWorkload, DeleteWorkload, matrix
<1>11. CASE (\E shapes \in Found : ImportWorkloads(shapes)) \/ ImportResync \/ ImportRefused
  BY <1>1, <1>11 DEF ImportWorkloads, ImportResync, ImportRefused, inventory, matrix
<1>12. ASSUME NEW r \in Rules, WriteRule(r) \/ RestoreVersion(r) \/ Submit(r) \/ Approve(r) \/ Implemented(r)
       PROVE  SegmentsGrounded'
  BY <1>1, <1>12 DEF WriteRule, RestoreVersion, Submit, Approve, Implemented, Stored, inventory, matrix
<1>13. CASE UNCHANGED vars
  BY <1>1, <1>13 DEF vars, inventory, matrix
<1> QED
  BY <1>5, <1>6, <1>7, <1>8, <1>9, <1>10, <1>11, <1>12, <1>13 DEF Next

----------------------------------------------------------------------------
(* What the matrix says of a rule. *)

\* The segment that a list resolves to, by the segments it hits.
Alone(H) == IF Cardinality(H \ {0}) = 1 THEN CHOOSE s \in H \ {0} : TRUE ELSE 0

\* StoredVerdict, by the zones and the segments of a rule's sides.
Ruled(z, place, empty, default, cells) ==
    IF z.source # z.destination THEN <<z.source, z.destination>> \in Permitted
    ELSE z.source = SegmentedZone /\ ~empty =>
        /\ \A side \in Sides :
              Cardinality(place[side] \ {0}) <= 1 /\ (default = "deny" => 0 \notin place[side])
        /\ LET a == Alone(place.source)
               b == Alone(place.destination)
           IN  0 \notin {a, b} => cells[<<a, b>>] = "allow" \/ (cells[<<a, b>>] = "none" /\ default # "deny")

LEMMA PlaceHits ==
    \A r \in Rules, side \in Sides :
        /\ SegmentsHit(members[r][side]) = Place(r)[side] \ {0}
        /\ (Unsegmented(members[r][side]) <=> 0 \in Place(r)[side])
        /\ SegmentFor(members[r][side]) = Alone(Place(r)[side])
<1> SUFFICES ASSUME NEW r \in Rules, NEW side \in Sides
             PROVE  /\ SegmentsHit(members[r][side]) = Place(r)[side] \ {0}
                    /\ (Unsegmented(members[r][side]) <=> 0 \in Place(r)[side])
                    /\ SegmentFor(members[r][side]) = Alone(Place(r)[side])
  OBVIOUS
<1>1. Place(r)[side] = Spread(members[r][side])
  BY DEF Place
<1>2. SegmentsHit(members[r][side]) = Place(r)[side] \ {0}
  BY <1>1 DEF SegmentsHit
<1>3. Unsegmented(members[r][side]) <=> 0 \in Place(r)[side]
  BY <1>1 DEF Unsegmented
<1>4. SegmentFor(members[r][side]) = Alone(Place(r)[side])
  BY <1>2 DEF SegmentFor, Alone
<1> QED BY <1>2, <1>3, <1>4

LEMMA VerdictRuled ==
    \A r \in Rules : StoredVerdict(r) <=> Ruled(zone[r], Place(r), Existing = {}, intra, cell)
<1> SUFFICES ASSUME NEW r \in Rules
             PROVE  StoredVerdict(r) <=> Ruled(zone[r], Place(r), Existing = {}, intra, cell)
  OBVIOUS
<1> DEFINE src == members[r].source
           dst == members[r].destination
<1>1. /\ SegmentsHit(src) = Place(r).source \ {0} /\ SegmentsHit(dst) = Place(r).destination \ {0}
      /\ Unsegmented(src) <=> 0 \in Place(r).source
      /\ Unsegmented(dst) <=> 0 \in Place(r).destination
      /\ SegmentFor(src) = Alone(Place(r).source) /\ SegmentFor(dst) = Alone(Place(r).destination)
  BY PlaceHits DEF Sides
<1>2. SegmentVerdict(src, dst) <=>
        (Existing # {} =>
           /\ \A A \in {src, dst} : Cardinality(SegmentsHit(A)) <= 1 /\ (intra = "deny" => ~Unsegmented(A))
           /\ LET a == SegmentFor(src)
                  b == SegmentFor(dst)
              IN  0 \notin {a, b} => cell[<<a, b>>] = "allow" \/ (cell[<<a, b>>] = "none" /\ intra # "deny"))
  BY DEF SegmentVerdict, Denies
<1> HIDE DEF src, dst
<1>3. (\A A \in {src, dst} : Cardinality(SegmentsHit(A)) <= 1 /\ (intra = "deny" => ~Unsegmented(A)))
        <=> \A side \in Sides :
              Cardinality(Place(r)[side] \ {0}) <= 1 /\ (intra = "deny" => 0 \notin Place(r)[side])
  BY <1>1 DEF Sides
<1>4. StoredVerdict(r) <=>
        IF zone[r].source # zone[r].destination THEN <<zone[r].source, zone[r].destination>> \in Permitted
        ELSE zone[r].source = SegmentedZone => SegmentVerdict(src, dst)
  BY DEF StoredVerdict, src, dst
<1> QED BY <1>1, <1>2, <1>3, <1>4 DEF Ruled

LEMMA VerdictRuledNext ==
    (\A r \in Rules : StoredVerdict(r) <=> Ruled(zone[r], Place(r), Existing = {}, intra, cell))'
BY VerdictRuled, PTL

\* A rule that stays where it is keeps its verdict while the matrix stays.
LEMMA VerdictStays ==
    ASSUME NEW r \in Rules, zone'[r] = zone[r], Place(r)' = Place(r),
           UNCHANGED <<segment, cell, intra>>
    PROVE  StoredVerdict(r)' <=> StoredVerdict(r)
<1>1. Existing' = Existing
  BY DEF Existing
<1> QED BY <1>1, VerdictRuled, VerdictRuledNext

----------------------------------------------------------------------------
(* What is in force is what the segment matrix admits. *)

LEMMA PlaceKeeps ==
    ASSUME \A n : SegmentOf(n)' = SegmentOf(n), NEW r \in Rules, members'[r] = members[r]
    PROVE  Place(r)' = Place(r)
<1>1. \A A : {SegmentOf(n)' : n \in A} = {SegmentOf(n) : n \in A}
  OBVIOUS
<1>2. \A side \in Sides : Spread(members[r][side])' = Spread(members[r][side])
  BY <1>1 DEF Spread
<1> QED BY <1>2 DEF Place

LEMMA SegmentOfStays ==
    ASSUME UNCHANGED inventory, UNCHANGED segment
    PROVE  \A n : SegmentOf(n)' = SegmentOf(n)
<1>1. Existing' = Existing
  BY DEF Existing
<1>2. \A s \in Existing : SegmentNetworks(s)' = SegmentNetworks(s)
  BY DEF SegmentNetworks, Resolve, Selected, Present, inventory
<1> QED BY <1>1, <1>2, SegmentOfKeeps

LEMMA WrittenVerdict ==
    \A r \in Rules :
        Passes(r) /\ members[r] = Expanded(r) /\ zone[r] = ZonesOf(Expanded(r)) => StoredVerdict(r)
<1> SUFFICES ASSUME NEW r \in Rules, Passes(r), members[r] = Expanded(r), zone[r] = ZonesOf(Expanded(r))
             PROVE  StoredVerdict(r)
  OBVIOUS
<1>1. /\ zone[r].source = ZoneOf(members[r].source)
      /\ zone[r].destination = ZoneOf(members[r].destination)
  BY DEF ZonesOf, Sides
<1>2. PairAllowed(members[r])
  BY DEF Passes, Admissible
<1> QED BY <1>1, <1>2 DEF PairAllowed, StoredVerdict

LEMMA WrittenVerdictNext ==
    (\A r \in Rules :
        Passes(r) /\ members[r] = Expanded(r) /\ zone[r] = ZonesOf(Expanded(r)) => StoredVerdict(r))'
BY WrittenVerdict, PTL

LEMMA ResyncAdmitted ==
    ASSUME Shaped, StandingRulesAdmitted, NEW names, NEW reset, NEW unseen,
           Resync(names, reset, unseen), UNCHANGED matrix
    PROVE  StandingRulesAdmitted'
<1> DEFINE moved == {q \in Referring(names) : Expanded(q)' # members[q]}
<1> SUFFICES ASSUME NEW r \in Rules, Standing(r)', r \notin adrift'
             PROVE  StoredVerdict(r)'
  BY DEF StandingRulesAdmitted
<1>1. CASE r \in moved
  <2>1. Passes(r)' /\ members'[r] = Expanded(r)'
    BY <1>1 DEF Resync, AllPass
  <2>2. zone'[r] = ZonesOf(Expanded(r))'
    BY <1>1 DEF Resync
  <2> QED BY <2>1, <2>2, WrittenVerdictNext
<1>2. CASE r \notin moved
  <2>1. zone'[r] = zone[r] /\ status'[r] = status[r]
    BY <1>2 DEF Resync
  <2>2. r \notin adrift /\ Place(r)' = Place(r)
    BY <1>2 DEF Resync, Drift
  <2>3. Standing(r)
    BY <2>1 DEF Standing
  <2> QED BY <2>1, <2>2, <2>3, VerdictStays DEF StandingRulesAdmitted, matrix
<1> QED BY <1>1, <1>2

\* No boundary moves and no address of a rule: what was in force still may be.
LEMMA StillAdmitted ==
    ASSUME StandingRulesAdmitted, \A n : SegmentOf(n)' = SegmentOf(n),
           UNCHANGED <<segment, cell, intra, status, members, zone, adrift>>
    PROVE  StandingRulesAdmitted'
<1> SUFFICES ASSUME NEW r \in Rules, Standing(r), r \notin adrift
             PROVE  StoredVerdict(r)'
  BY DEF StandingRulesAdmitted, Standing
<1>1. Place(r)' = Place(r)
  BY PlaceKeeps
<1> QED BY <1>1, VerdictStays DEF StandingRulesAdmitted

\* One rule is written: it is not in force, or what it says is admitted.
LEMMA StoredAdmitted ==
    ASSUME Shaped, StandingRulesAdmitted, NEW r \in Rules, NEW m, NEW z, NEW st, Stored(r, m, z, st),
           st \in InForce /\ r \notin adrift' => m = members[r] /\ z = zone[r] /\ StoredVerdict(r),
           adrift \subseteq adrift' \cup {r}
    PROVE  StandingRulesAdmitted'
<1> SUFFICES ASSUME NEW q \in Rules, Standing(q)', q \notin adrift'
             PROVE  StoredVerdict(q)'
  BY DEF StandingRulesAdmitted
<1>1. \A n : SegmentOf(n)' = SegmentOf(n)
  BY SegmentOfStays DEF Stored, matrix
<1>2. members'[q] = members[q] /\ zone'[q] = zone[q] /\ StoredVerdict(q)
  <2>1. CASE q = r
    <3>1. status'[q] = st /\ members'[q] = m /\ zone'[q] = z
      BY <2>1 DEF Stored, Shaped, TypeOK
    <3> QED BY <2>1, <3>1 DEF Standing
  <2>2. CASE q # r
    <3>1. status'[q] = status[q] /\ members'[q] = members[q] /\ zone'[q] = zone[q]
      BY <2>2 DEF Stored, Shaped, TypeOK
    <3> QED BY <2>2, <3>1 DEF Standing, StandingRulesAdmitted
  <2> QED BY <2>1, <2>2
<1>3. Place(q)' = Place(q)
  BY <1>1, <1>2, PlaceKeeps
<1> QED BY <1>2, <1>3, VerdictStays DEF Stored, matrix

\* A segment is made, gets another group, or goes: what stays where it is, and is
\* not among the unasked, is admitted.
LEMMA RedrawnAdmitted ==
    ASSUME Shaped, StandingRulesAdmitted, NEW unasked, Redrawn(unasked), UNCHANGED status,
           \A r \in Rules \ unasked : Standing(r) /\ Place(r)' = Place(r) /\ StoredVerdict(r)
                               => Ruled(zone[r], Place(r), Existing' = {}, intra', cell')
    PROVE  StandingRulesAdmitted'
<1> SUFFICES ASSUME NEW r \in Rules, Standing(r), r \notin adrift'
             PROVE  StoredVerdict(r)'
  BY DEF StandingRulesAdmitted, Standing
<1>1. r \notin adrift \cup unasked /\ Place(r)' = Place(r) /\ zone'[r] = zone[r]
  BY DEF Redrawn
<1>2. StoredVerdict(r)
  BY <1>1 DEF StandingRulesAdmitted
<1>3. Ruled(zone[r], Place(r), Existing' = {}, intra', cell')
  BY <1>1, <1>2
<1> QED BY <1>1, <1>3, VerdictRuledNext

\* Where there was no segment, nothing lay in one.
LEMMA NoSegments ==
    ASSUME Shaped, Existing = {}, NEW r \in Rules, NEW side \in Sides
    PROVE  Place(r)[side] \ {0} = {} /\ Alone(Place(r)[side]) = 0
<1>1. \A n : SegmentOf(n) = 0
  BY SegmentOfType
<1>2. SegmentsHit(members[r][side]) = {}
  BY <1>1 DEF SegmentsHit, Spread
<1>3. Place(r)[side] \ {0} = {}
  BY <1>2, PlaceHits
<1> QED BY <1>3, FS_EmptySet DEF Alone

\* A rule that the matrix of the segmented zone decides on lies inside it.
LEMMA InsideZone ==
    ASSUME Shaped, NEW r \in Rules, zone[r].source = zone[r].destination, zone[r].source = SegmentedZone
    PROVE  Inside(r)
<1>1. zone[r] = [side \in Sides |-> zone[r][side]]
  BY DEF Shaped
<1>2. \A side \in Sides : zone[r][side] = SegmentedZone
  BY DEF Sides
<1> QED BY <1>1, <1>2 DEF Inside

\* The first segment does not touch what lies elsewhere; a default that waited for
\* it reaches the rules it has not asked, and with it no other.
LEMMA SwappedAdmitted ==
    ASSUME Shaped, StandingRulesAdmitted, NEW s \in Segments, NEW g \in Groups,
           CreateSegment(s, g) \/ SwapGroup(s, g)
    PROVE  StandingRulesAdmitted'
<1> DEFINE unasked == DeniedUnasked
<1>1. Redrawn(IF segment[s] = "none" THEN unasked ELSE {}) /\ UNCHANGED <<cell, intra, status>>
  BY DEF CreateSegment, SwapGroup
<1>2. segment[s] # "none" => Existing # {}
  BY DEF Existing
<1>3. ASSUME NEW r \in Rules, Standing(r), StoredVerdict(r),
             r \notin (IF segment[s] = "none" THEN unasked ELSE {})
      PROVE  Ruled(zone[r], Place(r), Existing' = {}, intra, cell)
  <2>1. Ruled(zone[r], Place(r), Existing = {}, intra, cell)
    BY <1>3, VerdictRuled
  <2>2. CASE zone[r].source # zone[r].destination \/ zone[r].source # SegmentedZone
    BY <2>1, <2>2 DEF Ruled
  <2>3. CASE Existing = {} /\ zone[r].source = zone[r].destination /\ zone[r].source = SegmentedZone
    <3>1. intra # "deny"
      BY <1>2, <1>3, <2>3, InsideZone DEF DeniedUnasked, Denies
    <3>2. \A side \in Sides : Place(r)[side] \ {0} = {} /\ Alone(Place(r)[side]) = 0
      BY <2>3, NoSegments
    <3>3. Cardinality({}) <= 1
      BY FS_EmptySet
    <3>4. /\ \A side \in Sides : Cardinality(Place(r)[side] \ {0}) <= 1
          /\ Alone(Place(r).source) = 0
      BY <3>2, <3>3 DEF Sides
    <3> QED BY <2>3, <3>1, <3>4 DEF Ruled
  <2>4. CASE Existing # {}
    BY <2>1, <2>4 DEF Ruled
  <2> QED BY <2>2, <2>3, <2>4
<1> HIDE DEF unasked
<1> QED BY <1>1, <1>3, RedrawnAdmitted

LEMMA RuledPair ==
    ASSUME Shaped, NEW r \in Rules
    PROVE  /\ Alone(Place(r).source) # 0 => Alone(Place(r).source) \in Existing \cap Place(r).source
           /\ Alone(Place(r).destination) # 0 => Alone(Place(r).destination) \in Existing \cap Place(r).destination
<1>1. \A side \in Sides :
        SegmentFor(members[r][side]) # 0 => SegmentFor(members[r][side]) \in Existing \cap Place(r)[side]
  BY SegmentForExists, SegmentForType, PlaceHits
<1>2. \A side \in Sides : Alone(Place(r)[side]) # 0 => Alone(Place(r)[side]) \in Existing \cap Place(r)[side]
  BY <1>1, PlaceHits
<1> QED BY <1>2 DEF Sides

LEMMA DeletedAdmitted ==
    ASSUME Shaped, StandingRulesAdmitted, NEW s \in Segments, DeleteSegment(s)
    PROVE  StandingRulesAdmitted'
<1>1. Redrawn({}) /\ UNCHANGED status /\ TouchedBy(s) = {} /\ Cleared(s) /\ s \in Existing
  BY DEF DeleteSegment, Existing
<1>2. Existing' = Existing \ {s}
  BY DEF DeleteSegment, Existing, Shaped, TypeOK
<1>3. ASSUME NEW r \in Rules, Standing(r), StoredVerdict(r)
      PROVE  Ruled(zone[r], Place(r), Existing' = {}, intra', cell')
  <2>1. Ruled(zone[r], Place(r), Existing = {}, intra, cell)
    BY <1>3, VerdictRuled
  <2>2. CASE zone[r].source # zone[r].destination \/ zone[r].source # SegmentedZone \/ Existing' = {}
    BY <2>1, <2>2 DEF Ruled
  <2>3. CASE ~(zone[r].source # zone[r].destination \/ zone[r].source # SegmentedZone \/ Existing' = {})
    <3> DEFINE a == Alone(Place(r).source)
               b == Alone(Place(r).destination)
    <3>1. intra' = intra
      BY <1>1, <1>2, <2>3 DEF Cleared
    <3>2. /\ \A side \in Sides :
                Cardinality(Place(r)[side] \ {0}) <= 1 /\ (intra = "deny" => 0 \notin Place(r)[side])
          /\ 0 \notin {a, b} => cell[<<a, b>>] = "allow" \/ (cell[<<a, b>>] = "none" /\ intra # "deny")
      BY <1>1, <2>1, <2>3 DEF Ruled
    <3>3. s \notin SegmentsHit(members[r].source) \cup SegmentsHit(members[r].destination)
      BY <1>1, <1>3, <2>3, InsideZone DEF TouchedBy, Touches
    <3>4. s \notin (Place(r).source \cup Place(r).destination) \ {0}
      BY <3>3, PlaceHits DEF Sides
    <3>5. 0 \notin {a, b} => a \in Existing /\ b \in Existing /\ s \notin {a, b}
      BY <3>4, RuledPair
    <3>6. 0 \notin {a, b} => cell'[<<a, b>>] = cell[<<a, b>>]
      <4>1. 0 \notin {a, b} => <<a, b>> \in DOMAIN cell
        BY <3>5 DEF Existing, Shaped, TypeOK
      <4> HIDE DEF a, b
      <4> QED BY <1>1, <3>5, <4>1 DEF Cleared
    <3> QED BY <2>3, <3>1, <3>2, <3>6 DEF Ruled
  <2> QED BY <2>2, <2>3
<1> QED BY <1>1, <1>3, RedrawnAdmitted

\* A cell or the default is set: what it does not send back is admitted.
LEMMA SentBackAdmitted ==
    ASSUME Shaped, StandingRulesAdmitted, NEW R \in SUBSET Rules, SentBack(R), adrift \subseteq adrift',
           \A r \in Rules : Standing(r) /\ r \notin R /\ r \notin adrift' /\ StoredVerdict(r)
                               => Ruled(zone[r], Place(r), Existing = {}, intra', cell')
    PROVE  StandingRulesAdmitted'
<1> SUFFICES ASSUME NEW r \in Rules, Standing(r)', r \notin adrift'
             PROVE  StoredVerdict(r)'
  BY DEF StandingRulesAdmitted
<1>1. r \notin R /\ Standing(r)
  BY DEF SentBack, Standing, InForce
<1>2. members'[r] = members[r] /\ zone'[r] = zone[r] /\ Existing' = Existing
  BY DEF SentBack, Existing
<1>3. \A n : SegmentOf(n)' = SegmentOf(n)
  BY SegmentOfStays DEF SentBack
<1>4. Place(r)' = Place(r)
  BY <1>2, <1>3, PlaceKeeps
<1>5. StoredVerdict(r)
  BY <1>1 DEF StandingRulesAdmitted
<1>6. Ruled(zone[r], Place(r), Existing = {}, intra', cell')
  BY <1>1, <1>5
<1> QED BY <1>2, <1>4, <1>6, VerdictRuledNext

LEMMA CellAdmitted ==
    ASSUME Shaped, StandingRulesAdmitted, NEW s \in Segments, NEW t \in Segments,
           NEW policy \in {"allow", "block"}, SetCell(s, t, policy)
    PROVE  StandingRulesAdmitted'
<1> DEFINE R == IF policy = "block" THEN BlockedBy(s, t) ELSE {}
<1>1. /\ SentBack(R) /\ R \in SUBSET Rules
      /\ adrift' = adrift /\ intra' = intra /\ cell' = [cell EXCEPT ![<<s, t>>] = policy]
  BY DEF SetCell, BlockedBy
<1>2. ASSUME NEW r \in Rules, Standing(r), r \notin R, StoredVerdict(r)
      PROVE  Ruled(zone[r], Place(r), Existing = {}, intra', cell')
  <2> DEFINE a == Alone(Place(r).source)
             b == Alone(Place(r).destination)
  <2>1. Ruled(zone[r], Place(r), Existing = {}, intra, cell)
    BY <1>2, VerdictRuled
  <2>2. ASSUME Inside(r), 0 \notin {a, b}
        PROVE  \/ cell'[<<a, b>>] = cell[<<a, b>>]
               \/ cell'[<<a, b>>] = "allow"
    <3>1. <<a, b>> \in DOMAIN cell /\ <<s, t>> \in DOMAIN cell
      BY <2>2, RuledPair DEF Existing, Shaped, TypeOK
    <3>2. CASE <<a, b>> = <<s, t>>
      <4>1. OnRelation(s, t, members[r].source, members[r].destination)
        BY <3>2, PlaceHits DEF OnRelation, Sides
      <4>2. policy # "block"
        BY <1>2, <2>2, <4>1 DEF BlockedBy
      <4> HIDE DEF a, b
      <4> QED BY <1>1, <3>1, <3>2, <4>2
    <3>3. CASE <<a, b>> # <<s, t>>
      <4> HIDE DEF a, b
      <4> QED BY <1>1, <3>1, <3>3
    <3> QED BY <3>2, <3>3
  <2>3. CASE zone[r].source # zone[r].destination \/ zone[r].source # SegmentedZone
    BY <2>1, <2>3 DEF Ruled
  <2>4. CASE zone[r].source = zone[r].destination /\ zone[r].source = SegmentedZone
    <3>1. 0 \notin {a, b} => cell'[<<a, b>>] = cell[<<a, b>>] \/ cell'[<<a, b>>] = "allow"
      BY <2>2, <2>4, InsideZone
    <3> QED BY <1>1, <2>1, <2>4, <3>1 DEF Ruled
  <2> QED BY <2>3, <2>4
<1> HIDE DEF R
<1> QED BY <1>1, <1>2, SentBackAdmitted

LEMMA DefaultAdmitted ==
    ASSUME Shaped, StandingRulesAdmitted, SetDefault
    PROVE  StandingRulesAdmitted'
<1> DEFINE R == IF requested = "deny" THEN DeniedBy ELSE {}
<1>1. /\ SentBack(R) /\ R \in SUBSET Rules /\ adrift \subseteq adrift'
      /\ intra' = requested /\ cell' = cell
  BY DEF SetDefault, DeniedBy
<1>2. ASSUME NEW r \in Rules, Standing(r), r \notin R, r \notin adrift', StoredVerdict(r)
      PROVE  Ruled(zone[r], Place(r), Existing = {}, intra', cell')
  <2>1. Ruled(zone[r], Place(r), Existing = {}, intra, cell)
    BY <1>2, VerdictRuled
  <2>2. CASE zone[r].source # zone[r].destination \/ zone[r].source # SegmentedZone \/ requested # "deny"
    BY <1>1, <2>1, <2>2 DEF Ruled
  <2>3. CASE zone[r].source = zone[r].destination /\ zone[r].source = SegmentedZone /\ requested = "deny"
    <3>1. Inside(r) /\ r \notin DeniedBy
      BY <1>2, <2>3, InsideZone
    <3>2. ~Unmaintained(members[r].source, members[r].destination)
      BY <1>2, <3>1 DEF DeniedBy
    <3>3. r \notin PartlyOutside
      BY <1>2, <2>3 DEF SetDefault
    <3>4. \A side \in Sides : ~Unsegmented(members[r][side])
      BY <1>2, <3>1, <3>3 DEF PartlyOutside
    <3>5. \A side \in Sides : 0 \notin Place(r)[side]
      BY <3>4, PlaceHits
    <3>6. LET a == Alone(Place(r).source)
              b == Alone(Place(r).destination)
          IN  0 \notin {a, b} /\ cell[<<a, b>>] # "none"
      BY <3>2, PlaceHits DEF Unmaintained, Sides
    <3> QED BY <1>1, <2>1, <2>3, <3>5, <3>6 DEF Ruled
  <2> QED BY <2>2, <2>3
<1> HIDE DEF R
<1> QED BY <1>1, <1>2, SentBackAdmitted

LEMMA AdmittedKept ==
    Shaped /\ SegmentsGrounded /\ StandingRulesAdmitted /\ [Next]_vars
        => StandingRulesAdmitted'
<1> SUFFICES ASSUME Shaped, SegmentsGrounded, StandingRulesAdmitted, [Next]_vars
             PROVE  StandingRulesAdmitted'
  OBVIOUS
<1>1. ASSUME NEW w \in Workloads,
             DeleteWorkload(w) \/ \E shape \in Shapes[w] : CreateWorkload(w, shape) \/ UpdateWorkload(w, shape)
      PROVE  StandingRulesAdmitted'
  BY <1>1, ResyncAdmitted DEF CreateWorkload, UpdateWorkload, DeleteWorkload
<1>2. CASE (\E shapes \in Found : ImportWorkloads(shapes)) \/ ImportResync
  BY <1>2, ResyncAdmitted DEF ImportWorkloads, ImportResync
<1>3. CASE ImportRefused \/ UNCHANGED vars
  <2>1. UNCHANGED <<inventory, matrix, rules>>
    BY <1>3 DEF ImportRefused, vars
  <2>2. \A n : SegmentOf(n)' = SegmentOf(n)
    BY <2>1, SegmentOfStays DEF matrix
  <2> QED BY <2>1, <2>2, StillAdmitted DEF rules, matrix
\* A group that no segment has comes or goes.
<1>4. ASSUME NEW g \in Groups, UNCHANGED <<workload, matrix, rules>>,
             \A h \in Groups : h # g => group'[h] = group[h],
             \A s \in Existing : segment[s] # g
      PROVE  StandingRulesAdmitted'
  <2>1. Existing' = Existing /\ \A s \in Existing : segment'[s] = segment[s] /\ segment[s] \in Groups \ {g}
    BY <1>4 DEF Existing, matrix, Shaped, TypeOK
  <2>2. \A h \in Groups \ {g} : Resolve(h)' = Resolve(h)
    BY <1>4 DEF Resolve, Selected, Present
  <2>3. \A s \in Existing : SegmentNetworks(s)' = SegmentNetworks(s)
    <3> SUFFICES ASSUME NEW s \in Existing PROVE SegmentNetworks(s)' = SegmentNetworks(s)
      OBVIOUS
    <3>1. segment[s]' = segment[s]
      BY <2>1
    <3> QED BY <2>1, <2>2, <3>1 DEF SegmentNetworks
  <2>4. \A n : SegmentOf(n)' = SegmentOf(n)
    BY <2>1, <2>3, SegmentOfKeeps
  <2> QED BY <1>4, <2>4, StillAdmitted DEF rules, matrix
<1>5. ASSUME NEW g \in Groups, NEW def \in Definitions[g], CreateGroup(g, def) PROVE StandingRulesAdmitted'
  <2>1. \A s \in Existing : segment[s] # g
    BY <1>5 DEF CreateGroup, SegmentsGrounded
  <2> QED BY <1>4, <1>5, <2>1 DEF CreateGroup, Shaped, TypeOK
<1>6. ASSUME NEW g \in Groups, NEW def \in Definitions[g], UpdateGroup(g, def) PROVE StandingRulesAdmitted'
  BY <1>6, ResyncAdmitted DEF UpdateGroup
<1>7. ASSUME NEW g \in Groups, DeleteGroup(g) PROVE StandingRulesAdmitted'
  <2>1. \A s \in Existing : segment[s] # g
    BY <1>7 DEF DeleteGroup, Existing
  <2> QED BY <1>4, <1>7, <2>1 DEF DeleteGroup, Shaped, TypeOK
<1>8. ASSUME NEW r \in Rules, WriteRule(r) PROVE StandingRulesAdmitted'
  <2>1. (IF Standing(r) \/ ~Live(r) THEN "draft" ELSE status[r]) \notin InForce
    BY DEF Standing, InForce
  <2>2. adrift \subseteq adrift' \cup {r}
    BY <1>8 DEF WriteRule
  <2> QED BY <1>8, <2>1, <2>2, StoredAdmitted DEF WriteRule
<1>9. ASSUME NEW r \in Rules, RestoreVersion(r) PROVE StandingRulesAdmitted'
  <2>1. "draft" \notin InForce
    BY DEF InForce
  <2>2. adrift \subseteq adrift' \cup {r}
    BY <1>9 DEF RestoreVersion
  <2> QED BY <1>9, <2>1, <2>2, StoredAdmitted DEF RestoreVersion
<1>10. ASSUME NEW r \in Rules, Submit(r) PROVE StandingRulesAdmitted'
  <2>1. "in_review" \notin InForce
    BY DEF InForce
  <2> QED BY <1>10, <2>1, StoredAdmitted DEF Submit
<1>11. ASSUME NEW r \in Rules, Approve(r) PROVE StandingRulesAdmitted'
  <2>1. (IF StoredVerdict(r) THEN "approved" ELSE "deactivated") \in InForce => StoredVerdict(r)
    BY DEF InForce
  <2>2. adrift \subseteq adrift' \cup {r}
    BY <1>11 DEF Approve
  <2> QED BY <1>11, <2>1, <2>2, StoredAdmitted DEF Approve
<1>12. ASSUME NEW r \in Rules, Implemented(r) PROVE StandingRulesAdmitted'
  <2>1. r \notin adrift => StoredVerdict(r)
    BY <1>12 DEF Implemented, StandingRulesAdmitted, Standing, InForce
  <2>2. adrift' = adrift
    BY <1>12 DEF Implemented
  <2> QED BY <1>12, <2>1, <2>2, StoredAdmitted DEF Implemented
<1>13. CASE RejectDefault \/ \E default \in {"permit", "deny"} : RequestDefault(default)
  <2>1. UNCHANGED <<inventory, segment, cell, intra, rules>>
    BY <1>13 DEF RequestDefault, RejectDefault
  <2>2. \A n : SegmentOf(n)' = SegmentOf(n)
    BY <2>1, SegmentOfStays
  <2> QED BY <2>1, <2>2, StillAdmitted DEF rules
<1> QED
  BY <1>1, <1>2, <1>3, <1>5, <1>6, <1>7, <1>8, <1>9, <1>10, <1>11, <1>12, <1>13,
     SwappedAdmitted, DeletedAdmitted, CellAdmitted, DefaultAdmitted
  DEF Next

----------------------------------------------------------------------------
(* From the start, and forever. *)

IInv ==
    /\ Shaped
    /\ RulesFollowGroups
    /\ AddressesAdmissible
    /\ NoLeftoverCells
    /\ SegmentsGrounded
    /\ StandingRulesAdmitted

LEMMA InvariantStarts == Init => IInv
<1> SUFFICES ASSUME Init PROVE IInv
  OBVIOUS
<1>1. Shaped
  BY DEF Init, Shaped, TypeOK, Status
<1>2. RulesFollowGroups /\ AddressesAdmissible /\ StandingRulesAdmitted
  BY DEF Init, RulesFollowGroups, AddressesAdmissible, StandingRulesAdmitted, Live, Standing, InForce
<1>3. NoLeftoverCells /\ SegmentsGrounded
  BY DEF Init, NoLeftoverCells, SegmentsGrounded, Existing
<1> QED BY <1>1, <1>2, <1>3 DEF IInv

LEMMA InvariantKept == IInv /\ [Next]_vars => IInv'
BY ShapeKept, FollowsKept, PlacedKept, CellsKept, GroundedKept, AdmittedKept DEF IInv

LEMMA Invariant == Spec => []IInv
BY InvariantStarts, InvariantKept, PTL DEF Spec

\* The inventory, the groups, the segment matrix and the rules keep the shape of
\* their tables under every handler.
THEOREM TypeCorrect == Spec => []TypeOK
<1>1. IInv => TypeOK
  BY DEF IInv, Shaped
<1> QED BY <1>1, Invariant, PTL

\* A rule's addresses are its groups' of today: resynchronisation reaches every
\* rule that a change of a workload, a group or the inventory concerns, but for
\* the rules that a handler leaves behind and `left' names.
THEOREM RulesFollow == Spec => []RulesFollowGroups
<1>1. IInv => RulesFollowGroups
  BY DEF IInv
<1> QED BY <1>1, Invariant, PTL

\* No change of the inventory or of a group takes a rule across zones or out of
\* what is mapped to components: the zones it stores are those of its addresses.
THEOREM AddressesStayAdmissible == Spec => []AddressesAdmissible
<1>1. IInv => AddressesAdmissible
  BY DEF IInv
<1> QED BY <1>1, Invariant, PTL

\* Deleting a segment takes its cells along, in whatever order segments, cells and
\* defaults come and go: the matrix never speaks of a segment that does not exist,
\* and a cell approved for one does not wait for the next of that name.
THEOREM CellsAreOfSegments == Spec => []NoLeftoverCells
<1>1. IInv => NoLeftoverCells
  BY DEF IInv
<1> QED BY <1>1, Invariant, PTL

\* What is in force is what the segment matrix admits, whatever sequence of cells,
\* defaults, segments, groups and reviews came before, but for the rules a boundary
\* has moved under, those a default turned to deny is known not to find because
\* they lie only partly in a segment, and those of a zone where such a default was
\* left without a segment: for every other rule the question a handler asks before
\* it changes the matrix is the one the matrix will be asked about it.
THEOREM StandingAdmitted == Spec => []StandingRulesAdmitted
<1>1. IInv => StandingRulesAdmitted
  BY DEF IInv
<1> QED BY <1>1, Invariant, PTL

=============================================================================
