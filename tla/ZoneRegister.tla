---------------------------- MODULE ZoneRegister ----------------------------
(***************************************************************************)
(* The zones, the networks assigned to them, the zone communication matrix *)
(* and the rules as far as they depend on these, as one record; and what   *)
(* an approved change request does to it, as operators on that record.     *)
(*                                                                         *)
(* A network is known by its CIDR, which no two share; a rule keeps its    *)
(* addresses, and the pair of zones that was derived from them last.  One  *)
(* routing environment is modelled, and no segments inside a zone.         *)
(***************************************************************************)
EXTENDS Naturals, SequencesExt

CONSTANTS
    Zones,         \* zones that exist or may be created
    NoZone,        \* the zone of a network nobody has assigned
    Cidrs,         \* networks that are or may be assigned
    Addresses,
    Covers,        \* Covers[c]: the addresses inside a network
    Prefix,        \* Prefix[c]: its prefix length
    Rules,
    Source, Destination,   \* the addresses of each rule
    FabricRules,   \* rules rolled out on fabrics only, without a firewall
    DefaultDeny    \* the setting zone_matrix_default is "deny"

Policy == {"unset", "allow_only", "block_all"}

\* A draft and a rule in review are alike here: "open".
Live == {"open", "in_force"}
RuleState == Live \cup {"deactivated"}

Pairs == Zones \X Zones

\* What a change request asks for, item by item.
Items ==
    [type : {"zone_create", "zone_delete"}, zone : Zones]
        \cup [type : {"policy"}, from : Zones, to : Zones, policy : Policy \ {"unset"}]
        \cup [type : {"net_add"}, cidr : Cidrs, zone : Zones]
        \cup [type : {"net_delete"}, cidr : Cidrs]
        \cup [type : {"net_update"}, cidr : Cidrs, to : Cidrs, zone : Zones]

Registers ==
    [zones   : SUBSET Zones,
     network : [Cidrs -> Zones \cup {NoZone}],
     policy  : [Pairs -> Policy],
     pair    : [Rules -> Pairs],
     status  : [Rules -> RuleState],
     removal : SUBSET Rules]

ASSUME RegisterAssumption ==
    /\ NoZone \notin Zones
    /\ Covers \in [Cidrs -> SUBSET Addresses] /\ Prefix \in [Cidrs -> Nat]
    \* networks nest: of two that cover an address one is the more specific
    /\ \A c, d \in Cidrs :
          c # d /\ Covers[c] \cap Covers[d] # {} => Prefix[c] # Prefix[d]
    /\ Source \in [Rules -> SUBSET Addresses] /\ Destination \in [Rules -> SUBSET Addresses]
    /\ FabricRules \subseteq Rules
    /\ DefaultDeny \in BOOLEAN

----------------------------------------------------------------------------
(* From addresses to zones. *)

\* zone_for_ip() takes the zone of the longest assigned prefix.
MostSpecific(reg, a, c) ==
    /\ reg.network[c] # NoZone /\ a \in Covers[c]
    /\ \A d \in Cidrs :
          reg.network[d] # NoZone /\ a \in Covers[d] => Prefix[d] <= Prefix[c]

\* All zones a side of a rule lies in.
Hits(reg, side) ==
    {reg.network[c] : c \in {c \in Cidrs : \E a \in side : MostSpecific(reg, a, c)}}

\* Slip: an ambiguous side loses its zone.
DerivedOrNone(hits, old) ==
    IF \E z \in hits : hits = {z} THEN CHOOSE z \in hits : TRUE ELSE NoZone

\* The zone of a side that lies in these zones; without exactly one the old zone
\* is kept.
Derived(hits, old) ==
    IF \E z \in hits : hits = {z} THEN CHOOSE z \in hits : TRUE ELSE old

\* What the matrix says of a pair; a zone it does not know has no relations.
CellOf(reg, pair) == IF pair \in Pairs THEN reg.policy[pair] ELSE "unset"

\* check_zone_pair(): traffic inside a zone is never asked about.
Permitted(reg, pair) ==
    \/ pair[1] = pair[2]
    \/ CellOf(reg, pair) = "allow_only"
    \/ CellOf(reg, pair) = "unset" /\ ~DefaultDeny

\* The zone pair the rule's addresses give now.
NewPair(reg, r) ==
    <<Derived(Hits(reg, Source[r]), reg.pair[r][1]),
      Derived(Hits(reg, Destination[r]), reg.pair[r][2])>>

\* One side of the rule spans several zones.
Ambiguous(reg, r) ==
    \E side \in {Source[r], Destination[r]} : Cardinality(Hits(reg, side)) > 1

\* _assess_rules(): the matrix, one zone to a side, and a firewall between zones.
Admissible(reg, r, pair) ==
    /\ Permitted(reg, pair)
    /\ pair[1] # pair[2] => r \notin FabricRules
    /\ ~Ambiguous(reg, r)

----------------------------------------------------------------------------
(* Network assignments. *)

\* _rules_touching_network(): one of its addresses lies in the network.
Touched(reg, c) ==
    {r \in Rules : reg.status[r] \in Live /\ (Source[r] \cup Destination[r]) \cap Covers[c] # {}}

\* _apply_reassessment(), after the assignment was changed.
Reassessed(reg, c) ==
    LET rules == Touched(reg, c)
        pair  == [r \in Rules |-> IF r \in rules THEN NewPair(reg, r) ELSE reg.pair[r]]
        out   == {r \in rules : ~Admissible(reg, r, pair[r])}
        moved == {r \in rules : pair[r] # reg.pair[r]}
    IN  [reg EXCEPT
            !.pair    = pair,
            !.removal = (@ \ (moved \ out)) \cup out,
            !.status  = [r \in Rules |-> IF r \in out THEN "open" ELSE @[r]]]

NetAdd(reg, item) ==
    IF reg.network[item.cidr] = NoZone
    THEN [reg EXCEPT !.network[item.cidr] = item.zone]
    ELSE reg

NetDelete(reg, item) == [reg EXCEPT !.network[item.cidr] = NoZone]

\* Slip: the rules are reassessed before the new assignment is written.
ReassessedTooEarly(reg, item) ==
    [Reassessed(reg, item.to) EXCEPT
        !.network = [@ EXCEPT ![item.cidr] = NoZone, ![item.to] = item.zone]]

\* A move changes the network's zone, its CIDR, or both; one that is no longer
\* assigned is skipped.
NetUpdate(reg, item) ==
    IF reg.network[item.cidr] = NoZone THEN reg
    ELSE Reassessed([reg EXCEPT
             !.network = [@ EXCEPT ![item.cidr] = NoZone, ![item.to] = item.zone]], item.to)

NetStep(reg, item) ==
    CASE item.type = "net_add"    -> NetAdd(reg, item)
      [] item.type = "net_delete" -> NetDelete(reg, item)
      [] item.type = "net_update" -> NetUpdate(reg, item)
      [] OTHER -> reg

----------------------------------------------------------------------------
(* Zones and matrix cells. *)

ItemsOf(batch, type) == {item \in ToSet(batch) : item.type = type}

ZonesOf(batch, type) == {item.zone : item \in ItemsOf(batch, type)}

\* Zones are created and deleted before anything else; the cells of a deleted
\* zone go with it.
WithZones(reg, batch) ==
    LET gone == ZonesOf(batch, "zone_delete")
    IN  [reg EXCEPT
            !.zones  = (@ \cup ZonesOf(batch, "zone_create")) \ gone,
            !.policy = [p \in Pairs |-> IF p[1] \in gone \/ p[2] \in gone THEN "unset" ELSE @[p]]]

\* Slip: the relation is read backwards.
InForceBack(reg, cells) ==
    {r \in Rules : reg.status[r] = "in_force" /\ <<reg.pair[r][2], reg.pair[r][1]>> \in cells}

\* _affected_rules(..., IN_FORCE)
InForceOn(reg, cells) ==
    {r \in Rules : reg.status[r] = "in_force" /\ reg.pair[r] \in cells}

\* The cells come last; a cell set to Block sends the rules in force on it back
\* into review.
WithCells(reg, batch) ==
    LET set(item) == <<item.from, item.to>>
        items   == ItemsOf(batch, "policy")
        blocked == {set(item) : item \in {item \in items : item.policy = "block_all"}}
        affected == InForceOn(reg, blocked)
    IN  [reg EXCEPT
            !.policy = [p \in Pairs |->
                IF \E item \in items : set(item) = p
                THEN (CHOOSE item \in items : set(item) = p).policy
                ELSE @[p]],
            !.status = [r \in Rules |-> IF r \in affected THEN "open" ELSE @[r]]]

\* The network items of a batch, in the order they were filed.
WithNetworks(reg, batch) ==
    LET done[i \in 0..Len(batch)] ==
            IF i = 0 THEN reg ELSE NetStep(done[i - 1], batch[i])
    IN  done[Len(batch)]

\* What the second approval of a request does.
Apply(reg, batch) == WithCells(WithNetworks(WithZones(reg, batch), batch), batch)

\* Deleting a zone that rules, dead ones included, or networks still refer to.
ZoneInUse(reg, z) ==
    \/ \E r \in Rules : z \in {reg.pair[r][1], reg.pair[r][2]}
    \/ \E c \in Cidrs : reg.network[c] = z

\* Applying refuses the whole request otherwise: zones it names have to exist by
\* then, a zone it deletes is unused, and no two networks share a CIDR.
Applicable(reg, batch) ==
    LET zones == WithZones(reg, batch).zones
    IN  /\ \A z \in ZonesOf(batch, "zone_delete") \cap reg.zones : ~ZoneInUse(reg, z)
        /\ ZonesOf(batch, "net_add") \subseteq zones
        /\ \A item \in ItemsOf(batch, "net_update") :
              reg.network[item.cidr] # NoZone =>
                  /\ item.zone \in zones
                  /\ item.to # item.cidr => reg.network[item.to] = NoZone
        /\ \A item \in ItemsOf(batch, "policy") : {item.from, item.to} \subseteq zones

=============================================================================
