------------------------ MODULE MatrixRequestsProofs ------------------------
(***************************************************************************)
(* Two approvals and one decision for every request, for any number of     *)
(* accounts, requests and sessions, and what the applied batches and the   *)
(* edits beside them do to the register.  The first half is about          *)
(* ZoneRegister: what an approved batch leaves behind, whatever it holds.  *)
(* Its items are applied one after the other; what each keeps is carried   *)
(* to the end of the batch by the least item that would break it.          *)
(***************************************************************************)
EXTENDS MatrixRequests, WellFoundedInduction, TLAPS

\* No rule is in force between zones whose relation is set to Block.
Unblocked(reg) ==
    \A r \in Rules : reg.status[r] = "in_force" /\ reg.pair[r][1] # reg.pair[r][2] =>
        reg.policy[reg.pair[r]] # "block_all"

Sound(reg) == reg \in Registers /\ Unblocked(reg)

----------------------------------------------------------------------------
(* Registers and items. *)

LEMMA Register ==
    ASSUME NEW reg \in Registers
    PROVE  /\ reg.zones \in SUBSET Zones /\ reg.network \in [Cidrs -> Zones \cup {NoZone}]
           /\ reg.policy \in [Pairs -> Policy] /\ reg.pair \in [Rules -> Pairs]
           /\ reg.status \in [Rules -> RuleState] /\ reg.removal \in SUBSET Rules
BY DEF Registers

LEMMA Item ==
    ASSUME NEW item \in Items
    PROVE  /\ item.type \in {"zone_create", "zone_delete", "net_add", "net_update"} => item.zone \in Zones
           /\ item.type \in {"net_add", "net_delete", "net_update"} => item.cidr \in Cidrs
           /\ item.type = "net_update" => item.to \in Cidrs
           /\ item.type = "policy" =>
                 /\ item.from \in Zones /\ item.to \in Zones
                 /\ item.policy \in {"allow_only", "block_all"}
<1>1. CASE item \in [type : {"zone_create", "zone_delete"}, zone : Zones]
  BY <1>1
<1>2. CASE item \in [type : {"policy"}, from : Zones, to : Zones, policy : Policy \ {"unset"}]
  BY <1>2 DEF Policy
<1>3. CASE item \in [type : {"net_add"}, cidr : Cidrs, zone : Zones]
  BY <1>3
<1>4. CASE item \in [type : {"net_delete"}, cidr : Cidrs]
  BY <1>4
<1>5. CASE item \in [type : {"net_update"}, cidr : Cidrs, to : Cidrs, zone : Zones]
  BY <1>5
<1> QED BY <1>1, <1>2, <1>3, <1>4, <1>5 DEF Items

LEMMA BatchItems ==
    ASSUME NEW batch \in Seq(Items)
    PROVE  /\ Len(batch) \in Nat /\ \A i \in 1..Len(batch) : batch[i] \in Items
           /\ ToSet(batch) \in SUBSET Items
           /\ \A i \in 1..Len(batch) : batch[i] \in ToSet(batch)
BY DEF ToSet

LEMMA HitsAreZones == ASSUME NEW reg \in Registers, NEW side PROVE Hits(reg, side) \in SUBSET Zones
<1>1. \A c \in Cidrs : reg.network[c] \in Zones \cup {NoZone}
  BY Register
<1> QED BY <1>1 DEF Hits, MostSpecific

LEMMA DerivedIsZone ==
    ASSUME NEW hits \in SUBSET Zones, NEW old \in Zones
    PROVE  Derived(hits, old) \in Zones
BY DEF Derived

LEMMA NewPairType == ASSUME NEW reg \in Registers, NEW r \in Rules PROVE NewPair(reg, r) \in Pairs
<1>1. reg.pair[r][1] \in Zones /\ reg.pair[r][2] \in Zones
  BY Register DEF Pairs
<1> QED BY <1>1, HitsAreZones, DerivedIsZone DEF NewPair, Pairs

\* A pair of two zones that the matrix permits is not set to Block.
LEMMA PermittedUnblocked ==
    ASSUME NEW reg, NEW pair \in Pairs, Permitted(reg, pair), pair[1] # pair[2]
    PROVE  reg.policy[pair] # "block_all"
BY DEF Permitted, CellOf

----------------------------------------------------------------------------
(* Network items. *)

\* What a reassessment writes.
LEMMA ReassessedFields ==
    ASSUME NEW reg \in Registers, NEW c \in Cidrs
    PROVE  LET new == Reassessed(reg, c)
           IN  /\ new \in Registers
               /\ new.zones = reg.zones /\ new.network = reg.network /\ new.policy = reg.policy
               /\ \A r \in Rules : r \notin Touched(reg, c) =>
                     new.pair[r] = reg.pair[r] /\ new.status[r] = reg.status[r]
               /\ \A r \in Touched(reg, c) :
                     /\ new.pair[r] = NewPair(reg, r)
                     /\ new.status[r] \in {reg.status[r], "open"}
                     /\ new.status[r] = "in_force" => Permitted(reg, NewPair(reg, r))
<1> DEFINE rules == Touched(reg, c)
           pair  == [r \in Rules |-> IF r \in rules THEN NewPair(reg, r) ELSE reg.pair[r]]
           out   == {r \in rules : ~Admissible(reg, r, pair[r])}
           moved == {r \in rules : pair[r] # reg.pair[r]}
           status == [r \in Rules |-> IF r \in out THEN "open" ELSE reg.status[r]]
           removal == (reg.removal \ (moved \ out)) \cup out
           new == Reassessed(reg, c)
<1>1. new = [reg EXCEPT !.pair = pair, !.removal = removal, !.status = status]
  BY DEF Reassessed
<1>2. rules \in SUBSET Rules
  BY DEF Touched
<1>3. pair \in [Rules -> Pairs]
  BY Register, NewPairType
<1>4. status \in [Rules -> RuleState]
  BY Register DEF RuleState, Live
<1>5. out \in SUBSET Rules
  BY <1>2
<1>6. removal \in SUBSET Rules
  BY <1>5, Register
<1>7. \A r \in rules : pair[r] = NewPair(reg, r)
  BY <1>2
<1>8. \A r \in Rules : r \notin rules => pair[r] = reg.pair[r] /\ status[r] = reg.status[r]
  OBVIOUS
<1>9. \A r \in rules : /\ status[r] \in {reg.status[r], "open"}
                       /\ status[r] = "in_force" => Permitted(reg, NewPair(reg, r))
  BY <1>2, <1>7 DEF Admissible
<1> HIDE DEF rules, pair, out, moved, status, removal, new
<1>10. /\ new \in Registers /\ new.zones = reg.zones /\ new.network = reg.network
       /\ new.policy = reg.policy /\ new.pair = pair /\ new.status = status
  BY <1>1, <1>3, <1>4, <1>6 DEF Registers
<1> QED BY <1>7, <1>8, <1>9, <1>10 DEF rules, new

LEMMA ReassessedSound ==
    ASSUME NEW reg, Sound(reg), NEW c \in Cidrs
    PROVE  Sound(Reassessed(reg, c))
<1> DEFINE new == Reassessed(reg, c)
<1>1. reg \in Registers
  BY DEF Sound
<1>2. new \in Registers /\ new.policy = reg.policy
  BY <1>1, ReassessedFields
<1>3. ASSUME NEW r \in Rules, new.status[r] = "in_force", new.pair[r][1] # new.pair[r][2]
      PROVE  new.policy[new.pair[r]] # "block_all"
  <2>1. CASE r \in Touched(reg, c)
    <3>1. new.pair[r] = NewPair(reg, r) /\ Permitted(reg, NewPair(reg, r))
      BY <1>1, <1>3, <2>1, ReassessedFields
    <3> HIDE DEF new
    <3> QED BY <1>1, <1>2, <1>3, <3>1, NewPairType, PermittedUnblocked
  <2>2. CASE r \notin Touched(reg, c)
    <3>1. new.pair[r] = reg.pair[r] /\ new.status[r] = reg.status[r]
      BY <1>1, <2>2, ReassessedFields
    <3> HIDE DEF new
    <3> QED BY <1>2, <1>3, <3>1 DEF Sound, Unblocked
  <2> QED BY <2>1, <2>2
<1> HIDE DEF new
<1>4. Sound(new)
  BY <1>2, <1>3 DEF Sound, Unblocked
<1> QED BY <1>4 DEF new

\* Assigning networks alone changes no relation of a rule.
LEMMA AssignedSound ==
    ASSUME NEW reg, Sound(reg), NEW network \in [Cidrs -> Zones \cup {NoZone}]
    PROVE  LET new == [reg EXCEPT !.network = network]
           IN  /\ Sound(new) /\ new.network = network
               /\ new.pair = reg.pair /\ new.status = reg.status /\ new.policy = reg.policy
<1> DEFINE new == [reg EXCEPT !.network = network]
<1>1. /\ new \in Registers /\ new.network = network /\ new.policy = reg.policy
      /\ new.pair = reg.pair /\ new.status = reg.status
  BY DEF Sound, Registers
<1> HIDE DEF new
<1>2. Sound(new)
  BY <1>1 DEF Sound, Unblocked
<1> QED BY <1>1, <1>2 DEF new

LEMMA NetStepSound ==
    ASSUME NEW reg, Sound(reg), NEW item \in Items
    PROVE  Sound(NetStep(reg, item))
<1>0. reg \in Registers /\ reg.network \in [Cidrs -> Zones \cup {NoZone}]
  BY Register DEF Sound
<1>1. CASE item.type = "net_add"
  <2>1. [reg.network EXCEPT ![item.cidr] = item.zone] \in [Cidrs -> Zones \cup {NoZone}]
    BY <1>0, <1>1, Item
  <2>2. Sound(NetAdd(reg, item))
    BY <2>1, AssignedSound DEF NetAdd
  <2> QED BY <1>1, <2>2 DEF NetStep
<1>2. CASE item.type = "net_delete"
  <2>1. [reg.network EXCEPT ![item.cidr] = NoZone] \in [Cidrs -> Zones \cup {NoZone}]
    BY <1>0
  <2>2. Sound(NetDelete(reg, item))
    BY <2>1, AssignedSound DEF NetDelete
  <2> QED BY <1>2, <2>2 DEF NetStep
<1>3. CASE item.type = "net_update"
  <2>1. [reg.network EXCEPT ![item.cidr] = NoZone, ![item.to] = item.zone]
            \in [Cidrs -> Zones \cup {NoZone}]
    BY <1>0, <1>3, Item
  <2>2. item.to \in Cidrs
    BY <1>3, Item
  <2>3. Sound(NetUpdate(reg, item))
    BY <2>1, <2>2, AssignedSound, ReassessedSound DEF NetUpdate
  <2> QED BY <1>3, <2>3 DEF NetStep
<1>4. CASE item.type \notin {"net_add", "net_delete", "net_update"}
  BY <1>4 DEF NetStep
<1> QED BY <1>1, <1>2, <1>3, <1>4

----------------------------------------------------------------------------
(* A batch, item by item. *)

LEMMA LeastOf ==
    ASSUME NEW S \in SUBSET Nat, S # {}
    PROVE  \E m \in S : \A k \in S : m <= k
<1>1. PICK m \in S : \A k \in S : ~ (<<k, m>> \in OpToRel(<, Nat))
  BY WFMin, NatLessThanWellFounded
<1>2. \A k \in S : ~ (k < m)
  BY <1>1 DEF OpToRel
<1> QED BY <1>2

Steps(reg, batch, n, done) ==
    done = [i \in 0..n |-> IF i = 0 THEN reg ELSE NetStep(done[i - 1], batch[i])]

\* The registers between the items exist: the first number of items for which they
\* do not would be one more than a number for which they do.
LEMMA StepsExist ==
    ASSUME NEW reg, NEW batch, NEW n \in Nat
    PROVE  \E done : Steps(reg, batch, n, done)
<1> DEFINE Bad == {k \in Nat : ~ \E done : Steps(reg, batch, k, done)}
<1>1. CASE Bad = {}
  BY <1>1
<1>2. CASE Bad # {}
  <2>1. PICK m \in Bad : \A k \in Bad : m <= k
    <3>1. Bad \in SUBSET Nat
      OBVIOUS
    <3> HIDE DEF Bad
    <3> QED BY <1>2, <3>1, LeastOf
  <2>2. m # 0
    <3> DEFINE first == [i \in 0..0 |-> reg]
    <3>1. Steps(reg, batch, 0, first)
      BY DEF Steps
    <3> QED BY <2>1, <3>1
  <2>3. m - 1 \in Nat /\ m - 1 \notin Bad
    BY <2>1, <2>2
  <2>4. PICK done : Steps(reg, batch, m - 1, done)
    BY <2>3
  <2> DEFINE more == [i \in 0..m |-> IF i = m THEN NetStep(done[m - 1], batch[m]) ELSE done[i]]
  <2>5. \A i \in 0..(m - 1) : done[i] = IF i = 0 THEN reg ELSE NetStep(done[i - 1], batch[i])
    BY <2>4 DEF Steps
  <2>6. \A i \in 0..(m - 1) : more[i] = done[i]
    BY <2>1, <2>3
  <2>7. ASSUME NEW i \in 0..m PROVE more[i] = IF i = 0 THEN reg ELSE NetStep(more[i - 1], batch[i])
    <3>1. CASE i = m
      <4>1. m - 1 \in 0..(m - 1) /\ more[m] = NetStep(done[m - 1], batch[m])
        BY <2>3
      <4> HIDE DEF more
      <4> QED BY <2>2, <2>6, <3>1, <4>1
    <3>2. CASE i # m
      <4>1. i \in 0..(m - 1) /\ (i # 0 => i - 1 \in 0..(m - 1))
        BY <2>1, <2>3, <3>2
      <4> HIDE DEF more
      <4> QED BY <2>5, <2>6, <4>1
    <3> QED BY <3>1, <3>2
  <2>8. Steps(reg, batch, m, more)
    <3>1. more = [i \in 0..m |-> more[i]]
      OBVIOUS
    <3> HIDE DEF more
    <3> QED BY <2>7, <3>1 DEF Steps
  <2> QED BY <2>1, <2>8
<1> QED BY <1>1, <1>2

LEMMA ItemByItem ==
    ASSUME NEW reg, NEW batch \in Seq(Items)
    PROVE  \E done : /\ done[0] = reg /\ WithNetworks(reg, batch) = done[Len(batch)]
                     /\ \A i \in 1..Len(batch) : done[i] = NetStep(done[i - 1], batch[i])
<1> DEFINE n == Len(batch)
           done == CHOOSE d : d = [i \in 0..n |-> IF i = 0 THEN reg ELSE NetStep(d[i - 1], batch[i])]
<1>1. n \in Nat
  BY BatchItems
<1>2. Steps(reg, batch, n, done)
  BY <1>1, StepsExist DEF Steps
<1>3. WithNetworks(reg, batch) = done[n]
  BY DEF WithNetworks
<1> HIDE DEF done
<1>4. \A i \in 0..n : done[i] = IF i = 0 THEN reg ELSE NetStep(done[i - 1], batch[i])
  BY <1>2 DEF Steps
<1> QED BY <1>1, <1>3, <1>4

LEMMA WithNetworksSound ==
    ASSUME NEW reg, Sound(reg), NEW batch \in Seq(Items)
    PROVE  Sound(WithNetworks(reg, batch))
<1>1. PICK done : /\ done[0] = reg /\ WithNetworks(reg, batch) = done[Len(batch)]
                  /\ \A i \in 1..Len(batch) : done[i] = NetStep(done[i - 1], batch[i])
  BY ItemByItem
<1>2. Len(batch) \in Nat /\ \A i \in 1..Len(batch) : batch[i] \in Items
  BY BatchItems
<1> DEFINE Bad == {i \in 0..Len(batch) : ~ Sound(done[i])}
<1>3. CASE Bad = {}
  BY <1>1, <1>2, <1>3
<1>4. CASE Bad # {}
  <2>1. PICK m \in Bad : \A k \in Bad : m <= k
    <3>1. Bad \in SUBSET Nat
      BY <1>2
    <3> HIDE DEF Bad
    <3> QED BY <1>4, <3>1, LeastOf
  <2>2. m # 0
    BY <1>1, <2>1
  <2>3. m \in 1..Len(batch) /\ m - 1 \in 0..Len(batch) /\ m - 1 \notin Bad
    BY <1>2, <2>1, <2>2
  <2>4. Sound(done[m - 1])
    BY <2>3
  <2>5. Sound(done[m])
    BY <1>1, <1>2, <2>3, <2>4, NetStepSound
  <2> QED BY <2>1, <2>5
<1> QED BY <1>3, <1>4

----------------------------------------------------------------------------
(* Zones and cells. *)

LEMMA WithZonesSound ==
    ASSUME NEW reg, Sound(reg), NEW batch \in Seq(Items)
    PROVE  LET new == WithZones(reg, batch)
           IN  /\ Sound(new) /\ new.network = reg.network
               /\ new.pair = reg.pair /\ new.status = reg.status
<1> DEFINE gone   == ZonesOf(batch, "zone_delete")
           zones  == (reg.zones \cup ZonesOf(batch, "zone_create")) \ gone
           policy == [p \in Pairs |-> IF p[1] \in gone \/ p[2] \in gone THEN "unset" ELSE reg.policy[p]]
           new    == WithZones(reg, batch)
<1>1. new = [reg EXCEPT !.zones = zones, !.policy = policy]
  BY DEF WithZones
<1>2. zones \in SUBSET Zones
  <2>1. \A item \in ToSet(batch) : item.type = "zone_create" => item.zone \in Zones
    BY BatchItems, Item
  <2> QED BY <2>1, Register DEF ZonesOf, ItemsOf, Sound
<1>3. policy \in [Pairs -> Policy] /\ \A p \in Pairs : policy[p] \in {"unset", reg.policy[p]}
  BY Register DEF Sound, Policy
<1> HIDE DEF gone, zones, policy, new
<1>4. /\ new \in Registers /\ new.network = reg.network /\ new.policy = policy
      /\ new.pair = reg.pair /\ new.status = reg.status
  BY <1>1, <1>2, <1>3 DEF Sound, Registers
<1>5. Unblocked(new)
  <2>1. \A r \in Rules : reg.pair[r] \in Pairs
    BY Register DEF Sound
  <2> QED BY <1>3, <1>4, <2>1 DEF Sound, Unblocked
<1> QED BY <1>4, <1>5 DEF Sound, new

\* The cells of a batch leave nothing in force where they say Block, even when two
\* of them are about the same pair.
LEMMA WithCellsSound ==
    ASSUME NEW reg, Sound(reg), NEW batch \in Seq(Items)
    PROVE  LET new == WithCells(reg, batch)
           IN  Sound(new) /\ new.network = reg.network /\ new.pair = reg.pair
<1> DEFINE set(item) == <<item.from, item.to>>
           items   == ItemsOf(batch, "policy")
           blocked == {set(item) : item \in {item \in items : item.policy = "block_all"}}
           affected == InForceOn(reg, blocked)
           policy  == [p \in Pairs |-> IF \E item \in items : set(item) = p
                                       THEN (CHOOSE item \in items : set(item) = p).policy
                                       ELSE reg.policy[p]]
           status  == [r \in Rules |-> IF r \in affected THEN "open" ELSE reg.status[r]]
           new     == WithCells(reg, batch)
<1>1. new = [reg EXCEPT !.policy = policy, !.status = status]
  BY DEF WithCells
<1>2. \A item \in items : item.policy \in {"allow_only", "block_all"}
  BY BatchItems, Item DEF ItemsOf
<1>3. policy \in [Pairs -> Policy]
  <2>1. ASSUME NEW p \in Pairs, \E item \in items : set(item) = p
        PROVE  (CHOOSE item \in items : set(item) = p).policy \in Policy
    <3>1. (CHOOSE item \in items : set(item) = p) \in items
      BY <2>1
    <3> QED BY <1>2, <3>1 DEF Policy
  <2>2. reg.policy \in [Pairs -> Policy]
    BY Register DEF Sound
  <2> QED BY <2>1, <2>2
<1>4. status \in [Rules -> RuleState]
  BY Register DEF Sound, RuleState, Live
<1>5. \A p \in Pairs : policy[p] = "block_all" => p \in blocked \/ reg.policy[p] = "block_all"
  <2> SUFFICES ASSUME NEW p \in Pairs, policy[p] = "block_all", \E item \in items : set(item) = p
               PROVE  p \in blocked
    OBVIOUS
  <2> DEFINE it == CHOOSE item \in items : set(item) = p
  <2>1. it \in items /\ set(it) = p
    OBVIOUS
  <2>2. it.policy = "block_all"
    OBVIOUS
  <2> HIDE DEF it
  <2> QED BY <2>1, <2>2
<1>6. \A r \in Rules : status[r] = "in_force" => reg.status[r] = "in_force" /\ reg.pair[r] \notin blocked
  BY DEF InForceOn
<1> HIDE DEF items, blocked, affected, policy, status, new
<1>7. /\ new \in Registers /\ new.network = reg.network /\ new.pair = reg.pair
      /\ new.policy = policy /\ new.status = status
  BY <1>1, <1>3, <1>4 DEF Sound, Registers
<1>8. Unblocked(new)
  <2>1. \A r \in Rules : reg.pair[r] \in Pairs
    BY Register DEF Sound
  <2> QED BY <1>5, <1>6, <1>7, <2>1 DEF Sound, Unblocked
<1> QED BY <1>7, <1>8 DEF Sound, new

\* An approved request keeps the register's shape and leaves no rule in force
\* between zones whose relation is set to Block, whatever its items are and in
\* whatever order they come.
THEOREM ApplySound ==
    ASSUME NEW reg, Sound(reg), NEW batch \in Seq(Items)
    PROVE  Sound(Apply(reg, batch))
BY WithZonesSound, WithNetworksSound, WithCellsSound DEF Apply

----------------------------------------------------------------------------
(* Rules follow the networks that move. *)

Assigned(reg, c) == reg.network[c] # NoZone
Lives(reg, r)    == reg.status[r] \in Live

\* The rule has the zones its addresses have.
Follows(reg, r) == reg.pair[r] = NewPair(reg, r)

\* Networks that only change their zone.
OnlyMoves(batch) ==
    \A i \in 1..Len(batch) :
        batch[i].type \in {"net_add", "net_delete", "net_update"} =>
            batch[i].type = "net_update" /\ batch[i].to = batch[i].cidr

LEMMA HitsOf ==
    ASSUME NEW reg, NEW new, new.network = reg.network, NEW side
    PROVE  Hits(new, side) = Hits(reg, side)
BY DEF Hits, MostSpecific

\* A network's move leaves the zones of addresses outside it alone.
LEMMA HitsElsewhere ==
    ASSUME NEW reg, NEW new, NEW cidr \in Cidrs, NEW side, side \cap Covers[cidr] = {},
           \A c \in Cidrs \ {cidr} : new.network[c] = reg.network[c]
    PROVE  Hits(new, side) = Hits(reg, side)
<1>1. \A a \in side : \A c \in Cidrs : a \in Covers[c] => new.network[c] = reg.network[c]
  OBVIOUS
<1>2. \A a \in side : \A c \in Cidrs : MostSpecific(new, a, c) <=> MostSpecific(reg, a, c)
  BY <1>1 DEF MostSpecific
<1>3. \A a \in side : \A c \in Cidrs : MostSpecific(reg, a, c) => new.network[c] = reg.network[c]
  BY <1>1 DEF MostSpecific
<1> QED BY <1>2, <1>3 DEF Hits

LEMMA DerivedTwice ==
    ASSUME NEW hits, NEW old
    PROVE  Derived(hits, Derived(hits, old)) = Derived(hits, old)
BY DEF Derived

\* One move: the rules it touches get the zones their addresses have now, the
\* others keep theirs.
LEMMA MoveFollows ==
    ASSUME NEW reg \in Registers, NEW item \in Items,
           item.type \in {"net_add", "net_delete", "net_update"} =>
               item.type = "net_update" /\ item.to = item.cidr
    PROVE  LET new == NetStep(reg, item)
           IN  /\ \A c \in Cidrs : Assigned(new, c) <=> Assigned(reg, c)
               /\ \A r \in Rules : Lives(new, r) <=> Lives(reg, r)
               /\ \A r \in Rules : Follows(reg, r) => Follows(new, r) \/ ~Lives(reg, r)
               /\ item.type = "net_update" /\ Assigned(reg, item.cidr) =>
                     \A r \in Touched(reg, item.cidr) : Follows(new, r)
<1> DEFINE new == NetStep(reg, item)
<1>1. CASE item.type \notin {"net_add", "net_delete", "net_update"}
  BY <1>1 DEF NetStep
<1>2. CASE item.type = "net_update" /\ ~Assigned(reg, item.cidr)
  BY <1>2 DEF NetStep, NetUpdate, Assigned
<1>3. CASE item.type = "net_update" /\ item.to = item.cidr /\ Assigned(reg, item.cidr)
  <2> DEFINE cidr    == item.cidr
             network == [reg.network EXCEPT ![cidr] = NoZone, ![item.to] = item.zone]
             moved   == [reg EXCEPT !.network = network]
  <2>1. cidr \in Cidrs /\ item.zone \in Zones /\ item.to = cidr
    BY <1>3, Item
  <2>2. /\ network \in [Cidrs -> Zones \cup {NoZone}] /\ network[cidr] = item.zone
        /\ \A c \in Cidrs \ {cidr} : network[c] = reg.network[c]
    BY <2>1, Register
  <2>3. new = Reassessed(moved, cidr)
    BY <1>3, <2>1 DEF NetStep, NetUpdate, Assigned
  <2> HIDE DEF network
  <2>4. /\ moved \in Registers /\ moved.network = network
        /\ moved.pair = reg.pair /\ moved.status = reg.status
    BY <2>2 DEF Registers
  <2> HIDE DEF moved, new, cidr
  <2>5. Touched(moved, cidr) = Touched(reg, cidr)
    BY <2>4 DEF Touched
  <2>6. /\ new.network = network
        /\ \A r \in Rules : r \notin Touched(reg, cidr) =>
              new.pair[r] = reg.pair[r] /\ new.status[r] = reg.status[r]
        /\ \A r \in Touched(reg, cidr) :
              new.pair[r] = NewPair(moved, r) /\ new.status[r] \in {reg.status[r], "open"}
    BY <2>1, <2>3, <2>4, <2>5, ReassessedFields
  <2>7. \A c \in Cidrs : Assigned(new, c) <=> Assigned(reg, c)
    <3>1. item.zone # NoZone
      BY <2>1, RegisterAssumption DEF RegisterAssumption
    <3>2. Assigned(reg, cidr)
      BY <1>3 DEF cidr
    <3> QED BY <2>2, <2>6, <3>1, <3>2 DEF Assigned
  <2>8. \A r \in Rules : Lives(new, r) <=> Lives(reg, r)
    <3>1. \A r \in Touched(reg, cidr) : Lives(reg, r)
      BY DEF Touched, Lives
    <3> QED BY <2>6, <3>1 DEF Lives, Live
  <2>9. \A r \in Touched(reg, cidr) : Follows(new, r)
    <3> SUFFICES ASSUME NEW r \in Touched(reg, cidr) PROVE Follows(new, r)
      OBVIOUS
    <3>1. new.pair[r] = NewPair(moved, r)
      BY <2>6
    <3>2. Hits(new, Source[r]) = Hits(moved, Source[r]) /\ Hits(new, Destination[r]) = Hits(moved, Destination[r])
      BY <2>4, <2>6, HitsOf
    <3>3. /\ new.pair[r][1] = Derived(Hits(moved, Source[r]), moved.pair[r][1])
          /\ new.pair[r][2] = Derived(Hits(moved, Destination[r]), moved.pair[r][2])
      BY <3>1 DEF NewPair
    <3>4. NewPair(new, r) = <<Derived(Hits(moved, Source[r]), moved.pair[r][1]),
                              Derived(Hits(moved, Destination[r]), moved.pair[r][2])>>
      BY <3>2, <3>3, DerivedTwice DEF NewPair
    <3> QED BY <3>1, <3>4 DEF Follows, NewPair
  <2>10. ASSUME NEW r \in Rules, Follows(reg, r), Lives(reg, r) PROVE Follows(new, r)
    <3>1. CASE r \in Touched(reg, cidr)
      BY <2>9, <3>1
    <3>2. CASE r \notin Touched(reg, cidr)
      <4>1. Source[r] \cap Covers[cidr] = {} /\ Destination[r] \cap Covers[cidr] = {}
        BY <2>10, <3>2 DEF Touched, Lives
      <4>2. \A c \in Cidrs \ {cidr} : new.network[c] = reg.network[c]
        BY <2>2, <2>6
      <4>3. \A side : side \cap Covers[cidr] = {} => Hits(new, side) = Hits(reg, side)
        BY <2>1, <4>2, HitsElsewhere
      <4>4. /\ Hits(new, Source[r]) = Hits(reg, Source[r])
            /\ Hits(new, Destination[r]) = Hits(reg, Destination[r])
        BY <4>1, <4>3
      <4> QED BY <2>6, <2>10, <3>2, <4>4 DEF Follows, NewPair
    <3> QED BY <3>1, <3>2
  <2> QED BY <1>3, <2>1, <2>7, <2>8, <2>9, <2>10 DEF new, cidr
<1> QED BY <1>1, <1>2, <1>3

\* The batch up to its i-th item.
Followed(reg, batch, done, i) ==
    /\ Sound(done[i])
    /\ \A c \in Cidrs : Assigned(done[i], c) <=> Assigned(reg, c)
    /\ \A r \in Rules : Lives(done[i], r) <=> Lives(reg, r)
    /\ \A j \in 1..i : batch[j].type = "net_update" /\ Assigned(reg, batch[j].cidr) =>
          \A r \in Touched(reg, batch[j].cidr) : Follows(done[i], r)

LEMMA NetworksFollow ==
    ASSUME NEW reg, Sound(reg), NEW batch \in Seq(Items), OnlyMoves(batch),
           NEW i \in 1..Len(batch), batch[i].type = "net_update", Assigned(reg, batch[i].cidr),
           NEW r \in Touched(reg, batch[i].cidr)
    PROVE  Follows(WithNetworks(reg, batch), r)
<1>1. PICK done : /\ done[0] = reg /\ WithNetworks(reg, batch) = done[Len(batch)]
                  /\ \A k \in 1..Len(batch) : done[k] = NetStep(done[k - 1], batch[k])
  BY ItemByItem, SMTT(60)
<1>2. Len(batch) \in Nat /\ \A k \in 1..Len(batch) : batch[k] \in Items
  BY BatchItems
<1> DEFINE Bad == {k \in 0..Len(batch) : ~ Followed(reg, batch, done, k)}
<1>3. CASE Bad = {}
  <2>1. Followed(reg, batch, done, Len(batch))
    BY <1>2, <1>3
  <2> QED BY <1>1, <2>1 DEF Followed
<1>4. CASE Bad # {}
  <2>1. PICK m \in Bad : \A k \in Bad : m <= k
    <3>1. Bad \in SUBSET Nat
      BY <1>2
    <3> HIDE DEF Bad
    <3> QED BY <1>4, <3>1, LeastOf
  <2>2. m # 0
    <3>1. Followed(reg, batch, done, 0)
      BY <1>1 DEF Followed
    <3> QED BY <2>1, <3>1
  <2>3. m \in 1..Len(batch) /\ m - 1 \in 0..Len(batch) /\ m - 1 \notin Bad
    BY <1>2, <2>1, <2>2
  <2>4. Followed(reg, batch, done, m - 1)
    BY <2>3
  <2> HIDE DEF Bad
  <2> DEFINE old == done[m - 1]
             new == done[m]
             item == batch[m]
  <2>5. new = NetStep(old, item) /\ item \in Items /\ old \in Registers /\ Sound(old)
    BY <1>1, <1>2, <2>3, <2>4 DEF Followed, Sound
  <2>6. item.type \in {"net_add", "net_delete", "net_update"} =>
            item.type = "net_update" /\ item.to = item.cidr
    BY <2>3 DEF OnlyMoves
  <2>7. Sound(new)
    BY <2>5, NetStepSound
  <2> HIDE DEF old, new, item
  <2>8. /\ \A c \in Cidrs : Assigned(new, c) <=> Assigned(old, c)
        /\ \A q \in Rules : Lives(new, q) <=> Lives(old, q)
        /\ \A q \in Rules : Follows(old, q) => Follows(new, q) \/ ~Lives(old, q)
        /\ item.type = "net_update" /\ Assigned(old, item.cidr) =>
              \A q \in Touched(old, item.cidr) : Follows(new, q)
    BY <2>5, <2>6, MoveFollows
  <2>9. /\ \A c \in Cidrs : Assigned(old, c) <=> Assigned(reg, c)
        /\ \A q \in Rules : Lives(old, q) <=> Lives(reg, q)
    BY <2>4 DEF Followed, old
  <2>10. \A c \in Cidrs : Touched(old, c) = Touched(reg, c)
    BY <2>9 DEF Touched, Lives
  <2>11. ASSUME NEW j \in 1..m, batch[j].type = "net_update", Assigned(reg, batch[j].cidr),
                NEW q \in Touched(reg, batch[j].cidr)
         PROVE  Follows(new, q)
    <3>1. q \in Rules /\ Lives(reg, q)
      BY <2>11 DEF Touched, Lives
    <3>2. CASE j = m
      <4>1. item.type = "net_update" /\ item.cidr \in Cidrs /\ batch[j] = item
        BY <2>5, <2>11, <3>2, Item DEF item
      <4> QED BY <2>8, <2>9, <2>10, <2>11, <4>1
    <3>3. CASE j # m
      <4>1. j \in 1..(m - 1)
        BY <2>3, <3>3
      <4>2. Follows(old, q)
        BY <2>4, <2>11, <4>1 DEF Followed, old
      <4> QED BY <2>8, <2>9, <3>1, <4>2
    <3> QED BY <3>2, <3>3
  <2>12. Followed(reg, batch, done, m)
    <3>1. \A c \in Cidrs : Assigned(new, c) <=> Assigned(reg, c)
      BY <2>8, <2>9
    <3>2. \A q \in Rules : Lives(new, q) <=> Lives(reg, q)
      BY <2>8, <2>9
    <3> QED BY <2>7, <2>11, <3>1, <3>2 DEF Followed, new
  <2> QED BY <2>1, <2>12 DEF Bad
<1> QED BY <1>3, <1>4

\* A request whose networks only change zones leaves every rule with an address in
\* one of them on the zones its addresses have once the whole batch is applied.
THEOREM ApplyFollows ==
    ASSUME NEW reg, Sound(reg), NEW batch \in Seq(Items), OnlyMoves(batch),
           NEW i \in 1..Len(batch), batch[i].type = "net_update", Assigned(reg, batch[i].cidr),
           NEW r \in Touched(reg, batch[i].cidr)
    PROVE  Follows(Apply(reg, batch), r)
<1> DEFINE first == WithZones(reg, batch)
           then  == WithNetworks(first, batch)
           last  == WithCells(then, batch)
<1>1. Sound(first) /\ first.network = reg.network /\ first.status = reg.status
  BY WithZonesSound
<1>2. Sound(then)
  BY <1>1, WithNetworksSound
<1> HIDE DEF first
<1>3. Assigned(first, batch[i].cidr) /\ r \in Touched(first, batch[i].cidr)
  BY <1>1 DEF Assigned, Touched
<1>4. Follows(then, r)
  BY <1>1, <1>3, NetworksFollow
<1> HIDE DEF then
<1>5. last.network = then.network /\ last.pair = then.pair
  BY <1>2, WithCellsSound
<1> HIDE DEF last
<1>6. Hits(last, Source[r]) = Hits(then, Source[r]) /\ Hits(last, Destination[r]) = Hits(then, Destination[r])
  BY <1>5, HitsOf
<1>7. Follows(last, r)
  BY <1>4, <1>5, <1>6 DEF Follows, NewPair
<1> QED BY <1>7 DEF Apply, first, then, last

----------------------------------------------------------------------------
(* The requests. *)

States == {"unfiled", "pending", "approved", "rejected"}

Rows ==
    [state : States, by : Users \cup {NoUser}, batch : Offers \cup {<<>>},
     first : Users \cup {NoUser}, decided : Users \cup {NoUser}]

Reads ==
    [user : Users \cup {NoUser}, request : Requests \cup {NoUser}, first : Users \cup {NoUser}]

RowsOK ==
    /\ requests \in [Requests -> Rows]
    /\ session \in [Sessions -> Reads]
    /\ votes \in [Requests -> SUBSET Users]

\* Votes come from approvers other than the requestor, and there are none before
\* a request is filed.
VotesAreOthers ==
    \A q \in Requests :
        /\ votes[q] \subseteq Approvers \ {requests[q].by}
        /\ requests[q].state = "unfiled" => votes[q] = {} /\ requests[q].by = NoUser

\* What a running decision has read: a request that is filed and somebody else's,
\* and at most a first approval that really was given.
ReadsAreTrue ==
    \A s \in Sessions : session[s] # Idle =>
        /\ session[s].request \in Requests
        /\ session[s].user \in Approvers \ {requests[session[s].request].by}
        /\ requests[session[s].request].state # "unfiled"
        /\ session[s].first # NoUser => session[s].first \in votes[session[s].request]

FirstIsVote ==
    \A q \in Requests : requests[q].first # NoUser => requests[q].first \in votes[q]

ReqInv == RowsOK /\ VotesAreOthers /\ ReadsAreTrue /\ FirstIsVote /\ ApprovedByTwoOthers

----------------------------------------------------------------------------
LEMMA InitInv == Init => ReqInv
  BY RequestAssumption
  DEF RequestAssumption, Init, ReqInv, RowsOK, VotesAreOthers, ReadsAreTrue, FirstIsVote,
      ApprovedByTwoOthers, Unfiled, Idle, Rows, Reads, States

LEMMA FilingKeepsInv ==
    ASSUME ReqInv, NEW u \in Users, FileRequest(u)
    PROVE  ReqInv'
  <1> USE RequestAssumption DEF RequestAssumption
  <1>1. PICK q \in Requests, batch \in Offers :
            /\ requests[q].state = "unfiled"
            /\ requests' = [requests EXCEPT ![q] =
                  [Unfiled EXCEPT !.state = "pending", !.by = u, !.batch = batch]]
    BY DEF FileRequest
  <1>2. session' = session /\ votes' = votes
    BY DEF FileRequest
  <1> DEFINE row == [Unfiled EXCEPT !.state = "pending", !.by = u, !.batch = batch]
  <1>3. row \in Rows /\ row.state = "pending" /\ row.by = u /\ row.first = NoUser
    BY DEF Unfiled, Rows, States
  <1>4. requests' \in [Requests -> Rows]
    BY <1>1, <1>3 DEF ReqInv, RowsOK
  <1>5. votes[q] = {}
    BY <1>1 DEF ReqInv, VotesAreOthers
  <1>6. \A p \in Requests : p # q => requests'[p] = requests[p]
    BY <1>1 DEF ReqInv, RowsOK
  <1>7. requests'[q] = row
    BY <1>1 DEF ReqInv, RowsOK
  <1> HIDE DEF row
  <1>8. RowsOK'
    BY <1>2, <1>4 DEF ReqInv, RowsOK
  <1>9. VotesAreOthers' /\ FirstIsVote'
    BY <1>2, <1>3, <1>5, <1>6, <1>7 DEF ReqInv, VotesAreOthers, FirstIsVote
  <1>10. ApprovedByTwoOthers'
    BY <1>2, <1>3, <1>6, <1>7 DEF ReqInv, ApprovedByTwoOthers
  <1>11. ReadsAreTrue'
    BY <1>1, <1>2, <1>6 DEF ReqInv, ReadsAreTrue, Idle
  <1> QED
    BY <1>8, <1>9, <1>10, <1>11 DEF ReqInv

LEMMA OpeningKeepsInv ==
    ASSUME ReqInv, NEW s \in Sessions, NEW u \in Users, OpenDecision(s, u)
    PROVE  ReqInv'
  <1> USE RequestAssumption DEF RequestAssumption
  <1>1. PICK q \in Requests :
            /\ requests[q].state = "pending" /\ requests[q].by # u
            /\ session' = [session EXCEPT ![s] =
                  [user |-> u, request |-> q, first |-> requests[q].first]]
    BY DEF OpenDecision
  <1>2. requests' = requests /\ votes' = votes /\ u \in Approvers
    BY DEF OpenDecision
  <1>3. requests[q].first \in Users \cup {NoUser}
    BY DEF ReqInv, RowsOK, Rows
  <1>4. RowsOK'
    BY <1>1, <1>2, <1>3 DEF ReqInv, RowsOK, Reads
  <1>5. ReadsAreTrue'
    BY <1>1, <1>2 DEF ReqInv, RowsOK, ReadsAreTrue, FirstIsVote, Idle
  <1> QED
    BY <1>2, <1>4, <1>5 DEF ReqInv, VotesAreOthers, FirstIsVote, ApprovedByTwoOthers

LEMMA EndingKeepsInv ==
    ASSUME ReqInv, NEW s \in Sessions, EndDecision(s)
    PROVE  ReqInv'
  <1>1. session' = [session EXCEPT ![s] = Idle] /\ requests' = requests /\ votes' = votes
    BY DEF EndDecision
  <1>2. RowsOK'
    BY <1>1 DEF ReqInv, RowsOK, Reads, Idle
  <1>3. ReadsAreTrue'
    BY <1>1 DEF ReqInv, RowsOK, ReadsAreTrue
  <1> QED
    BY <1>1, <1>2, <1>3 DEF ReqInv, VotesAreOthers, FirstIsVote, ApprovedByTwoOthers

\* What every decision is about: a pending request of somebody else.
LEMMA DecisionIsOthers ==
    ASSUME ReqInv, NEW s \in Sessions, MayDecide(s)
    PROVE  /\ session[s].request \in Requests
           /\ session[s].user \in Approvers
           /\ session[s].user # requests[session[s].request].by
           /\ requests[session[s].request].state = "pending"
           /\ session[s].first # NoUser => session[s].first \in votes[session[s].request]
  BY DEF ReqInv, ReadsAreTrue, MayDecide, StillPending

\* A decision's commit, by whether it votes and what it leaves in the row.
LEMMA CommitKeepsInv ==
    ASSUME ReqInv, NEW s \in Sessions, MayDecide(s),
           NEW q \in Requests, q = session[s].request,
           NEW row \in Rows, row.by = requests[q].by, row.state # "unfiled",
           NEW v \in SUBSET {session[s].user},
           row.first # NoUser => row.first \in votes[q] \cup v,
           row.state = "approved" =>
               \E a, b \in votes[q] \cup v : a # b,
           requests' = [requests EXCEPT ![q] = row],
           votes' = [votes EXCEPT ![q] = @ \cup v],
           session' = [session EXCEPT ![s] = Idle]
    PROVE  ReqInv'
  <1> USE RequestAssumption DEF RequestAssumption
  <1>1. session[s].user \in Approvers \ {requests[q].by} /\ requests[q].state = "pending"
    BY DecisionIsOthers
  <1>2. /\ requests'[q] = row /\ votes'[q] = votes[q] \cup v
        /\ \A p \in Requests : p # q => requests'[p] = requests[p] /\ votes'[p] = votes[p]
        /\ session'[s] = Idle
        /\ \A t \in Sessions : t # s => session'[t] = session[t]
    BY DEF ReqInv, RowsOK
  <1>3. RowsOK'
    <2>1. requests' \in [Requests -> Rows]
      BY DEF ReqInv, RowsOK
    <2>2. session' \in [Sessions -> Reads]
      BY DEF ReqInv, RowsOK, Reads, Idle
    <2>3. votes[q] \cup v \in SUBSET Users
      BY <1>1 DEF ReqInv, RowsOK
    <2>4. votes' \in [Requests -> SUBSET Users]
      BY <2>3 DEF ReqInv, RowsOK
    <2> QED
      BY <2>1, <2>2, <2>4 DEF RowsOK
  <1>4. VotesAreOthers'
    BY <1>1, <1>2 DEF ReqInv, VotesAreOthers
  <1>5. FirstIsVote'
    BY <1>2 DEF ReqInv, FirstIsVote
  <1>6. ReadsAreTrue'
    BY <1>2 DEF ReqInv, ReadsAreTrue
  <1>7. ApprovedByTwoOthers'
    BY <1>2, <1>4 DEF ReqInv, ApprovedByTwoOthers, VotesAreOthers
  <1> QED
    BY <1>3, <1>4, <1>5, <1>6, <1>7 DEF ReqInv

LEMMA FirstKeepsInv ==
    ASSUME ReqInv, NEW s \in Sessions, FirstApproval(s)
    PROVE  ReqInv'
  <1> DEFINE q == session[s].request
             u == session[s].user
             row == [requests[q] EXCEPT !.first = u]
  <1>1. /\ MayDecide(s) /\ q \in Requests /\ u \in Approvers
        /\ requests[q].state = "pending" /\ requests[q] \in Rows
    BY DecisionIsOthers DEF FirstApproval, ReqInv, RowsOK
  <1>2. /\ row \in Rows /\ row.by = requests[q].by /\ row.state = "pending" /\ row.first = u
    BY <1>1, RequestAssumption DEF Rows, RequestAssumption
  <1>3. /\ requests' = [requests EXCEPT ![q] = row]
        /\ votes' = [votes EXCEPT ![q] = @ \cup {u}]
        /\ session' = [session EXCEPT ![s] = Idle]
    BY DEF FirstApproval
  <1> HIDE DEF row
  <1> QED
    BY <1>1, <1>2, <1>3, CommitKeepsInv

LEMMA SecondKeepsInv ==
    ASSUME ReqInv, NEW s \in Sessions, SecondApproval(s)
    PROVE  ReqInv'
  <1> DEFINE q == session[s].request
             u == session[s].user
             row == [requests[q] EXCEPT !.state = "approved", !.decided = u]
  <1>1. /\ MayDecide(s) /\ q \in Requests /\ u \in Approvers /\ requests[q] \in Rows
        /\ session[s].first \in votes[q] /\ session[s].first # u
    BY DecisionIsOthers DEF SecondApproval, SecondOf, ReqInv, RowsOK
  <1>2. /\ row \in Rows /\ row.by = requests[q].by /\ row.state = "approved"
        /\ row.first = requests[q].first
    BY <1>1, RequestAssumption DEF Rows, States, RequestAssumption
  <1>3. row.first # NoUser => row.first \in votes[q]
    BY <1>1, <1>2 DEF ReqInv, FirstIsVote
  <1>4. \E a, b \in votes[q] \cup {u} : a # b
    BY <1>1
  <1>5. /\ requests' = [requests EXCEPT ![q] = row]
        /\ votes' = [votes EXCEPT ![q] = @ \cup {u}]
        /\ session' = [session EXCEPT ![s] = Idle]
    BY DEF SecondApproval
  <1> HIDE DEF row
  <1> QED
    BY <1>1, <1>2, <1>3, <1>4, <1>5, CommitKeepsInv

LEMMA RejectKeepsInv ==
    ASSUME ReqInv, NEW s \in Sessions, RejectRequest(s)
    PROVE  ReqInv'
  <1> DEFINE q == session[s].request
             u == session[s].user
             row == [requests[q] EXCEPT !.state = "rejected", !.decided = u]
  <1>1. MayDecide(s) /\ q \in Requests /\ u \in Approvers /\ requests[q] \in Rows
    BY DecisionIsOthers DEF RejectRequest, ReqInv, RowsOK
  <1>2. /\ row \in Rows /\ row.by = requests[q].by /\ row.state = "rejected"
        /\ row.first = requests[q].first
    BY <1>1, RequestAssumption DEF Rows, States, RequestAssumption
  <1>3. row.first # NoUser => row.first \in votes[q]
    BY <1>1, <1>2 DEF ReqInv, FirstIsVote
  <1> DEFINE v == {}
  <1>4. /\ v \in SUBSET {u} /\ votes[q] \cup v = votes[q]
        /\ votes' = [votes EXCEPT ![q] = @ \cup v]
    BY DEF RejectRequest, ReqInv, RowsOK
  <1>5. /\ requests' = [requests EXCEPT ![q] = row]
        /\ session' = [session EXCEPT ![s] = Idle]
    BY DEF RejectRequest
  <1>6. row.first # NoUser => row.first \in votes[q] \cup v
    BY <1>3, <1>4
  <1>7. row.state # "unfiled" /\ row.state # "approved"
    BY <1>2
  <1> HIDE DEF row, v
  <1> QED
    BY <1>1, <1>2, <1>4, <1>5, <1>6, <1>7, CommitKeepsInv

LEMMA RegisterKeepsInv ==
    ASSUME ReqInv, UNCHANGED <<requests, session, votes>>
    PROVE  ReqInv'
  BY DEF ReqInv, RowsOK, VotesAreOthers, ReadsAreTrue, FirstIsVote, ApprovedByTwoOthers

LEMMA StepInv == ReqInv /\ [Next]_vars => ReqInv'
  <1> SUFFICES ASSUME ReqInv, [Next]_vars PROVE ReqInv'
    OBVIOUS
  <1>1. CASE \E u \in Users : FileRequest(u)
    BY <1>1, FilingKeepsInv
  <1>2. CASE \E s \in Sessions : Deciding(s)
    BY <1>2, FirstKeepsInv, SecondKeepsInv, RejectKeepsInv, EndingKeepsInv DEF Deciding
  <1>3. CASE \E s \in Sessions, u \in Users : OpenDecision(s, u)
    BY <1>3, OpeningKeepsInv
  <1>4. CASE \/ \E u \in Users : CreateZone(u)
             \/ \E r \in Rules : EditRule(r) \/ ApproveRule(r)
    BY <1>4, RegisterKeepsInv DEF CreateZone, EditRule, ApproveRule
  <1>5. CASE UNCHANGED vars
    BY <1>5, RegisterKeepsInv DEF vars
  <1> QED
    BY <1>1, <1>2, <1>3, <1>4, <1>5 DEF Next

THEOREM ReqInvariant == Spec => []ReqInv
  BY InitInv, StepInv, PTL DEF Spec

\* Whatever is applied to zones, networks or matrix was approved by two change
\* approvers, neither of whom asked for it.
THEOREM TwoOthersCorrect == Spec => []ApprovedByTwoOthers
  <1>1. ReqInv => ApprovedByTwoOthers
    BY DEF ReqInv
  <1> QED
    BY <1>1, ReqInvariant, PTL

----------------------------------------------------------------------------
\* A decided row is not written again: only pending rows are locked.
LEMMA DecidedStays ==
    ASSUME ReqInv, [Next]_vars, NEW q \in Requests,
           requests[q].state \in {"approved", "rejected"}
    PROVE  requests'[q] = requests[q]
  <1>1. CASE \E u \in Users : FileRequest(u)
    BY <1>1 DEF FileRequest, ReqInv, RowsOK
  <1>2. ASSUME NEW s \in Sessions, Deciding(s) PROVE requests'[q] = requests[q]
    <2>1. CASE EndDecision(s)
      BY <2>1 DEF EndDecision
    <2>2. CASE FirstApproval(s) \/ SecondApproval(s) \/ RejectRequest(s)
      <3>1. MayDecide(s)
        BY <2>2 DEF FirstApproval, SecondApproval, RejectRequest
      <3>2. session[s].request # q
        BY <3>1, DecisionIsOthers
      <3> QED
        BY <2>2, <3>2 DEF FirstApproval, SecondApproval, RejectRequest, ReqInv, RowsOK
    <2> QED
      BY <1>2, <2>1, <2>2 DEF Deciding
  <1>3. CASE \E s \in Sessions, u \in Users : OpenDecision(s, u)
    BY <1>3 DEF OpenDecision
  <1>4. CASE \/ \E u \in Users : CreateZone(u)
             \/ \E r \in Rules : EditRule(r) \/ ApproveRule(r)
    BY <1>4 DEF CreateZone, EditRule, ApproveRule
  <1>5. CASE UNCHANGED vars
    BY <1>5 DEF vars
  <1> QED
    BY <1>1, <1>2, <1>3, <1>4, <1>5 DEF Next

\* No request is decided twice, however many decisions run at the same time.
THEOREM DecidedOnceCorrect == Spec => DecidedOnce
  <1>1. ReqInv /\ [Next]_vars =>
            [\A q \in Requests : requests[q].state \in {"approved", "rejected"} =>
                requests'[q] = requests[q]]_vars
    BY DecidedStays
  <1> QED
    BY <1>1, ReqInvariant, PTL DEF Spec, DecidedOnce

----------------------------------------------------------------------------
(* The register. *)

LEMMA BatchType ==
    ASSUME RowsOK, NEW q \in Requests
    PROVE  requests[q].batch \in Seq(Items)
<1>1. requests[q].batch \in Offers \cup {<<>>}
  BY DEF RowsOK, Rows
<1>2. Offers \subseteq Seq(Items)
  BY RequestAssumption DEF RequestAssumption
<1>3. <<>> \in Seq(Items)
  OBVIOUS
<1> QED BY <1>1, <1>2, <1>3

LEMMA SoundStart == Init => Sound(register)
  BY RequestAssumption DEF RequestAssumption, Init, Sound, Unblocked

\* An edit takes the rule out of force; the others keep their relations.
LEMMA EditSound ==
    ASSUME Sound(register), NEW r \in Rules, EditRule(r)
    PROVE  Sound(register')
<1> DEFINE pair == NewPair(register, r)
<1>1. PICK status \in {"open", register.status[r]} \ {"in_force"} :
          register' = [register EXCEPT !.pair[r] = pair, !.removal = @ \ {r}, !.status[r] = status]
  BY DEF EditRule
<1>2. register \in Registers /\ register.status[r] \in RuleState
  BY Register DEF Sound
<1>3. pair \in Pairs /\ status \in RuleState
  BY <1>2, NewPairType DEF RuleState, Live
<1> HIDE DEF pair
<1> DEFINE pairs    == [register.pair EXCEPT ![r] = pair]
           statuses == [register.status EXCEPT ![r] = status]
           removal  == register.removal \ {r}
<1>4. /\ pairs \in [Rules -> Pairs] /\ statuses \in [Rules -> RuleState] /\ removal \in SUBSET Rules
      /\ statuses[r] # "in_force"
      /\ \A q \in Rules \ {r} : pairs[q] = register.pair[q] /\ statuses[q] = register.status[q]
  BY <1>2, <1>3, Register
<1>5. register' = [register EXCEPT !.pair = pairs, !.removal = removal, !.status = statuses]
  BY <1>1, <1>2 DEF Registers
<1> HIDE DEF pairs, statuses, removal
<1>6. /\ register' \in Registers /\ register'.pair = pairs /\ register'.status = statuses
      /\ register'.policy = register.policy
  BY <1>2, <1>4, <1>5 DEF Registers
<1> QED BY <1>4, <1>6 DEF Sound, Unblocked

\* An approval asks the matrix.
LEMMA ApproveSound ==
    ASSUME Sound(register), NEW r \in Rules, ApproveRule(r)
    PROVE  Sound(register')
<1>1. register \in Registers /\ register.pair[r] \in Pairs
  BY Register DEF Sound
<1>2. PICK state \in {"in_force", "deactivated"}, removal \in SUBSET Rules :
          /\ register' = [register EXCEPT !.status = [@ EXCEPT ![r] = state], !.removal = removal]
          /\ state = "in_force" => Permitted(register, register.pair[r])
  <2>1. CASE Permitted(register, register.pair[r]) /\ r \notin register.removal
    <3>1. register' = [register EXCEPT !.status[r] = "in_force"]
      BY <2>1 DEF ApproveRule
    <3>2. register' = [register EXCEPT !.status = [@ EXCEPT ![r] = "in_force"], !.removal = register.removal]
      BY <1>1, <3>1 DEF Registers
    <3> QED BY <1>1, <2>1, <3>2, Register
  <2>2. CASE ~(Permitted(register, register.pair[r]) /\ r \notin register.removal)
    <3>1. register' = [register EXCEPT !.status[r] = "deactivated", !.removal = @ \ {r}]
      BY <2>2 DEF ApproveRule
    <3>2. register' = [register EXCEPT !.status = [@ EXCEPT ![r] = "deactivated"],
                                       !.removal = register.removal \ {r}]
      BY <1>1, <3>1 DEF Registers
    <3>3. register.removal \ {r} \in SUBSET Rules
      BY <1>1, Register
    <3> QED BY <3>2, <3>3
  <2> QED BY <2>1, <2>2
<1> DEFINE statuses == [register.status EXCEPT ![r] = state]
<1>3. /\ statuses \in [Rules -> RuleState] /\ statuses[r] = state
      /\ \A q \in Rules \ {r} : statuses[q] = register.status[q]
  BY <1>1, Register DEF RuleState, Live
<1>4. register' = [register EXCEPT !.status = statuses, !.removal = removal]
  BY <1>2
<1> HIDE DEF statuses
<1>5. /\ register' \in Registers /\ register'.status = statuses
      /\ register'.pair = register.pair /\ register'.policy = register.policy
  BY <1>1, <1>3, <1>4 DEF Registers
<1>6. ASSUME NEW q \in Rules, statuses[q] = "in_force", register.pair[q][1] # register.pair[q][2]
      PROVE  register.policy[register.pair[q]] # "block_all"
  <2>1. CASE q = r
    BY <1>1, <1>2, <1>3, <1>6, <2>1, PermittedUnblocked
  <2>2. CASE q # r
    BY <1>3, <1>6, <2>2 DEF Sound, Unblocked
  <2> QED BY <2>1, <2>2
<1> QED BY <1>5, <1>6 DEF Sound, Unblocked

LEMMA CreateSound ==
    ASSUME Sound(register), NEW u \in Users, CreateZone(u)
    PROVE  Sound(register')
<1>1. PICK z \in Zones : register' = [register EXCEPT !.zones = @ \cup {z}]
  BY DEF CreateZone
<1>2. register.zones \cup {z} \in SUBSET Zones
  BY Register DEF Sound
<1>3. /\ register' \in Registers /\ register'.status = register.status
      /\ register'.pair = register.pair /\ register'.policy = register.policy
  BY <1>1, <1>2 DEF Sound, Registers
<1> QED BY <1>3 DEF Sound, Unblocked

LEMMA SoundKept == ReqInv /\ Sound(register) /\ [Next]_vars => Sound(register')
<1> SUFFICES ASSUME ReqInv, Sound(register), [Next]_vars PROVE Sound(register')
  OBVIOUS
<1>1. CASE UNCHANGED register
  BY <1>1
<1>2. ASSUME NEW s \in Sessions, SecondApproval(s) PROVE Sound(register')
  <2>1. MayDecide(s) /\ register' = Apply(register, requests[session[s].request].batch)
    BY <1>2 DEF SecondApproval
  <2>2. session[s].request \in Requests
    BY <2>1, DecisionIsOthers
  <2>3. requests[session[s].request].batch \in Seq(Items)
    BY <2>2, BatchType DEF ReqInv
  <2> QED BY <2>1, <2>3, ApplySound
<1>3. CASE \E u \in Users : CreateZone(u)
  BY <1>3, CreateSound
<1>4. CASE \E r \in Rules : EditRule(r) \/ ApproveRule(r)
  BY <1>4, EditSound, ApproveSound
<1>5. ASSUME \/ \E u \in Users : FileRequest(u)
             \/ \E s \in Sessions : FirstApproval(s) \/ RejectRequest(s) \/ EndDecision(s)
             \/ \E s \in Sessions, u \in Users : OpenDecision(s, u)
             \/ UNCHANGED vars
      PROVE  UNCHANGED register
  BY <1>5 DEF FileRequest, FirstApproval, RejectRequest, EndDecision, OpenDecision, vars
<1> QED BY <1>1, <1>2, <1>3, <1>4, <1>5 DEF Next, Deciding

RegisterInv == Sound(register)

LEMMA SoundInvariant == Spec => []RegisterInv
  <1>1. Init => RegisterInv
    BY SoundStart DEF RegisterInv
  <1>2. ReqInv /\ RegisterInv /\ [Next]_vars => RegisterInv'
    BY SoundKept DEF RegisterInv
  <1> QED BY <1>1, <1>2, ReqInvariant, PTL DEF Spec

\* Whatever is filed, read late, approved, rejected or edited, the register and the
\* rows hold what their columns can hold.
THEOREM TypeCorrect == Spec => []TypeOK
  <1>1. ReqInv /\ RegisterInv => TypeOK
    BY DEF ReqInv, RowsOK, Rows, Reads, States, RegisterInv, Sound, TypeOK
  <1> QED BY <1>1, ReqInvariant, SoundInvariant, PTL

\* A Block leaves no rule in force between the two zones: neither the rules that
\* its own batch moves onto the relation, nor those that are edited or approved at
\* the same time.
THEOREM BlockedIsEmpty == Spec => []BlockLeavesNothingInForce
  <1>1. RegisterInv => BlockLeavesNothingInForce
    BY DEF RegisterInv, Sound, Unblocked, BlockLeavesNothingInForce
  <1> QED BY <1>1, SoundInvariant, PTL

\* Only a second approval applies a request.
LEMMA AppliedBySecond ==
    ASSUME ReqInv, [Next]_vars, NEW q \in Requests, Applied(q)
    PROVE  register' = Apply(register, requests[q].batch)
  <1>1. CASE \E u \in Users : FileRequest(u)
    <2>1. PICK p \in Requests, batch \in Offers, u \in Users :
              requests' = [requests EXCEPT ![p] =
                  [Unfiled EXCEPT !.state = "pending", !.by = u, !.batch = batch]]
      BY <1>1 DEF FileRequest
    <2>2. requests'[q].state \in {requests[q].state, "pending"}
      BY <2>1 DEF ReqInv, RowsOK, Unfiled
    <2> QED BY <2>2 DEF Applied
  <1>2. ASSUME NEW s \in Sessions, Deciding(s)
        PROVE  register' = Apply(register, requests[q].batch)
    <2>1. CASE SecondApproval(s)
      <3>1. /\ MayDecide(s) /\ register' = Apply(register, requests[session[s].request].batch)
            /\ requests' = [requests EXCEPT ![session[s].request].state = "approved",
                                            ![session[s].request].decided = session[s].user]
        BY <2>1 DEF SecondApproval
      <3>2. session[s].request = q
        BY <3>1 DEF Applied, ReqInv, RowsOK
      <3> QED BY <3>1, <3>2
    <2>2. CASE FirstApproval(s)
      <3>1. requests' = [requests EXCEPT ![session[s].request].first = session[s].user]
        BY <2>2 DEF FirstApproval
      <3>2. requests'[q].state = requests[q].state
        BY <3>1 DEF ReqInv, RowsOK, Rows
      <3> QED BY <3>2 DEF Applied
    <2>3. CASE RejectRequest(s)
      <3>1. requests' = [requests EXCEPT ![session[s].request].state = "rejected",
                                         ![session[s].request].decided = session[s].user]
        BY <2>3 DEF RejectRequest
      <3>2. requests'[q].state \in {requests[q].state, "rejected"}
        BY <3>1 DEF ReqInv, RowsOK, Rows
      <3> QED BY <3>2 DEF Applied
    <2>4. CASE EndDecision(s)
      BY <2>4 DEF EndDecision, Applied
    <2> QED BY <1>2, <2>1, <2>2, <2>3, <2>4 DEF Deciding
  <1>3. CASE \/ \E s \in Sessions, u \in Users : OpenDecision(s, u)
             \/ \E u \in Users : CreateZone(u)
             \/ \E r \in Rules : EditRule(r) \/ ApproveRule(r)
             \/ UNCHANGED vars
    BY <1>3 DEF OpenDecision, CreateZone, EditRule, ApproveRule, vars, Applied
  <1> QED
    BY <1>1, <1>2, <1>3 DEF Next

\* Rules follow every network that an applied request moves between zones, however
\* many it moves, wherever they lie inside each other, and whatever cells and zones
\* come with them.
THEOREM MovesAreFollowed == Spec => RulesFollowMoves
  <1>1. ASSUME ReqInv, Sound(register), [Next]_vars, NEW q \in Requests, Applied(q),
               \A item \in NetItems(q) : item.type = "net_update" /\ item.to = item.cidr,
               NEW item \in NetItems(q), register.network[item.cidr] # NoZone,
               NEW r \in Touched(register, item.cidr)
        PROVE  register'.pair[r] = NewPair(register', r)
    <2> DEFINE batch == requests[q].batch
    <2>1. batch \in Seq(Items) /\ register' = Apply(register, batch)
      BY <1>1, BatchType, AppliedBySecond DEF ReqInv
    <2>2. PICK i \in 1..Len(batch) : batch[i] = item
      <3>1. item \in ToSet(batch)
        BY DEF NetItems
      <3> QED BY <2>1, <3>1 DEF ToSet
    <2>3. \A k \in 1..Len(batch) : batch[k] \in ToSet(batch)
      BY <2>1, BatchItems
    <2>4. OnlyMoves(batch)
      BY <1>1, <2>3 DEF OnlyMoves, NetItems, NetTypes
    <2>5. item.type = "net_update" /\ Assigned(register, item.cidr)
      BY <1>1 DEF Assigned
    <2> HIDE DEF batch
    <2>6. Follows(Apply(register, batch), r)
      BY <1>1, <2>1, <2>2, <2>4, <2>5, ApplyFollows
    <2> QED BY <2>1, <2>6 DEF Follows
  <1>2. ReqInv /\ RegisterInv /\ [Next]_vars =>
            [\A q \in Requests :
                Applied(q) /\ (\A item \in NetItems(q) : item.type = "net_update" /\ item.to = item.cidr) =>
                    \A item \in NetItems(q) :
                        register.network[item.cidr] # NoZone =>
                            \A r \in Touched(register, item.cidr) :
                                register'.pair[r] = NewPair(register', r)]_vars
    BY <1>1 DEF RegisterInv
  <1> QED
    BY <1>2, ReqInvariant, SoundInvariant, PTL DEF Spec, RulesFollowMoves

=============================================================================
