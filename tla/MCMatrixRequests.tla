-------------------------- MODULE MCMatrixRequests --------------------------
(* Instances of MatrixRequests for TLC: two zones and a third one to come, a *)
(* wide network with a narrow one inside, and another.  The monitoring rule  *)
(* crosses from the wide network to the other one through a firewall; the    *)
(* cluster rule stays inside the wide network, on the fabric.                *)
EXTENDS MatrixRequests

CONSTANTS q1, q2, s1, s2, ann, ben, cem, dmz, app, new, wide, narrow, other, w1, n1, o1, monitoring, cluster

MCCovers ==
    [c \in Cidrs |-> CASE c = wide -> {w1, n1} [] c = narrow -> {n1} [] OTHER -> {o1}]

MCPrefix == [c \in Cidrs |-> IF c = wide THEN 16 ELSE 24]

MCSource == [r \in Rules |-> IF r = monitoring THEN {n1} ELSE {w1, n1}]

MCDestination == [r \in Rules |-> IF r = monitoring THEN {o1} ELSE {w1}]

MCStart ==
    [zones   |-> {dmz, app},
     network |-> [c \in Cidrs |-> CASE c = wide -> dmz [] c = other -> app [] OTHER -> NoZone],
     policy  |-> [p \in Pairs |-> IF p = <<dmz, app>> THEN "allow_only" ELSE "unset"],
     pair    |-> [r \in Rules |-> IF r = monitoring THEN <<dmz, app>> ELSE <<dmz, dmz>>],
     status  |-> [r \in Rules |-> "open"],
     removal |-> {}]

Cell(a, b, p) == [type |-> "policy", from |-> a, to |-> b, policy |-> p]
NewZone(z)    == [type |-> "zone_create", zone |-> z]
DropZone(z)   == [type |-> "zone_delete", zone |-> z]
Assign(c, z)  == [type |-> "net_add", cidr |-> c, zone |-> z]
Drop(c)       == [type |-> "net_delete", cidr |-> c]
Move(c, d, z) == [type |-> "net_update", cidr |-> c, to |-> d, zone |-> z]

\* A move, a swap that closes the relation it leads to, a zone that comes with its
\* network and cell, a network inside another one on a relation that closes, a zone
\* with itself, and deletions.
MCOffers ==
    {<<Move(wide, wide, app)>>,
     <<Move(wide, wide, app), Move(other, other, dmz), Cell(app, dmz, "block_all")>>,
     <<NewZone(new), Move(other, other, new), Cell(dmz, new, "allow_only")>>,
     <<Assign(narrow, app), Cell(dmz, app, "block_all")>>,
     <<Cell(dmz, dmz, "block_all")>>,
     <<Drop(other), DropZone(new)>>}

\* Requests, sessions and the two uninvolved approvers are alike.
Alike == Permutations(Requests) \cup Permutations(Sessions) \cup Permutations({ben, cem})
=============================================================================
