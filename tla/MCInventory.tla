---------------------------- MODULE MCInventory ----------------------------
EXTENDS Inventory, TLC

\* Hosts 1 and 2 lie in zone A, host 3 in zone B.
MCNetworks == {{1}, {2}, {3}, {1, 2}}
MCZoneAt == ({1, 2} :> "A") @@ ({3} :> "B")
MCBehind == ({1, 2} :> {"fabric", "cluster"}) @@ ({3} :> {"cluster"})
MCPermitted == {<<"A", "B">>}

\* A cross-zone rule and one inside the segmented zone.
MCRefs ==
    ("cross" :> [source |-> [groups |-> {"g"}, plain |-> {}],
                 destination |-> [groups |-> {}, plain |-> {{3}}]]) @@
    ("inner" :> [source |-> [groups |-> {"g"}, plain |-> {}],
                 destination |-> [groups |-> {"h"}, plain |-> {}]])

VM(n, labels) == [kind |-> "workload", at |-> {n}, labels |-> labels]
MCShapes ==
    ("vm" :> {VM({1}, {"web"}), VM({3}, {"web"})}) @@
    ("nb" :> {VM({1}, {"web"}), VM({2}, {})})

Web == [kind |-> "selector", has |-> {"web"}, lacks |-> {}]
Listed(workloads, networks) == [kind |-> "static", workloads |-> workloads, networks |-> networks]
MCDefinitions ==
    ("g" :> {Web, Listed({"vm"}, {})}) @@
    ("h" :> {Listed({}, {{2}}), Listed({}, {{1, 2}})})

\* One rule inside the zone.  Its source may come to lie partly in no segment, and
\* the workload behind its destination moves from segment to segment.
SegmentNetworksOf == MCNetworks \cup {{4}}
SegmentZoneAt == ({1, 2} :> "A") @@ ({4} :> "A")
SegmentBehind == ({1, 2} :> {"fabric", "cluster"}) @@ ({4} :> {"fabric"})
SegmentRefs ==
    "inner" :> [source |-> [groups |-> {}, plain |-> {{1}, {4}}],
                destination |-> [groups |-> {"h"}, plain |-> {}]]
SegmentShapes == "vm" :> {VM({1}, {"web"}), VM({2}, {"web"})}
SegmentDefinitions ==
    ("g" :> {Listed({}, {{1}}), Listed({}, {{1}, {4}})}) @@
    ("h" :> {Web, Listed({}, {{2}})})

=============================================================================
