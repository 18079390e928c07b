---------------------------- MODULE PathAnalysis ----------------------------
(***************************************************************************)
(* Which firewalls a packet crosses, and whether the rules in force permit *)
(* it on all of them.                                                      *)
(*                                                                         *)
(* The links of the components are the topology.  An analysis walks it     *)
(* breadth first from the components one address sits behind to those of   *)
(* the other, collects every shortest route, and asks for each component   *)
(* on the way which services the rules in force permit there.  A step is   *)
(* one path taken from the frontier; links and rules change between        *)
(* analyses.                                                               *)
(***************************************************************************)
EXTENDS Integers, SequencesExt

CONSTANTS
    Components,    \* ids, in the order they are visited in
    Firewalls,     \* the components that are firewalls, the others are fabrics
    Pairs,         \* the pairs that may be linked in this instance
    Management,    \* the pairs whose link carries no transit
    Services,
    Rules,         \* the permitting rules that match both addresses
    On, Carries,   \* per rule its components and its services
    Queries,       \* pairs of addresses, as the components they are mapped to
    MaxRoutes,     \* MAX_ROUTES
    MaxHops        \* MAX_HOPS

Far    == 99       \* a component not seen yet
NoBest == 0
NoQuery == [source |-> {}, destination |-> {}, intra |-> FALSE, redirected |-> {}]

ASSUME PathAssumption ==
    /\ Components \subseteq Nat /\ IsFiniteSet(Components) /\ Firewalls \subseteq Components
    /\ \A q \in Queries : q.source \subseteq Components /\ q.destination \subseteq Components
    /\ \A p \in Pairs : p \subseteq Components /\ Cardinality(p) = 2
    /\ \A r \in Rules : On[r] \subseteq Components /\ Carries[r] \in (SUBSET Services) \ {{}}
    /\ MaxRoutes \in Nat \ {0} /\ MaxHops \in Nat \ {0}
    /\ MaxHops < Far - 1

VARIABLES
    links,         \* component_links
    inForce,       \* the rules that are in force
    query,         \* the analysis that is running
    frontier, seen, found, best

search == <<frontier, seen, found, best>>
vars == <<links, inForce, query, search>>

Init ==
    /\ links = {} /\ inForce = {}
    /\ query = NoQuery
    /\ frontier = <<>> /\ found = <<>> /\ best = NoBest
    /\ seen = [c \in Components |-> Far]

-----------------------------------------------------------------------------
(* The estate. *)

Idle == query = NoQuery

CreateLink(p) ==
    /\ Idle /\ p \notin links
    /\ links' = links \cup {p}
    /\ UNCHANGED <<inForce, query, search>>

DeleteLink(p) ==
    /\ Idle /\ p \in links
    /\ links' = links \ {p}
    /\ UNCHANGED <<inForce, query, search>>

\* A decision or a job brings the rule into force or takes it out.
RuleMoves(r) ==
    /\ Idle
    /\ inForce' = IF r \in inForce THEN inForce \ {r} ELSE inForce \cup {r}
    /\ UNCHANGED <<links, query, search>>

-----------------------------------------------------------------------------
(* The search. *)

\* build_graph: an undirected graph of the links a packet can travel down.
Graph == links \ Management
Neighbours(c) == {d \in Components : {c, d} \in Graph /\ d # c}

\* The mapped components of the kind the relation needs, or all of them when there
\* are none.
OfKind(q)    == {c \in q.source \cup q.destination : (c \notin Firewalls) = q.intra}
Mapped(q)    == IF OfKind(q) = {} THEN q.source \cup q.destination ELSE OfKind(q)
Sources      == query.source \cap OfKind(query)
Targets      == query.destination \cap OfKind(query)

InOrder(S) ==
    CHOOSE s \in [1..Cardinality(S) -> S] :
        \A i, j \in 1..Cardinality(S) : i < j => s[i] < s[j]

\* The path continued by each of the components, in order.
Extended(path, S) == [i \in 1..Cardinality(S) |-> Append(path, InOrder(S)[i])]

Analyse(q) ==
    /\ Idle
    /\ query' = q
    /\ LET from == q.source \cap OfKind(q)
           to   == q.destination \cap OfKind(q)
           none == from = {} \/ to = {} \/ Graph = {}
       IN  /\ found' = IF none THEN <<>> ELSE Extended(<<>>, from \cap to)
           /\ frontier' = IF none \/ from \cap to # {} THEN <<>> ELSE Extended(<<>>, from)
           /\ seen' = [c \in Components |-> IF c \in from THEN 0 ELSE Far]
    /\ best' = NoBest
    /\ UNCHANGED <<links, inForce>>

\* Slip: a component is never visited a second time.
NeverAgain(c, length) == seen[c] > length

\* A component is worth revisiting on an equally short path.
WorthVisiting(c, length) == seen[c] >= length

Onward(path) == IF Len(path) > MaxHops THEN {} ELSE Neighbours(Last(path)) \ Range(path)
Hits(path)   == Onward(path) \cap Targets

\* The best length once the neighbours before c have been looked at.
BestAt(path, c) ==
    IF best = NoBest /\ \E h \in Hits(path) : h < c THEN Len(path) + 1 ELSE best

Visited(path) ==
    {c \in Onward(path) \ Targets :
        /\ WorthVisiting(c, Len(path) + 1)
        /\ BestAt(path, c) = NoBest \/ Len(path) + 1 < BestAt(path, c)}

\* The loop ends when the frontier is empty, the next path is longer than the best
\* route, or enough routes are found.
Searching ==
    /\ ~ Idle /\ frontier # <<>>
    /\ best # NoBest => Len(Head(frontier)) <= best
    /\ Len(found) < MaxRoutes

\* The search returns as soon as it has as many routes as it may.
Capped(routes) == SubSeq(routes, 1, IF Len(routes) < MaxRoutes THEN Len(routes) ELSE MaxRoutes)

Step ==
    /\ Searching
    /\ LET path   == Head(frontier)
           length == Len(path) + 1
       IN  /\ found' = IF best \in {NoBest, length}
                       THEN Capped(found \o Extended(path, Hits(path))) ELSE found
           /\ best' = IF best = NoBest /\ Hits(path) # {} THEN length ELSE best
           /\ frontier' = Tail(frontier) \o Extended(path, Visited(path))
           /\ seen' = [c \in Components |-> IF c \in Visited(path) THEN length ELSE seen[c]]
    /\ UNCHANGED <<links, inForce, query>>

-----------------------------------------------------------------------------
(* The answer. *)

Answered == ~ Idle /\ ~ Searching

Routes  == Range(found)
Routing == IF Graph = {} THEN "not_documented"
           ELSE IF Routes = {} THEN "no_route" ELSE "routed"

\* Slip: the components of one route stand for all.
FirstRouteOnly(R) == IF R = {} THEN {} ELSE Range(CHOOSE r \in R : TRUE)

OnRoutes(R) == UNION {Range(r) : r \in R}

\* Mapped components, those a gateway redirects to, and those on the routes.
Hops == Mapped(query) \cup query.redirected \cup OnRoutes(Routes)

Enabling(c) == {r \in inForce : c \in On[r]}
Permitted(c) == UNION {Carries[r] : r \in Enabling(c)}
Covered(c)  == Enabling(c) # {}
RouteGaps   == {r \in Routes : \E c \in Range(r) : ~ Covered(c)}
Everywhere  == {s \in Services : \A c \in Hops : s \in Permitted(c)}
Possible    == Hops # {} /\ (\A c \in Hops : Covered(c)) /\ Everywhere # {}

Answer ==
    /\ Answered
    /\ query' = NoQuery
    /\ frontier' = <<>> /\ found' = <<>> /\ best' = NoBest
    /\ seen' = [c \in Components |-> Far]
    /\ UNCHANGED <<links, inForce>>

Next ==
    \/ \E p \in Pairs : CreateLink(p) \/ DeleteLink(p)
    \/ \E r \in Rules : RuleMoves(r)
    \/ \E q \in Queries : Analyse(q)
    \/ Step
    \/ Answer

Spec == Init /\ [][Next]_vars

-----------------------------------------------------------------------------
\* The walks along the links, and those from one end to the other.
Paths == UNION {[1..n -> Components] : n \in 1..(MaxHops + 1)}
Leads(p) == p[1] \in Sources /\ \A i \in 1..(Len(p) - 1) : p[i + 1] \in Neighbours(p[i])
Walks == {p \in Paths : Leads(p) /\ Last(p) \in Targets}

ShortestWalks ==
    LET all == Walks
    IN  IF Graph = {} THEN {} ELSE {p \in all : \A q \in all : Len(p) <= Len(q)}

\* The search returns every shortest route, each once, and no other; when there are
\* more than it may return it returns as many as it may.
EveryShortestRoute ==
    Answered => /\ Routes \subseteq ShortestWalks
                /\ IsInjective(found)
                /\ Cardinality(Routes) >= MaxRoutes \/ Routes = ShortestWalks

\* "Possible" is said of routed traffic only if one service is permitted by every
\* component of every shortest route, so that it survives a failover; and a route
\* with a component no rule covers is named.
PossibleSurvivesFailover ==
    Answered /\ Routing = "routed" /\ Cardinality(ShortestWalks) < MaxRoutes =>
        /\ Possible => \E s \in Services : \A r \in ShortestWalks :
                          \A c \in Range(r) : s \in Permitted(c)
        /\ \A r \in ShortestWalks : (\E c \in Range(r) : Permitted(c) = {}) => r \in RouteGaps
=============================================================================
