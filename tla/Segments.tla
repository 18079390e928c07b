------------------------------ MODULE Segments ------------------------------
(***************************************************************************)
(* The segments of a zone and the matrix between them.                     *)
(*                                                                         *)
(* A segment is a group that belongs to the zone.  The matrix is the zone  *)
(* matrix one level down: directed cells, a default for what nobody        *)
(* maintains.                                                              *)
(***************************************************************************)
EXTENDS Groups

CONSTANT Segments      \* segments, numbered in the order of their names

ASSUME SegmentsAssumption == Segments \subseteq Nat \ {0} /\ "none" \notin Groups

VARIABLES
    segment,       \* a segment's group, or "none" when there is no such segment
    cell,          \* the policy from a segment to another: "none", "allow", "block"
    intra,         \* the zone's intra_zone_default: "none", "permit", "deny"
    requested      \* the default that a pending request asks for, or "none"

matrix == <<segment, cell, intra, requested>>

Existing == {s \in Segments : segment[s] # "none"}

SegmentNetworks(s) == Resolve(segment[s])

\* _segment_for_ip(): by the most specific member that covers the entry, the
\* first by name when two members are alike; 0 is none.
SegmentOf(n) ==
    LET networks == [s \in Existing |-> SegmentNetworks(s)]
        members  == UNION {networks[s] : s \in Existing}
    IN  IF Covering(n, members) = {} THEN 0
        ELSE LET best == MostSpecific(n, members)
                 holders == {s \in Existing : best \in networks[s]}
             IN  CHOOSE s \in holders : \A t \in holders : s <= t

\* resolve_segments(): where an address list lies, the segments it hits, whether
\* some of it lies in none, and the segment it resolves to when it hits just one.
Spread(A)      == {SegmentOf(n) : n \in A}
SegmentsHit(A) == Spread(A) \ {0}
Unsegmented(A) == 0 \in Spread(A)
SegmentFor(A)  == LET hits == SegmentsHit(A)
                  IN  IF Cardinality(hits) = 1 THEN CHOOSE s \in hits : TRUE ELSE 0

Denies == intra = "deny"

\* check_segment_pair(): may an intra-zone rule stand between these lists?
SegmentVerdict(src, dst) ==
    Existing # {} =>
        /\ \A A \in {src, dst} : Cardinality(SegmentsHit(A)) <= 1 /\ (Denies => ~Unsegmented(A))
        /\ LET a == SegmentFor(src)
               b == SegmentFor(dst)
           IN  0 \notin {a, b} => cell[<<a, b>>] = "allow" \/ (cell[<<a, b>>] = "none" /\ ~Denies)

\* affected_intra_rules(): does a Block from s to t concern a rule ...
OnRelation(s, t, src, dst) == SegmentFor(src) = s /\ SegmentFor(dst) = t

\* ... or a default turned to deny?
Unmaintained(src, dst) ==
    LET a == SegmentFor(src)
        b == SegmentFor(dst)
    IN  0 \notin {a, b} => cell[<<a, b>>] = "none"

\* rules_touching_segment().
Touches(s, src, dst) == s \in SegmentsHit(src) \cup SegmentsHit(dst)

=============================================================================
