------------------------- MODULE PathAnalysisProofs -------------------------
(***************************************************************************)
(* The search of shortest_routes returns every shortest route and no       *)
(* other, on every link graph.                                             *)
(***************************************************************************)
EXTENDS PathAnalysis, FiniteSetTheorems, SequenceTheorems, WellFoundedInduction, TLAPS

TypeOK ==
    /\ links \in SUBSET Pairs /\ inForce \in SUBSET Rules
    /\ query \in Queries \cup {NoQuery}
    /\ frontier \in Seq(Paths) /\ found \in Seq(Paths)
    /\ seen \in [Components -> Nat] /\ best \in Nat

\* The two ends are apart, so that there is something to search for.
Apart == Sources # {} /\ Targets # {} /\ Graph # {} /\ Sources \cap Targets = {}

Begun == {p \in Paths : Leads(p)}

\* The frontier holds walks that have not arrived, in the order of their lengths.
FrontierLeads ==
    /\ \A i \in 1..Len(frontier) : frontier[i] \in Begun /\ Last(frontier[i]) \notin Targets
    /\ \A i, j \in 1..Len(frontier) : Len(frontier[j]) <= Len(frontier[i]) + 1
    /\ \A i, j \in 1..Len(frontier) : i <= j => Len(frontier[i]) <= Len(frontier[j])
    /\ best # NoBest => \A i \in 1..Len(frontier) : best <= Len(frontier[i]) + 1

\* What is found are walks of the best length, and none is shorter.
FoundArrives ==
    /\ found = <<>> <=> best = NoBest
    /\ \A i \in 1..Len(found) : found[i] \in Walks /\ Len(found[i]) = best
    /\ best # NoBest => \A w \in Walks : best <= Len(w)

\* A component that was seen can be reached in as many steps.
SeenReached ==
    \A c \in Components :
        \/ seen[c] = Far \/ c \in Sources
        \/ \E p \in Begun : Last(p) = c /\ Len(p) <= seen[c]

\* No shortest walk is lost: it is found, or the search is on its way along it.
NoneLost ==
    Len(found) < MaxRoutes =>
        \A r \in ShortestWalks :
            \/ \E i \in 1..Len(found) : found[i] = r
            \/ \E i \in 1..Len(frontier), k \in 1..(Len(r) - 1) : frontier[i] = SubSeq(r, 1, k)

\* No walk is met twice: what is on the frontier is continued for the first time.
MetOnce ==
    /\ IsInjective(found) /\ IsInjective(frontier)
    /\ \A i \in 1..Len(frontier), c \in Components :
          /\ \A j \in 1..Len(frontier) : frontier[j] # Append(frontier[i], c)
          /\ \A j \in 1..Len(found) : found[j] # Append(frontier[i], c)

SearchInv == FrontierLeads /\ FoundArrives /\ SeenReached /\ NoneLost /\ MetOnce

\* Nothing to search for: no answer, or both ends sit behind the same components.
Immediate ==
    /\ frontier = <<>> /\ IsInjective(found)
    /\ Range(found) = IF Graph = {} THEN {} ELSE {<<c>> : c \in Sources \cap Targets}

PathInv ==
    /\ TypeOK
    /\ ~ Idle => IF Apart THEN SearchInv ELSE Immediate

----------------------------------------------------------------------------
(* Components in the order of their ids. *)

LEMMA LeastOf == ASSUME NEW S \in SUBSET Nat, S # {} PROVE \E x \in S : \A y \in S : x <= y
<1>1. PICK x \in S : \A y \in S : ~ (<<y, x>> \in OpToRel(<, Nat))
  BY WFMin, NatLessThanWellFounded
<1>2. \A y \in S : ~ (y < x)
  BY <1>1 DEF OpToRel
<1> QED BY <1>2

Increasing(s, n) == \A i, j \in 1..n : i < j => s[i] < s[j]

\* Every finite set of numbers can be put in order: the least number comes first, and
\* the others follow in order, as a set of the least size that has no order would show.
LEMMA OrderExists ==
    ASSUME NEW S \in SUBSET Nat, IsFiniteSet(S)
    PROVE  \E s \in [1..Cardinality(S) -> S] : Increasing(s, Cardinality(S))
<1> DEFINE Ordered(T) == \E s \in [1..Cardinality(T) -> T] : Increasing(s, Cardinality(T))
<1> DEFINE Sizes == {n \in Nat : \E T \in SUBSET Nat :
                        IsFiniteSet(T) /\ Cardinality(T) = n /\ ~ Ordered(T)}
<1> SUFFICES ASSUME ~ Ordered(S) PROVE FALSE
  OBVIOUS
<1>1. Cardinality(S) \in Sizes
  BY FS_CardinalityType
<1>2. PICK n \in Sizes : \A m \in Sizes : n <= m
  <2> HIDE DEF Sizes
  <2>1. Sizes \in SUBSET Nat
    BY DEF Sizes
  <2> QED BY <1>1, <2>1, LeastOf
<1>3. PICK T \in SUBSET Nat : IsFiniteSet(T) /\ Cardinality(T) = n /\ ~ Ordered(T)
  BY <1>2
<1>4. T # {}
  <2> SUFFICES ASSUME T = {} PROVE FALSE
    OBVIOUS
  <2>1. Cardinality(T) = 0
    BY FS_EmptySet
  <2>2. <<>> \in [1..Cardinality(T) -> T] /\ Increasing(<<>>, Cardinality(T))
    BY <2>1 DEF Increasing
  <2> QED BY <2>2, <1>3
<1>5. PICK x \in T : \A y \in T : x <= y
  BY <1>4, LeastOf
<1> DEFINE R == T \ {x}
<1>6. IsFiniteSet(R) /\ Cardinality(R) = n - 1 /\ n \in Nat /\ n - 1 \in Nat /\ R \in SUBSET Nat
  <2>1. IsFiniteSet(R) /\ Cardinality(R) = n - 1
    BY <1>3, FS_RemoveElement
  <2> QED BY <2>1, FS_CardinalityType
<1>7. Ordered(R)
  <2>1. n - 1 \notin Sizes
    BY <1>2, <1>6
  <2> QED BY <2>1, <1>6
<1>8. PICK s \in [1..(n - 1) -> R] : Increasing(s, n - 1)
  BY <1>6, <1>7
<1> DEFINE t == [i \in 1..n |-> IF i = 1 THEN x ELSE s[i - 1]]
<1>9. t \in [1..n -> T] /\ Increasing(t, n)
  <2> HIDE DEF R, Sizes
  <2>1. \A i \in 1..n : i # 1 => i - 1 \in 1..(n - 1)
    BY <1>6, SMT
  <2>2. \A i \in 1..(n - 1) : s[i] \in T /\ x < s[i] /\ s[i] \in Nat
    <3>1. \A y \in R : y \in T /\ x < y /\ y \in Nat
      BY <1>3, <1>5 DEF R
    <3> QED BY <1>8, <3>1
  <2>3. \A i, j \in 1..n : i < j => j # 1
    OBVIOUS
  <2> QED BY <1>8, <2>1, <2>2, <2>3 DEF Increasing
<1> QED BY <1>3, <1>9

LEMMA InOrderOf ==
    ASSUME NEW S \in SUBSET Components
    PROVE  /\ IsFiniteSet(S) /\ Cardinality(S) \in Nat
           /\ InOrder(S) \in [1..Cardinality(S) -> S]
           /\ \A i, j \in 1..Cardinality(S) : InOrder(S)[i] = InOrder(S)[j] => i = j
           /\ \A c \in S : \E i \in 1..Cardinality(S) : InOrder(S)[i] = c
<1>1. S \in SUBSET Nat /\ IsFiniteSet(S)
  BY PathAssumption, FS_Subset DEF PathAssumption
<1>2. Cardinality(S) \in Nat
  BY <1>1, FS_CardinalityType
<1>3. InOrder(S) \in [1..Cardinality(S) -> S] /\ Increasing(InOrder(S), Cardinality(S))
  BY <1>1, OrderExists DEF InOrder, Increasing
<1> DEFINE n == Cardinality(S)
<1> DEFINE s == InOrder(S)
<1>4. \A i, j \in 1..n : s[i] = s[j] => i = j
  <2> HIDE DEF n, s
  <2>1. \A i \in 1..n : s[i] \in Nat
    BY <1>1, <1>3 DEF n, s
  <2> QED BY <1>2, <1>3, <2>1 DEF Increasing, n, s
<1>5. s \in Injection(1..n, S)
  BY <1>3, <1>4 DEF Injection, IsInjective
<1>6. IsFiniteSet(1..n) /\ Cardinality(1..n) = n
  BY <1>2, FS_Interval
<1>7. s \in Surjection(1..n, S)
  BY <1>1, <1>5, <1>6, FS_Injection
<1>8. \A c \in S : \E i \in 1..n : s[i] = c
  BY <1>7 DEF Surjection
<1> QED BY <1>1, <1>2, <1>3, <1>4, <1>8

----------------------------------------------------------------------------
(* Paths. *)

LEMMA PathIs ==
    /\ \A p \in Paths :
          /\ p \in Seq(Components) /\ Len(p) \in 1..(MaxHops + 1) /\ DOMAIN p = 1..Len(p)
          /\ \A i \in 1..Len(p) : p[i] \in Components
    /\ \A n \in 1..(MaxHops + 1) : \A p \in [1..n -> Components] : p \in Paths /\ Len(p) = n
<1>1. MaxHops \in Nat
  BY PathAssumption DEF PathAssumption
<1>2. ASSUME NEW n \in 1..(MaxHops + 1), NEW p \in [1..n -> Components]
      PROVE  p \in Seq(Components) /\ Len(p) = n /\ DOMAIN p = 1..n /\ p \in Paths
  <2>1. n \in Nat /\ DOMAIN p = 1..n
    BY <1>1
  <2>2. p \in Seq(Components)
    BY <2>1
  <2>3. Len(p) = n
    BY <2>1, <2>2
  <2> QED BY <1>2, <2>1, <2>2, <2>3 DEF Paths
<1> QED BY <1>1, <1>2 DEF Paths

LEMMA LengthsAreNumbers ==
    /\ \A p \in Paths : Len(p) \in Nat \ {0} /\ Len(p) < Far
    /\ Far \in Nat /\ MaxHops \in Nat /\ MaxRoutes \in Nat \ {0}
<1>1. Far \in Nat /\ MaxHops \in Nat /\ MaxHops < Far - 1 /\ MaxRoutes \in Nat \ {0}
  BY PathAssumption DEF PathAssumption, Far
<1> HIDE DEF Far
<1> QED BY <1>1, PathIs

\* One component further.
LEMMA AppendIs ==
    ASSUME NEW p \in Seq(Components), NEW c \in Components
    PROVE  /\ Append(p, c) \in Seq(Components) /\ Len(Append(p, c)) = Len(p) + 1
           /\ \A i \in 1..Len(p) : Append(p, c)[i] = p[i]
           /\ Append(p, c)[Len(p) + 1] = c /\ Last(Append(p, c)) = c
           /\ Len(p) <= MaxHops => Append(p, c) \in Paths
<1>1. /\ Append(p, c) \in Seq(Components) /\ Len(Append(p, c)) = Len(p) + 1
      /\ \A i \in 1..Len(p) : Append(p, c)[i] = p[i]
      /\ Append(p, c)[Len(p) + 1] = c
  OBVIOUS
<1>2. Last(Append(p, c)) = c
  BY <1>1 DEF Last
<1>3. ASSUME Len(p) <= MaxHops PROVE Append(p, c) \in Paths
  <2>1. Len(p) + 1 \in 1..(MaxHops + 1)
    BY <1>3, LengthsAreNumbers
  <2>2. Append(p, c) \in [1..(Len(p) + 1) -> Components]
    BY <1>1, LenProperties
  <2> QED BY <2>1, <2>2, PathIs
<1> QED BY <1>1, <1>2, <1>3

LEMMA AppendDiffers ==
    ASSUME NEW p \in Seq(Components), NEW q \in Seq(Components),
           NEW c \in Components, NEW d \in Components, Append(p, c) = Append(q, d)
    PROVE  p = q /\ c = d
<1>1. Len(p) = Len(q) /\ c = d
  BY AppendIs
<1>2. \A i \in 1..Len(p) : p[i] = q[i]
  BY <1>1, AppendIs
<1> QED BY <1>1, <1>2, SeqEqual

LEMMA ExtendedBy ==
    ASSUME NEW p \in Seq(Components), NEW S \in SUBSET Components
    PROVE  /\ Extended(p, S) \in Seq(Seq(Components)) /\ IsInjective(Extended(p, S))
           /\ \A i \in 1..Len(Extended(p, S)) : \E c \in S : Extended(p, S)[i] = Append(p, c)
           /\ \A c \in S : \E i \in 1..Len(Extended(p, S)) : Extended(p, S)[i] = Append(p, c)
           /\ S = {} \/ Len(p) <= MaxHops => Extended(p, S) \in Seq(Paths)
<1> DEFINE n == Cardinality(S)
<1> DEFINE s == InOrder(S)
<1> DEFINE E == Extended(p, S)
<1>1. /\ n \in Nat /\ s \in [1..n -> S]
      /\ \A i, j \in 1..n : s[i] = s[j] => i = j
      /\ \A c \in S : \E i \in 1..n : s[i] = c
  BY InOrderOf
<1>2. E = [i \in 1..n |-> Append(p, s[i])]
  BY DEF Extended
<1>3. \A c \in S : Append(p, c) \in Seq(Components)
  BY AppendIs
<1> HIDE DEF n, s, E
<1>4. E \in Seq(Seq(Components)) /\ Len(E) = n /\ DOMAIN E = 1..n
  <2>1. E \in [1..n -> Seq(Components)]
    BY <1>1, <1>2, <1>3
  <2>2. E \in Seq(Seq(Components)) /\ DOMAIN E = 1..n
    BY <1>1, <2>1
  <2> QED BY <1>1, <2>2
<1>5. \A i \in 1..n : s[i] \in S /\ E[i] = Append(p, s[i])
  BY <1>1, <1>2
<1>6. ASSUME NEW i \in 1..n, NEW j \in 1..n, E[i] = E[j] PROVE i = j
  <2>1. s[i] = s[j]
    BY <1>5, <1>6, AppendDiffers
  <2> QED BY <1>1, <2>1
<1>7. ASSUME S = {} \/ Len(p) <= MaxHops PROVE E \in Seq(Paths)
  <2>1. \A c \in S : Append(p, c) \in Paths
    BY <1>7, AppendIs
  <2>2. E \in [1..n -> Paths]
    BY <1>1, <1>2, <2>1
  <2> QED BY <1>1, <2>2
<1> QED BY <1>1, <1>4, <1>5, <1>6, <1>7 DEF IsInjective, E

LEMMA LeadsOn ==
    ASSUME NEW p \in Paths, Leads(p), NEW c \in Neighbours(Last(p))
    PROVE  Leads(Append(p, c))
<1>1. c \in Components /\ p \in Seq(Components) /\ Len(p) \in Nat \ {0}
  BY PathIs, LengthsAreNumbers DEF Neighbours
<1> DEFINE q == Append(p, c)
<1>2. Len(q) = Len(p) + 1 /\ q[Len(p) + 1] = c /\ \A i \in 1..Len(p) : q[i] = p[i]
  BY <1>1, AppendIs
<1> HIDE DEF q
<1>3. q[1] \in Sources
  BY <1>1, <1>2 DEF Leads
<1>4. ASSUME NEW i \in 1..(Len(q) - 1) PROVE q[i + 1] \in Neighbours(q[i])
  <2>1. CASE i = Len(p)
    BY <1>1, <1>2, <2>1 DEF Last
  <2>2. CASE i # Len(p)
    <3>1. i \in 1..(Len(p) - 1) /\ i + 1 \in 1..Len(p) /\ i \in 1..Len(p)
      BY <1>1, <1>2, <2>2
    <3> QED BY <1>2, <3>1 DEF Leads
  <2> QED BY <2>1, <2>2
<1>5. Leads(q)
  BY <1>3, <1>4 DEF Leads
<1> QED BY <1>5 DEF q

LEMMA PrefixLeads ==
    ASSUME NEW r \in Paths, Leads(r), NEW k \in 1..Len(r)
    PROVE  /\ SubSeq(r, 1, k) \in Paths /\ Leads(SubSeq(r, 1, k)) /\ Len(SubSeq(r, 1, k)) = k
           /\ \A i \in 1..k : SubSeq(r, 1, k)[i] = r[i]
           /\ Last(SubSeq(r, 1, k)) = r[k]
<1> DEFINE q == SubSeq(r, 1, k)
<1>1. Len(r) \in Nat \ {0} /\ k \in Nat \ {0} /\ k <= Len(r) /\ k \in 1..(MaxHops + 1)
  BY PathIs, LengthsAreNumbers
<1>2. \A i \in 1..k : r[i] \in Components
  BY <1>1, PathIs
<1>3. q \in Seq(Components) /\ Len(q) = k /\ \A i \in 1..k : q[i] = r[i]
  BY <1>1, <1>2
<1> HIDE DEF q
<1>4. q \in Paths
  BY <1>1, <1>3, LenProperties, PathIs
<1>5. Leads(q)
  <2>1. q[1] \in Sources
    BY <1>1, <1>3 DEF Leads
  <2>2. ASSUME NEW i \in 1..(k - 1) PROVE q[i + 1] \in Neighbours(q[i])
    <3>1. i \in 1..k /\ i + 1 \in 1..k /\ i \in 1..(Len(r) - 1)
      BY <1>1
    <3> QED BY <1>3, <3>1 DEF Leads
  <2> QED BY <1>3, <2>1, <2>2 DEF Leads
<1>6. Last(q) = r[k]
  BY <1>1, <1>3 DEF Last
<1> QED BY <1>3, <1>4, <1>5, <1>6 DEF q

\* A walk that goes on as another one does, from a component both pass.
LEMMA Spliced ==
    ASSUME NEW p \in Paths, Leads(p), NEW r \in Walks, NEW k \in 1..Len(r),
           Last(p) = r[k], Len(p) <= k
    PROVE  \E w \in Walks : Len(w) = Len(p) + (Len(r) - k)
<1> DEFINE m == Len(p)
<1> DEFINE n == Len(r)
<1> DEFINE w == [i \in 1..(m + (n - k)) |-> IF i <= m THEN p[i] ELSE r[(i - m) + k]]
<1>1. r \in Paths /\ Leads(r) /\ Last(r) \in Targets
  BY DEF Walks
<1>2. /\ m \in Nat \ {0} /\ n \in Nat \ {0} /\ k \in Nat \ {0} /\ k <= n /\ m <= k /\ n <= MaxHops + 1
      /\ \A i \in 1..m : p[i] \in Components
      /\ \A i \in 1..n : r[i] \in Components
      /\ p[m] = r[k] /\ r[n] \in Targets /\ p[1] \in Sources
      /\ \A i \in 1..(m - 1) : p[i + 1] \in Neighbours(p[i])
      /\ \A i \in 1..(n - 1) : r[i + 1] \in Neighbours(r[i])
  BY <1>1, PathIs, LengthsAreNumbers DEF Leads, Last
<1> HIDE DEF m, n
<1> DEFINE l == m + (n - k)
<1>3. l \in 1..(MaxHops + 1) /\ l \in Nat \ {0} /\ m <= l
  BY <1>2, LengthsAreNumbers
<1>4. \A i \in 1..l : (i <= m => i \in 1..m) /\ (~ (i <= m) => (i - m) + k \in 1..n)
  BY <1>2
<1>5. w \in [1..l -> Components]
  BY <1>2, <1>4
<1>6. w \in Paths /\ Len(w) = l
  BY <1>3, <1>5, PathIs
<1>7. /\ \A i \in 1..m : w[i] = p[i]
      /\ \A i \in 1..l : i > m => w[i] = r[(i - m) + k]
  BY <1>2, <1>3
<1> HIDE DEF w
<1>8. w[1] \in Sources
  BY <1>2, <1>7
<1>9. ASSUME NEW i \in 1..(l - 1) PROVE w[i + 1] \in Neighbours(w[i])
  <2>1. CASE i < m
    <3>1. i \in 1..m /\ i + 1 \in 1..m /\ i \in 1..(m - 1)
      BY <1>2, <2>1
    <3> QED BY <1>2, <1>7, <3>1
  <2>2. CASE i = m
    <3>1. i \in 1..m /\ i + 1 \in 1..l /\ i + 1 > m /\ ((i + 1) - m) + k = k + 1 /\ k \in 1..(n - 1)
      BY <1>2, <2>2
    <3>2. w[i] = r[k] /\ w[i + 1] = r[k + 1]
      BY <1>2, <1>7, <2>2, <3>1
    <3> QED BY <1>2, <3>1, <3>2
  <2>3. CASE i > m
    <3> DEFINE j == (i - m) + k
    <3>1. i \in 1..l /\ i + 1 \in 1..l /\ i + 1 > m /\ ((i + 1) - m) + k = j + 1 /\ j \in 1..(n - 1)
      BY <1>2, <2>3
    <3>2. w[i] = r[j] /\ w[i + 1] = r[j + 1]
      BY <1>7, <2>3, <3>1
    <3> QED BY <1>2, <3>1, <3>2
  <2> QED BY <1>2, <2>1, <2>2, <2>3
<1>10. Last(w) = r[n]
  <2>1. CASE k = n
    <3>1. l = m /\ l \in 1..m
      BY <1>2, <2>1
    <3> QED BY <1>2, <1>6, <1>7, <2>1, <3>1 DEF Last
  <2>2. CASE k # n
    <3>1. l \in 1..l /\ l > m /\ (l - m) + k = n
      BY <1>2, <2>2
    <3> QED BY <1>6, <1>7, <3>1 DEF Last
  <2> QED BY <2>1, <2>2
<1>11. w \in Walks
  BY <1>2, <1>6, <1>8, <1>9, <1>10 DEF Walks, Leads
<1> QED BY <1>6, <1>11 DEF m, n

LEMMA ShortestIs ==
    ASSUME NEW r \in ShortestWalks
    PROVE  r \in Walks /\ r \in Paths /\ Leads(r) /\ Last(r) \in Targets /\ \A w \in Walks : Len(r) <= Len(w)
<1> HIDE DEF Walks
<1>1. r \in Walks /\ \A w \in Walks : Len(r) <= Len(w)
  BY DEF ShortestWalks
<1> QED BY <1>1 DEF Walks

\* A component of a shortest walk is not reached any sooner, and it is no target
\* before the walk ends.
LEMMA NoShortcut ==
    ASSUME NEW r \in ShortestWalks, NEW k \in 1..Len(r)
    PROVE  /\ \A p \in Paths : Leads(p) /\ Last(p) = r[k] => k <= Len(p)
           /\ k < Len(r) => r[k] \notin Targets
           /\ \A i \in 1..Len(r) : r[i] = r[k] => i = k
<1>1. r \in Walks /\ r \in Paths /\ Leads(r) /\ \A w \in Walks : Len(r) <= Len(w)
  BY ShortestIs
<1>2. Len(r) \in Nat \ {0} /\ k \in Nat \ {0}
  BY <1>1, LengthsAreNumbers
<1>3. ASSUME NEW p \in Paths, NEW j \in 1..Len(r), Leads(p), Last(p) = r[j], Len(p) < j
      PROVE  FALSE
  <2>1. Len(p) \in Nat \ {0} /\ j \in Nat /\ Len(p) <= j
    BY <1>2, <1>3, LengthsAreNumbers
  <2>2. PICK w \in Walks : Len(w) = Len(p) + (Len(r) - j)
    BY <1>1, <1>3, <2>1, Spliced
  <2>3. Len(r) <= Len(p) + (Len(r) - j)
    BY <1>1, <2>2
  <2> QED BY <1>2, <1>3, <2>1, <2>3
<1>4. \A p \in Paths : Leads(p) /\ Last(p) = r[k] => k <= Len(p)
  BY <1>2, <1>3, LengthsAreNumbers
<1>5. ASSUME k < Len(r) PROVE r[k] \notin Targets
  <2> DEFINE q == SubSeq(r, 1, k)
  <2>1. q \in Paths /\ Leads(q) /\ Len(q) = k /\ Last(q) = r[k]
    BY <1>1, PrefixLeads
  <2> HIDE DEF q
  <2>2. ASSUME q \in Walks PROVE FALSE
    <3>1. Len(r) <= Len(q)
      BY <1>1, <2>2
    <3> QED BY <1>2, <1>5, <2>1, <3>1
  <2> QED BY <2>1, <2>2 DEF Walks
<1>6. ASSUME NEW i \in 1..Len(r), NEW j \in 1..Len(r), i < j, r[i] = r[j] PROVE FALSE
  <2> DEFINE q == SubSeq(r, 1, i)
  <2>1. q \in Paths /\ Leads(q) /\ Len(q) = i /\ Last(q) = r[i]
    BY <1>1, PrefixLeads
  <2> QED BY <1>3, <1>6, <2>1
<1>7. \A i \in 1..Len(r) : r[i] = r[k] => i = k
  BY <1>2, <1>6
<1> QED BY <1>4, <1>5, <1>7

----------------------------------------------------------------------------
(* What a step of the search does. *)

LEMMA Unmoved ==
    ASSUME UNCHANGED <<links, query>>
    PROVE  /\ Graph' = Graph /\ Sources' = Sources /\ Targets' = Targets /\ Apart' = Apart
           /\ Begun' = Begun /\ Walks' = Walks /\ ShortestWalks' = ShortestWalks /\ Idle' = Idle
<1>1. Graph' = Graph /\ Sources' = Sources /\ Targets' = Targets /\ Idle' = Idle
  BY DEF Graph, Sources, Targets, OfKind, Idle
<1>2. Begun' = Begun
  BY <1>1 DEF Begun, Leads, Neighbours
<1>3. Walks' = Walks
  BY <1>1 DEF Walks, Leads, Neighbours
<1>4. ShortestWalks' = ShortestWalks
  BY <1>1, <1>3 DEF ShortestWalks
<1>5. Apart' = Apart
  BY <1>1 DEF Apart
<1> QED BY <1>1, <1>2, <1>3, <1>4, <1>5

LEMMA EndsAreComponents ==
    ASSUME TypeOK PROVE Sources \in SUBSET Components /\ Targets \in SUBSET Components
<1>1. query.source \subseteq Components /\ query.destination \subseteq Components
  BY PathAssumption DEF PathAssumption, TypeOK, NoQuery
<1> QED BY <1>1 DEF Sources, Targets

LEMMA OnwardIs ==
    ASSUME NEW path \in Paths
    PROVE  /\ Onward(path) \in SUBSET Components
           /\ Hits(path) \in SUBSET Components /\ Visited(path) \in SUBSET Components
           /\ Hits(path) \in SUBSET Onward(path) /\ Visited(path) \in SUBSET Onward(path)
           /\ \A c \in Onward(path) : Len(path) <= MaxHops /\ c \in Neighbours(Last(path))
<1>1. /\ Onward(path) \in SUBSET Components
      /\ \A c \in Onward(path) : Len(path) <= MaxHops /\ c \in Neighbours(Last(path))
  BY LengthsAreNumbers DEF Onward, Neighbours
<1>2. Hits(path) \in SUBSET Onward(path) /\ Visited(path) \in SUBSET Onward(path)
  BY DEF Hits, Visited
<1> QED BY <1>1, <1>2

\* A list that is another one followed by the path continued by each of S.
Continues(new, old, path, S) ==
    /\ Len(old) <= Len(new)
    /\ \A i \in 1..Len(old) : new[i] = old[i]
    /\ \A i \in 1..Len(new) : i > Len(old) => \E c \in S : new[i] = Append(path, c)
    /\ \A i, j \in 1..Len(new) : i > Len(old) /\ j > Len(old) /\ new[i] = new[j] => i = j
    /\ \A c \in S : \E i \in 1..Len(new) : new[i] = Append(path, c)

LEMMA Continued ==
    ASSUME NEW old \in Seq(Paths), NEW path \in Paths, NEW S \in SUBSET Onward(path)
    PROVE  old \o Extended(path, S) \in Seq(Paths) /\ Continues(old \o Extended(path, S), old, path, S)
<1> DEFINE E == Extended(path, S)
<1> DEFINE new == old \o E
<1>1. S \in SUBSET Components /\ path \in Seq(Components) /\ (S = {} \/ Len(path) <= MaxHops)
  BY OnwardIs, PathIs
<1>2. /\ E \in Seq(Paths) /\ IsInjective(E)
      /\ \A i \in 1..Len(E) : \E c \in S : E[i] = Append(path, c)
      /\ \A c \in S : \E i \in 1..Len(E) : E[i] = Append(path, c)
  BY <1>1, ExtendedBy
<1> HIDE DEF E
<1>3. /\ Len(old) \in Nat /\ Len(E) \in Nat /\ DOMAIN E = 1..Len(E)
      /\ new \in Seq(Paths) /\ Len(new) = Len(old) + Len(E)
      /\ \A i \in 1..(Len(old) + Len(E)) : new[i] = IF i <= Len(old) THEN old[i] ELSE E[i - Len(old)]
  BY <1>2, LenProperties, ConcatProperties
<1> HIDE DEF new
<1>4. \A i \in 1..Len(old) : new[i] = old[i]
  BY <1>3
<1>5. \A i \in 1..Len(new) : i > Len(old) => i - Len(old) \in 1..Len(E) /\ new[i] = E[i - Len(old)]
  BY <1>3
<1>6. \A i \in 1..Len(E) : Len(old) + i \in 1..Len(new) /\ new[Len(old) + i] = E[i]
  BY <1>3
<1>7. \A i \in 1..Len(new) : i > Len(old) => \E c \in S : new[i] = Append(path, c)
  BY <1>2, <1>5
<1>8. \A i, j \in 1..Len(new) : i > Len(old) /\ j > Len(old) /\ new[i] = new[j] => i = j
  <2> SUFFICES ASSUME NEW i \in 1..Len(new), NEW j \in 1..Len(new), i > Len(old), j > Len(old),
                      new[i] = new[j]
               PROVE  i = j
    OBVIOUS
  <2>1. /\ i - Len(old) \in DOMAIN E /\ j - Len(old) \in DOMAIN E
        /\ E[i - Len(old)] = E[j - Len(old)]
    BY <1>3, <1>5
  <2>2. i - Len(old) = j - Len(old)
    BY <1>2, <2>1 DEF IsInjective
  <2> QED BY <1>3, <2>2
<1>9. \A c \in S : \E i \in 1..Len(new) : new[i] = Append(path, c)
  BY <1>2, <1>6
<1>10. Len(old) <= Len(new)
  BY <1>3
<1>11. Continues(new, old, path, S)
  BY <1>4, <1>7, <1>8, <1>9, <1>10 DEF Continues
<1> QED BY <1>3, <1>11 DEF new, E

LEMMA CappedIs ==
    ASSUME NEW routes \in Seq(Paths)
    PROVE  /\ Capped(routes) \in Seq(Paths) /\ Len(Capped(routes)) <= Len(routes)
           /\ \A i \in 1..Len(Capped(routes)) : Capped(routes)[i] = routes[i]
           /\ Len(Capped(routes)) < MaxRoutes => Capped(routes) = routes
           /\ routes # <<>> => Capped(routes) # <<>>
<1> DEFINE n == IF Len(routes) < MaxRoutes THEN Len(routes) ELSE MaxRoutes
<1>1. Len(routes) \in Nat /\ MaxRoutes \in Nat \ {0}
  BY LengthsAreNumbers
<1>2. n \in 0..Len(routes) /\ (n < MaxRoutes => n = Len(routes)) /\ (Len(routes) # 0 => n # 0)
  BY <1>1
<1> HIDE DEF n
<1>3. \A i \in 1..n : routes[i] \in Paths
  BY <1>1, <1>2
<1>4. /\ SubSeq(routes, 1, n) \in Seq(Paths) /\ Len(SubSeq(routes, 1, n)) = n
      /\ \A i \in 1..n : SubSeq(routes, 1, n)[i] = routes[i]
  BY <1>1, <1>2, <1>3, SubSeqProperties
<1>5. Capped(routes) = SubSeq(routes, 1, n)
  BY DEF Capped, n
<1>6. n = Len(routes) => SubSeq(routes, 1, n) = routes
  BY SubSeqFull
<1>7. routes # <<>> => Len(routes) # 0
  OBVIOUS
<1> QED BY <1>1, <1>2, <1>4, <1>5, <1>6, <1>7

LEMMA StepTakes ==
    ASSUME TypeOK, Step, NEW path, path = Head(frontier)
    PROVE  /\ path \in Paths /\ Len(path) \in Nat \ {0}
           /\ Len(frontier) \in Nat \ {0} /\ frontier[1] = path
           /\ Tail(frontier) \in Seq(Paths) /\ Len(Tail(frontier)) = Len(frontier) - 1
           /\ \A i \in 1..(Len(frontier) - 1) :
                 Tail(frontier)[i] = frontier[i + 1] /\ i + 1 \in 1..Len(frontier)
           /\ UNCHANGED <<links, inForce, query>>
           /\ best' = IF best = NoBest /\ Hits(path) # {} THEN Len(path) + 1 ELSE best
           /\ seen' = [c \in Components |-> IF c \in Visited(path) THEN Len(path) + 1 ELSE seen[c]]
<1>1. frontier \in Seq(Paths) /\ frontier # <<>>
  BY DEF TypeOK, Step, Searching
<1>2. path \in Paths /\ path = frontier[1] /\ Len(frontier) \in Nat \ {0}
  BY <1>1
<1>3. /\ Tail(frontier) \in Seq(Paths) /\ Len(Tail(frontier)) = Len(frontier) - 1
      /\ \A i \in 1..(Len(frontier) - 1) : Tail(frontier)[i] = frontier[i + 1]
  BY <1>1, HeadTailProperties
<1>4. \A i \in 1..(Len(frontier) - 1) : i + 1 \in 1..Len(frontier)
  BY <1>2
<1>5. Len(path) \in Nat \ {0}
  BY <1>2, LengthsAreNumbers
<1> QED BY <1>2, <1>3, <1>4, <1>5 DEF Step

LEMMA StepFrontier ==
    ASSUME TypeOK, Step, NEW path, path = Head(frontier)
    PROVE  frontier' \in Seq(Paths) /\ Continues(frontier', Tail(frontier), path, Visited(path))
<1>1. path \in Paths /\ Tail(frontier) \in Seq(Paths)
  BY StepTakes
<1>2. Visited(path) \in SUBSET Onward(path)
  BY <1>1, OnwardIs
<1>3. frontier' = Tail(frontier) \o Extended(path, Visited(path))
  BY DEF Step
<1> QED BY <1>1, <1>2, <1>3, Continued

LEMMA StepFound ==
    ASSUME TypeOK, Step, NEW path, path = Head(frontier)
    PROVE  /\ found' \in Seq(Paths)
           /\ \A i \in 1..Len(found') : i <= Len(found) => i \in 1..Len(found) /\ found'[i] = found[i]
           /\ \A i \in 1..Len(found') : i > Len(found) =>
                 best \in {NoBest, Len(path) + 1} /\ \E h \in Hits(path) : found'[i] = Append(path, h)
           /\ \A i, j \in 1..Len(found') :
                 i > Len(found) /\ j > Len(found) /\ found'[i] = found'[j] => i = j
           /\ Len(found') < MaxRoutes =>
                 /\ \A i \in 1..Len(found) : i \in 1..Len(found') /\ found'[i] = found[i]
                 /\ best \in {NoBest, Len(path) + 1} =>
                       \A h \in Hits(path) : \E i \in 1..Len(found') : found'[i] = Append(path, h)
           /\ found' = <<>> => found = <<>> /\ (best = NoBest => Hits(path) = {})
<1>1. path \in Paths /\ found \in Seq(Paths)
  BY StepTakes DEF TypeOK
<1>2. Hits(path) \in SUBSET Onward(path)
  BY <1>1, OnwardIs
<1> DEFINE all == found \o Extended(path, Hits(path))
<1>3. all \in Seq(Paths) /\ Continues(all, found, path, Hits(path))
  BY <1>1, <1>2, Continued
<1>4. found' = IF best \in {NoBest, Len(path) + 1} THEN Capped(all) ELSE found
  BY DEF Step
<1> HIDE DEF all
<1>5. Len(found) \in Nat /\ Len(all) \in Nat
  BY <1>1, <1>3
<1>6. CASE best \notin {NoBest, Len(path) + 1}
  <2>1. found' = found
    BY <1>4, <1>6
  <2> QED BY <1>1, <1>5, <1>6, <2>1
<1>7. CASE best \in {NoBest, Len(path) + 1}
  <2> DEFINE few == Capped(all)
  <2>1. found' = few
    BY <1>4, <1>7
  <2>2. /\ few \in Seq(Paths) /\ Len(few) \in Nat /\ Len(few) <= Len(all)
        /\ \A i \in 1..Len(few) : few[i] = all[i]
        /\ Len(few) < MaxRoutes => few = all
        /\ all # <<>> => few # <<>>
    BY <1>3, CappedIs
  <2> HIDE DEF few
  <2>3. /\ Len(found) <= Len(all)
        /\ \A i \in 1..Len(found) : all[i] = found[i]
        /\ \A i \in 1..Len(all) : i > Len(found) => \E h \in Hits(path) : all[i] = Append(path, h)
        /\ \A i, j \in 1..Len(all) : i > Len(found) /\ j > Len(found) /\ all[i] = all[j] => i = j
        /\ \A h \in Hits(path) : \E i \in 1..Len(all) : all[i] = Append(path, h)
    BY <1>3 DEF Continues
  <2>4. \A i \in 1..Len(few) : i \in 1..Len(all) /\ (i <= Len(found) => i \in 1..Len(found))
    BY <1>5, <2>2
  <2>5. \A i \in 1..Len(few) : i <= Len(found) => i \in 1..Len(found) /\ few[i] = found[i]
    BY <2>2, <2>3, <2>4
  <2>6. \A i \in 1..Len(few) : i > Len(found) => \E h \in Hits(path) : few[i] = Append(path, h)
    BY <2>2, <2>3, <2>4
  <2>7. \A i, j \in 1..Len(few) : i > Len(found) /\ j > Len(found) /\ few[i] = few[j] => i = j
    BY <2>2, <2>3, <2>4
  <2>8. \A i \in 1..Len(found) : i \in 1..Len(all)
    BY <1>5, <2>3
  <2>9. Len(few) < MaxRoutes =>
           /\ \A i \in 1..Len(found) : i \in 1..Len(few) /\ few[i] = found[i]
           /\ \A h \in Hits(path) : \E i \in 1..Len(few) : few[i] = Append(path, h)
    BY <2>2, <2>3, <2>8
  <2>10. few = <<>> => found = <<>> /\ Hits(path) = {}
    <3>1. few = <<>> => Len(all) = 0
      BY <2>2, <1>3
    <3>2. Len(all) = 0 => Len(found) = 0 /\ 1..Len(all) = {}
      BY <1>5, <2>3
    <3> QED BY <1>1, <2>3, <3>1, <3>2
  <2> QED BY <1>7, <2>1, <2>2, <2>5, <2>6, <2>7, <2>9, <2>10
<1> QED BY <1>6, <1>7

----------------------------------------------------------------------------
(* The types. *)

LEMMA InitTyped == Init => TypeOK
<1> SUFFICES ASSUME Init PROVE TypeOK
  OBVIOUS
<1>1. seen \in [Components -> Nat]
  BY DEF Init, Far
<1>2. frontier \in Seq(Paths) /\ found \in Seq(Paths)
  BY DEF Init
<1> QED BY <1>1, <1>2 DEF Init, TypeOK, NoBest

LEMMA AnalyseTyped == ASSUME TypeOK, NEW q \in Queries, Analyse(q) PROVE TypeOK'
<1> DEFINE from == q.source \cap OfKind(q)
<1> DEFINE to == q.destination \cap OfKind(q)
<1> DEFINE none == from = {} \/ to = {} \/ Graph = {}
<1>1. from \in SUBSET Components /\ to \in SUBSET Components
  BY PathAssumption DEF PathAssumption
<1>2. /\ found' = IF none THEN <<>> ELSE Extended(<<>>, from \cap to)
      /\ frontier' = IF none \/ from \cap to # {} THEN <<>> ELSE Extended(<<>>, from)
      /\ seen' = [c \in Components |-> IF c \in from THEN 0 ELSE Far]
      /\ query' = q /\ best' = NoBest /\ links' = links /\ inForce' = inForce
  BY DEF Analyse
<1>3. <<>> \in Seq(Components) /\ Len(<<>>) <= MaxHops
  BY LengthsAreNumbers
<1> HIDE DEF from, to, none
<1>4. \A S \in SUBSET Components : Extended(<<>>, S) \in Seq(Paths)
  BY <1>3, ExtendedBy
<1>5. found' \in Seq(Paths) /\ frontier' \in Seq(Paths)
  BY <1>1, <1>2, <1>4
<1>6. seen' \in [Components -> Nat]
  BY <1>2 DEF Far
<1>7. best' \in Nat
  BY <1>2 DEF NoBest
<1> QED BY <1>2, <1>5, <1>6, <1>7, Zenon DEF TypeOK

LEMMA StepTyped == ASSUME TypeOK, Step PROVE TypeOK'
<1> DEFINE path == Head(frontier)
<1>1. /\ Len(path) \in Nat \ {0} /\ UNCHANGED <<links, inForce, query>>
      /\ best' = IF best = NoBest /\ Hits(path) # {} THEN Len(path) + 1 ELSE best
      /\ seen' = [c \in Components |-> IF c \in Visited(path) THEN Len(path) + 1 ELSE seen[c]]
  BY StepTakes
<1>2. frontier' \in Seq(Paths) /\ found' \in Seq(Paths)
  BY StepFrontier, StepFound
<1> HIDE DEF path
<1>3. best' \in Nat /\ seen' \in [Components -> Nat]
  BY <1>1 DEF TypeOK
<1> QED BY <1>1, <1>2, <1>3 DEF TypeOK

LEMMA NextTyped == TypeOK /\ [Next]_vars => TypeOK'
<1> SUFFICES ASSUME TypeOK, [Next]_vars PROVE TypeOK'
  OBVIOUS
<1>1. ASSUME NEW p \in Pairs, CreateLink(p) \/ DeleteLink(p) PROVE TypeOK'
  BY <1>1 DEF TypeOK, CreateLink, DeleteLink, search
<1>2. ASSUME NEW r \in Rules, RuleMoves(r) PROVE TypeOK'
  BY <1>2 DEF TypeOK, RuleMoves, search
<1>3. ASSUME NEW q \in Queries, Analyse(q) PROVE TypeOK'
  BY <1>3, AnalyseTyped
<1>4. CASE Step
  BY <1>4, StepTyped
<1>5. CASE Answer
  <2>1. /\ query' = NoQuery /\ frontier' = <<>> /\ found' = <<>> /\ best' = NoBest
        /\ seen' = [c \in Components |-> Far] /\ UNCHANGED <<links, inForce>>
    BY <1>5 DEF Answer
  <2>2. seen' \in [Components -> Nat] /\ best' \in Nat
    BY <2>1 DEF Far, NoBest
  <2>3. frontier' \in Seq(Paths) /\ found' \in Seq(Paths)
    BY <2>1
  <2> QED BY <2>1, <2>2, <2>3 DEF TypeOK
<1>6. CASE UNCHANGED vars
  BY <1>6 DEF TypeOK, vars, search
<1> QED BY <1>1, <1>2, <1>3, <1>4, <1>5, <1>6 DEF Next

----------------------------------------------------------------------------
(* An analysis begins. *)

LEMMA BegunIs ==
    ASSUME NEW p \in Begun
    PROVE  p \in Paths /\ Leads(p) /\ p \in Seq(Components) /\ Len(p) \in Nat \ {0}
<1>1. p \in Paths /\ Leads(p)
  BY DEF Begun
<1> QED BY <1>1, PathIs, LengthsAreNumbers

LEMMA SingleIs ==
    ASSUME TypeOK, NEW c \in Sources
    PROVE  /\ Append(<<>>, c) = <<c>> /\ <<c>> \in Begun /\ Last(<<c>>) = c /\ Len(<<c>>) = 1
           /\ c \in Components
<1>1. c \in Components
  BY EndsAreComponents
<1>2. Append(<<>>, c) = <<c>> /\ Len(<<c>>) = 1 /\ <<c>>[1] = c
  OBVIOUS
<1>3. <<c>> \in Paths /\ Last(<<c>>) = c
  <2>1. <<>> \in Seq(Components) /\ Len(<<>>) <= MaxHops
    BY LengthsAreNumbers
  <2>2. Append(<<>>, c) \in Paths /\ Last(Append(<<>>, c)) = c
    BY <1>1, <2>1, AppendIs
  <2> QED BY <1>2, <2>2
<1>4. Leads(<<c>>)
  BY <1>2 DEF Leads
<1> QED BY <1>1, <1>2, <1>3, <1>4 DEF Begun

\* The state an analysis begins in.
Started ==
    /\ TypeOK /\ best = NoBest
    /\ LET none == Sources = {} \/ Targets = {} \/ Graph = {}
           both == Sources \cap Targets
       IN  /\ found = IF none THEN <<>> ELSE Extended(<<>>, both)
           /\ frontier = IF none \/ both # {} THEN <<>> ELSE Extended(<<>>, Sources)
    /\ seen = [c \in Components |-> IF c \in Sources THEN 0 ELSE Far]

LEMMA AnalyseStarts == ASSUME TypeOK, NEW q \in Queries, Analyse(q) PROVE Started'
<1>1. Sources' = q.source \cap OfKind(q) /\ Targets' = q.destination \cap OfKind(q)
  BY DEF Analyse, Sources, Targets, OfKind
<1>2. Graph' = Graph
  BY DEF Analyse, Graph
<1>3. TypeOK'
  BY AnalyseTyped
<1>4. /\ found' = IF Sources' = {} \/ Targets' = {} \/ Graph' = {} THEN <<>>
                  ELSE Extended(<<>>, Sources' \cap Targets')
      /\ frontier' = IF (Sources' = {} \/ Targets' = {} \/ Graph' = {}) \/ Sources' \cap Targets' # {} THEN <<>>
                     ELSE Extended(<<>>, Sources')
      /\ seen' = [c \in Components |-> IF c \in Sources' THEN 0 ELSE Far]
      /\ best' = NoBest
  BY <1>1, <1>2 DEF Analyse
<1> QED BY <1>3, <1>4 DEF Started

LEMMA StartedApart == Started /\ Apart => SearchInv
<1> SUFFICES ASSUME Started, Apart PROVE SearchInv
  OBVIOUS
<1>1. Sources \in SUBSET Components /\ <<>> \in Seq(Components) /\ TypeOK
  BY EndsAreComponents DEF Started
<1>2. /\ frontier = Extended(<<>>, Sources) /\ found = Extended(<<>>, {}) /\ best = NoBest
      /\ seen = [c \in Components |-> IF c \in Sources THEN 0 ELSE Far]
  BY DEF Started, Apart
<1>3. /\ frontier \in Seq(Seq(Components)) /\ IsInjective(frontier)
      /\ \A i \in 1..Len(frontier) : \E c \in Sources : frontier[i] = Append(<<>>, c)
      /\ \A c \in Sources : \E i \in 1..Len(frontier) : frontier[i] = Append(<<>>, c)
  BY <1>1, <1>2, ExtendedBy
<1>4. found = <<>>
  <2>1. {} \in SUBSET Components /\ <<>> \in Seq(Components)
    OBVIOUS
  <2>2. /\ found \in Seq(Seq(Components))
        /\ \A i \in 1..Len(found) : \E c \in {} : found[i] = Append(<<>>, c)
    BY <1>2, <2>1, ExtendedBy
  <2>3. Len(found) \in Nat /\ ~ (1 \in 1..Len(found))
    BY <2>2
  <2> QED BY <2>2, <2>3
<1>5. \A i \in 1..Len(frontier) : \E c \in Sources :
         frontier[i] = <<c>> /\ frontier[i] \in Begun /\ Last(frontier[i]) = c /\ Len(frontier[i]) = 1
  BY <1>1, <1>3, SingleIs
<1>6. FrontierLeads
  <2>1. \A i \in 1..Len(frontier) :
           frontier[i] \in Begun /\ Last(frontier[i]) \notin Targets /\ Len(frontier[i]) = 1
    BY <1>5 DEF Apart
  <2> QED BY <1>2, <2>1 DEF FrontierLeads
<1>7. FoundArrives
  BY <1>2, <1>4 DEF FoundArrives
<1>8. SeenReached
  BY <1>2 DEF SeenReached
<1>9. NoneLost
  <2> SUFFICES ASSUME NEW r \in ShortestWalks
               PROVE  \E i \in 1..Len(frontier), k \in 1..(Len(r) - 1) : frontier[i] = SubSeq(r, 1, k)
    BY DEF NoneLost
  <2>1. r \in Paths /\ Leads(r) /\ Last(r) \in Targets /\ Len(r) \in Nat \ {0}
    BY ShortestIs, LengthsAreNumbers
  <2>2. r[1] \in Sources
    BY <2>1 DEF Leads
  <2>3. Len(r) # 1
    BY <2>1, <2>2 DEF Last, Apart
  <2>4. PICK i \in 1..Len(frontier) : frontier[i] = <<r[1]>>
    BY <1>1, <1>3, <2>2, SingleIs
  <2>5. 1 \in 1..Len(r) /\ 1 \in 1..(Len(r) - 1)
    BY <2>1, <2>3
  <2>6. SubSeq(r, 1, 1) = <<r[1]>>
    <3> DEFINE q == SubSeq(r, 1, 1)
    <3>1. q \in Paths /\ Len(q) = 1 /\ \A j \in 1..1 : q[j] = r[j]
      BY <2>1, <2>5, PrefixLeads
    <3> HIDE DEF q
    <3>2. q \in Seq(Components) /\ Len(q) = 1 /\ q[1] = r[1]
      BY <3>1, PathIs
    <3>3. q = <<r[1]>>
      BY <3>2
    <3> QED BY <3>3 DEF q
  <2> QED BY <2>4, <2>5, <2>6
<1>10. MetOnce
  <2>1. IsInjective(found)
    BY <1>4 DEF IsInjective
  <2>2. ASSUME NEW i \in 1..Len(frontier), NEW j \in 1..Len(frontier), NEW c \in Components
        PROVE  frontier[j] # Append(frontier[i], c)
    <3>1. Len(frontier[i]) = 1 /\ Len(frontier[j]) = 1 /\ frontier[i] \in Begun
      BY <1>5
    <3>2. frontier[i] \in Seq(Components)
      BY <3>1, BegunIs
    <3>3. Len(Append(frontier[i], c)) = Len(frontier[i]) + 1
      BY <3>2, AppendIs
    <3> QED BY <3>1, <3>3
  <2> QED BY <1>3, <1>4, <2>1, <2>2 DEF MetOnce
<1> QED BY <1>6, <1>7, <1>8, <1>9, <1>10 DEF SearchInv

LEMMA StartedImmediate == Started /\ ~ Apart => Immediate
<1> SUFFICES ASSUME Started, ~ Apart PROVE Immediate
  OBVIOUS
<1> DEFINE both == Sources \cap Targets
<1> DEFINE none == Sources = {} \/ Targets = {} \/ Graph = {}
<1>1. both \in SUBSET Components /\ <<>> \in Seq(Components) /\ TypeOK
  BY EndsAreComponents DEF Started
<1>2. frontier = <<>> /\ found = IF none THEN <<>> ELSE Extended(<<>>, both)
  BY DEF Started, Apart
<1>3. CASE none
  <2>1. found = <<>>
    BY <1>2, <1>3
  <2>2. IsInjective(found) /\ Range(found) = {}
    BY <2>1 DEF IsInjective, Range
  <2> QED BY <1>2, <1>3, <2>2 DEF Immediate
<1>4. CASE ~ none
  <2>1. found = Extended(<<>>, both)
    BY <1>2, <1>4
  <2>2. /\ found \in Seq(Seq(Components)) /\ IsInjective(found)
        /\ \A i \in 1..Len(found) : \E c \in both : found[i] = Append(<<>>, c)
        /\ \A c \in both : \E i \in 1..Len(found) : found[i] = Append(<<>>, c)
    BY <1>1, <2>1, ExtendedBy
  <2>3. \A c \in both : Append(<<>>, c) = <<c>>
    BY <1>1, SingleIs
  <2>4. DOMAIN found = 1..Len(found)
    BY <2>2
  <2>5. Range(found) = {<<c>> : c \in both}
    <3> HIDE DEF both, none
    <3>1. Range(found) = {found[i] : i \in 1..Len(found)}
      BY <2>4 DEF Range
    <3>2. \A i \in 1..Len(found) : \E c \in both : found[i] = <<c>>
      BY <2>2, <2>3
    <3>3. \A c \in both : \E i \in 1..Len(found) : found[i] = <<c>>
      BY <2>2, <2>3
    <3> QED BY <3>1, <3>2, <3>3
  <2> QED BY <1>2, <1>4, <2>2, <2>5 DEF Immediate
<1> QED BY <1>3, <1>4

LEMMA StartedInv == Started => PathInv
BY StartedApart, StartedImmediate DEF PathInv, Started

----------------------------------------------------------------------------
(* A step of the search keeps what the search rests on. *)

LEMMA VisitedIs ==
    ASSUME NEW path \in Paths, NEW c \in Visited(path)
    PROVE  /\ c \notin Targets /\ WorthVisiting(c, Len(path) + 1)
           /\ best # NoBest => Len(path) + 1 < best
<1>1. best # NoBest => BestAt(path, c) = best
  BY DEF BestAt
<1> QED BY <1>1 DEF Visited

LEMMA OnwardBegun ==
    ASSUME NEW path \in Begun, NEW c \in Onward(path)
    PROVE  /\ Append(path, c) \in Begun /\ Len(Append(path, c)) = Len(path) + 1
           /\ Last(Append(path, c)) = c
<1>1. path \in Paths /\ Leads(path) /\ path \in Seq(Components)
  BY BegunIs
<1>2. c \in Components /\ Len(path) <= MaxHops /\ c \in Neighbours(Last(path))
  BY <1>1, OnwardIs
<1> QED BY <1>1, <1>2, AppendIs, LeadsOn DEF Begun

\* What the frontier holds after a step, and how long it is.
LEMMA NewFrontier ==
    ASSUME TypeOK, SearchInv, Step, NEW path, path = Head(frontier)
    PROVE  /\ path \in Begun /\ Len(path) \in Nat \ {0}
           /\ \A i \in 1..Len(frontier) : Len(frontier[i]) \in Len(path)..(Len(path) + 1)
           /\ \A i \in 1..Len(frontier') :
                 \/ i <= Len(frontier) - 1 /\ i + 1 \in 1..Len(frontier) /\ frontier'[i] = frontier[i + 1]
                 \/ /\ i > Len(frontier) - 1 /\ Len(frontier'[i]) = Len(path) + 1
                    /\ \E c \in Visited(path) : frontier'[i] = Append(path, c)
           /\ \A i \in 1..Len(frontier') : Len(frontier'[i]) \in Len(path)..(Len(path) + 1)
<1>1. /\ path \in Paths /\ Len(path) \in Nat \ {0} /\ frontier[1] = path
      /\ Len(frontier) \in Nat \ {0} /\ Len(Tail(frontier)) = Len(frontier) - 1
      /\ \A i \in 1..(Len(frontier) - 1) :
            Tail(frontier)[i] = frontier[i + 1] /\ i + 1 \in 1..Len(frontier)
  BY StepTakes
<1>2. 1 \in 1..Len(frontier) /\ frontier \in Seq(Paths)
  BY <1>1 DEF TypeOK
<1>3. path \in Begun
  BY <1>1, <1>2 DEF SearchInv, FrontierLeads
<1>4. \A i \in 1..Len(frontier) : Len(frontier[i]) \in Len(path)..(Len(path) + 1)
  <2>1. \A i \in 1..Len(frontier) : Len(frontier[i]) \in Nat
    BY <1>2, LengthsAreNumbers
  <2>2. \A i \in 1..Len(frontier) : 1 <= i
    OBVIOUS
  <2>3. \A i \in 1..Len(frontier) : Len(path) <= Len(frontier[i]) /\ Len(frontier[i]) <= Len(path) + 1
    BY <1>1, <1>2, <2>2 DEF SearchInv, FrontierLeads
  <2> QED BY <1>1, <2>1, <2>3
<1>5. Continues(frontier', Tail(frontier), path, Visited(path)) /\ frontier' \in Seq(Paths)
  BY StepFrontier
<1>6. \A c \in Visited(path) : Len(Append(path, c)) = Len(path) + 1
  BY <1>1, <1>3, OnwardIs, OnwardBegun
<1>7. ASSUME NEW i \in 1..Len(frontier')
      PROVE  \/ i <= Len(frontier) - 1 /\ i + 1 \in 1..Len(frontier) /\ frontier'[i] = frontier[i + 1]
             \/ /\ i > Len(frontier) - 1 /\ Len(frontier'[i]) = Len(path) + 1
                /\ \E c \in Visited(path) : frontier'[i] = Append(path, c)
  <2>1. CASE i <= Len(frontier) - 1
    <3>1. i \in 1..(Len(frontier) - 1)
      BY <1>1, <2>1
    <3> QED BY <1>1, <1>5, <2>1, <3>1 DEF Continues
  <2>2. CASE i > Len(frontier) - 1
    <3>1. \E c \in Visited(path) : frontier'[i] = Append(path, c)
      BY <1>1, <1>5, <2>2 DEF Continues
    <3> QED BY <1>6, <2>2, <3>1
  <2>3. i <= Len(frontier) - 1 \/ i > Len(frontier) - 1
    BY <1>1
  <2> QED BY <2>1, <2>2, <2>3
<1>8. \A i \in 1..Len(frontier') : Len(frontier'[i]) \in Len(path)..(Len(path) + 1)
  <2>1. Len(path) + 1 \in Len(path)..(Len(path) + 1)
    BY <1>1
  <2> QED BY <1>4, <1>7, <2>1
<1> QED BY <1>1, <1>3, <1>4, <1>7, <1>8

LEMMA FrontierStep == ASSUME TypeOK, Apart, SearchInv, Step PROVE FrontierLeads'
<1> DEFINE path == Head(frontier)
<1> DEFINE L == Len(path)
<1>1. /\ path \in Begun /\ L \in Nat \ {0}
      /\ \A i \in 1..Len(frontier') :
            \/ i <= Len(frontier) - 1 /\ i + 1 \in 1..Len(frontier) /\ frontier'[i] = frontier[i + 1]
            \/ /\ i > Len(frontier) - 1 /\ Len(frontier'[i]) = L + 1
               /\ \E c \in Visited(path) : frontier'[i] = Append(path, c)
      /\ \A i \in 1..Len(frontier') : Len(frontier'[i]) \in L..(L + 1)
  BY NewFrontier
<1>2. /\ Len(frontier) \in Nat \ {0} /\ frontier[1] = path
      /\ UNCHANGED <<links, query>>
      /\ best' = IF best = NoBest /\ Hits(path) # {} THEN L + 1 ELSE best
  BY StepTakes
<1>3. Begun' = Begun /\ Targets' = Targets
  BY <1>2, Unmoved
<1>4. path \in Paths
  BY <1>1, BegunIs
<1> HIDE DEF path
<1>5. ASSUME NEW i \in 1..Len(frontier')
      PROVE  frontier'[i] \in Begun /\ Last(frontier'[i]) \notin Targets
  <2>1. CASE i + 1 \in 1..Len(frontier) /\ frontier'[i] = frontier[i + 1]
    BY <2>1 DEF SearchInv, FrontierLeads
  <2>2. ASSUME NEW c \in Visited(path), frontier'[i] = Append(path, c)
        PROVE  frontier'[i] \in Begun /\ Last(frontier'[i]) \notin Targets
    <3>1. c \in Onward(path) /\ c \notin Targets
      BY <1>4, OnwardIs, VisitedIs
    <3> QED BY <1>1, <2>2, <3>1, OnwardBegun
  <2> QED BY <1>1, <2>1, <2>2
<1> HIDE DEF L
<1>6. \A i, j \in 1..Len(frontier') : Len(frontier'[j]) <= Len(frontier'[i]) + 1
  BY <1>1
<1>7. ASSUME NEW i \in 1..Len(frontier'), NEW j \in 1..Len(frontier'), i <= j
      PROVE  Len(frontier'[i]) <= Len(frontier'[j])
  <2>1. CASE j > Len(frontier) - 1
    <3>1. Len(frontier'[j]) = L + 1
      BY <1>1, <1>2, <2>1
    <3>2. Len(frontier'[i]) \in L..(L + 1)
      BY <1>1
    <3> QED BY <1>1, <3>1, <3>2
  <2>2. CASE j <= Len(frontier) - 1
    <3>1. i <= Len(frontier) - 1 /\ i + 1 <= j + 1
      BY <1>2, <1>7, <2>2
    <3>2. /\ i + 1 \in 1..Len(frontier) /\ frontier'[i] = frontier[i + 1]
          /\ j + 1 \in 1..Len(frontier) /\ frontier'[j] = frontier[j + 1]
      BY <1>1, <1>2, <2>2, <3>1
    <3>3. Len(frontier[i + 1]) <= Len(frontier[j + 1])
      BY <3>1, <3>2 DEF SearchInv, FrontierLeads
    <3> QED BY <3>2, <3>3
  <2>3. j > Len(frontier) - 1 \/ j <= Len(frontier) - 1
    BY <1>2
  <2> QED BY <2>1, <2>2, <2>3
<1>8. ASSUME best' # NoBest, NEW i \in 1..Len(frontier') PROVE best' <= Len(frontier'[i]) + 1
  <2>1. Len(frontier'[i]) \in L..(L + 1)
    BY <1>1
  <2>2. CASE best' = L + 1
    BY <1>1, <2>1, <2>2
  <2>3. CASE best' = best
    <3>1. 1 \in 1..Len(frontier) /\ best # NoBest
      BY <1>2, <1>8, <2>3
    <3>2. best <= L + 1
      BY <1>2, <3>1 DEF SearchInv, FrontierLeads, L
    <3>3. best \in Nat
      BY DEF TypeOK
    <3> QED BY <1>1, <2>1, <2>3, <3>2, <3>3
  <2> QED BY <1>2, <2>2, <2>3
<1> QED BY <1>3, <1>5, <1>6, <1>7, <1>8 DEF FrontierLeads

LEMMA SeenStep == ASSUME TypeOK, Apart, SearchInv, Step PROVE SeenReached'
<1> DEFINE path == Head(frontier)
<1>1. path \in Begun /\ path \in Paths
  BY NewFrontier, BegunIs
<1>2. /\ UNCHANGED <<links, query>> /\ Len(path) \in Nat \ {0}
      /\ seen' = [c \in Components |-> IF c \in Visited(path) THEN Len(path) + 1 ELSE seen[c]]
  BY StepTakes
<1>3. Begun' = Begun /\ Sources' = Sources
  BY <1>2, Unmoved
<1> HIDE DEF path
<1>4. ASSUME NEW c \in Components
      PROVE  \/ seen'[c] = Far \/ c \in Sources
             \/ \E p \in Begun : Last(p) = c /\ Len(p) <= seen'[c]
  <2>1. CASE c \in Visited(path)
    <3>1. Append(path, c) \in Begun /\ Len(Append(path, c)) = Len(path) + 1 /\ Last(Append(path, c)) = c
      BY <1>1, <2>1, OnwardIs, OnwardBegun
    <3>2. seen'[c] = Len(path) + 1
      BY <1>2, <2>1
    <3>3. Len(Append(path, c)) <= seen'[c]
      BY <1>2, <3>1, <3>2
    <3> QED BY <3>1, <3>3
  <2>2. CASE c \notin Visited(path)
    <3>1. seen'[c] = seen[c]
      BY <1>2, <2>2
    <3> QED BY <3>1 DEF SearchInv, SeenReached
  <2> QED BY <2>1, <2>2
<1> QED BY <1>3, <1>4 DEF SeenReached

LEMMA SearchTypes ==
    ASSUME TypeOK, SearchInv
    PROVE  /\ Len(frontier) \in Nat /\ Len(found) \in Nat /\ best \in Nat
           /\ \A i \in 1..Len(frontier) :
                 frontier[i] \in Paths /\ frontier[i] \in Seq(Components) /\ Len(frontier[i]) \in Nat
           /\ \A i \in 1..Len(found) : found[i] \in Paths /\ found[i] \in Seq(Components)
           /\ DOMAIN frontier = 1..Len(frontier) /\ DOMAIN found = 1..Len(found)
           /\ found = <<>> <=> Len(found) = 0
<1>1. frontier \in Seq(Paths) /\ found \in Seq(Paths) /\ best \in Nat
  BY DEF TypeOK
<1>2. /\ \A i \in 1..Len(frontier) : frontier[i] \in Paths
      /\ \A i \in 1..Len(found) : found[i] \in Paths
  BY <1>1
<1> QED BY <1>1, <1>2, PathIs, LengthsAreNumbers

\* The first hit is the end of a shortest walk: every other one is still on the
\* frontier, and no part of it is shorter than the path that is continued.
LEMMA FirstHit ==
    ASSUME TypeOK, Apart, SearchInv, best = NoBest, NEW w \in Walks, Len(frontier) # 0
    PROVE  Len(frontier[1]) + 1 <= Len(w)
<1> DEFINE Lengths == {Len(v) : v \in Walks}
<1>1. \A v \in Walks : v \in Paths /\ Len(v) \in Nat
  BY LengthsAreNumbers DEF Walks
<1>2. PICK n \in Lengths : \A m \in Lengths : n <= m
  <2>1. Lengths \in SUBSET Nat /\ Lengths # {}
    BY <1>1
  <2> HIDE DEF Lengths
  <2> QED BY <2>1, LeastOf
<1>3. PICK r \in Walks : Len(r) = n
  BY <1>2
<1>4. \A v \in Walks : Len(r) <= Len(v)
  BY <1>2, <1>3
<1>5. r \in ShortestWalks
  BY <1>3, <1>4 DEF ShortestWalks, Apart
<1>6. found = <<>> /\ Len(found) = 0 /\ 0 < MaxRoutes
  BY LengthsAreNumbers DEF SearchInv, FoundArrives
<1>7. PICK i \in 1..Len(frontier), k \in 1..(Len(r) - 1) : frontier[i] = SubSeq(r, 1, k)
  BY <1>5, <1>6 DEF SearchInv, NoneLost
<1>8. r \in Paths /\ Leads(r) /\ k \in 1..Len(r) /\ Len(r) \in Nat /\ Len(w) \in Nat /\ k \in Nat
  BY <1>1, <1>5, <1>7, ShortestIs
<1>9. Len(frontier[i]) = k
  BY <1>7, <1>8, PrefixLeads
<1>10. 1 \in 1..Len(frontier) /\ 1 <= i
  BY <1>7, SearchTypes
<1>11. Len(frontier[1]) <= k
  BY <1>7, <1>9, <1>10 DEF SearchInv, FrontierLeads
<1>12. Len(r) <= Len(w) /\ Len(frontier[1]) \in Nat
  BY <1>4, <1>10, SearchTypes
<1> QED BY <1>7, <1>8, <1>11, <1>12

LEMMA FoundStep == ASSUME TypeOK, Apart, SearchInv, Step PROVE FoundArrives'
<1> DEFINE path == Head(frontier)
<1> DEFINE L == Len(path)
<1>1. /\ UNCHANGED <<links, query>> /\ L \in Nat \ {0} /\ frontier[1] = path
      /\ Len(frontier) \in Nat \ {0}
      /\ best' = IF best = NoBest /\ Hits(path) # {} THEN L + 1 ELSE best
  BY StepTakes
<1>2. path \in Begun /\ path \in Paths
  BY NewFrontier, BegunIs
<1>3. /\ found' \in Seq(Paths)
      /\ \A i \in 1..Len(found') : i <= Len(found) => i \in 1..Len(found) /\ found'[i] = found[i]
      /\ \A i \in 1..Len(found') : i > Len(found) =>
            best \in {NoBest, L + 1} /\ \E h \in Hits(path) : found'[i] = Append(path, h)
      /\ found' = <<>> => found = <<>> /\ (best = NoBest => Hits(path) = {})
  BY StepFound
<1>4. Walks' = Walks
  BY <1>1, Unmoved
<1>5. ASSUME NEW h \in Hits(path) PROVE Append(path, h) \in Walks /\ Len(Append(path, h)) = L + 1
  <2>1. h \in Onward(path) /\ h \in Targets
    BY <1>2, OnwardIs DEF Hits
  <2>2. Append(path, h) \in Begun /\ Last(Append(path, h)) = h /\ Len(Append(path, h)) = L + 1
    BY <1>2, <2>1, OnwardBegun
  <2> QED BY <2>1, <2>2 DEF Begun, Walks
<1> HIDE DEF path, L
<1>6. /\ best \in Nat /\ Len(found) \in Nat /\ Len(found') \in Nat
      /\ (found = <<>> <=> Len(found) = 0) /\ (found' = <<>> <=> Len(found') = 0)
      /\ (found = <<>> <=> best = NoBest)
  BY <1>3, SearchTypes DEF SearchInv, FoundArrives
<1>7. L + 1 # NoBest
  BY <1>1 DEF NoBest
<1>8. found' = <<>> <=> best' = NoBest
  <2>1. ASSUME found' = <<>> PROVE best' = NoBest
    BY <1>1, <1>3, <1>6, <2>1
  <2>2. ASSUME best' = NoBest, found' # <<>> PROVE FALSE
    <3>1. best = NoBest /\ Hits(path) = {}
      BY <1>1, <1>7, <2>2
    <3>2. Len(found) = 0 /\ 1 \in 1..Len(found') /\ 1 > Len(found)
      BY <1>6, <2>2, <3>1
    <3> QED BY <1>3, <3>1, <3>2
  <2> QED BY <2>1, <2>2
<1>9. ASSUME NEW i \in 1..Len(found') PROVE found'[i] \in Walks /\ Len(found'[i]) = best'
  <2>1. CASE i <= Len(found)
    <3>1. i \in 1..Len(found) /\ found'[i] = found[i]
      BY <1>3, <2>1
    <3>2. best # NoBest
      BY <1>6, <3>1
    <3> QED BY <1>1, <3>1, <3>2 DEF SearchInv, FoundArrives
  <2>2. CASE i > Len(found)
    <3>1. best \in {NoBest, L + 1} /\ \E h \in Hits(path) : found'[i] = Append(path, h)
      BY <1>3, <2>2
    <3>2. best' = L + 1
      BY <1>1, <3>1
    <3> QED BY <1>5, <3>1, <3>2
  <2> QED BY <1>6, <2>1, <2>2
<1>10. ASSUME best' # NoBest, NEW w \in Walks PROVE best' <= Len(w)
  <2>1. CASE best # NoBest
    BY <1>1, <2>1 DEF SearchInv, FoundArrives
  <2>2. CASE best = NoBest
    <3>1. best' = L + 1
      BY <1>1, <1>10, <2>2
    <3>2. Len(frontier[1]) + 1 <= Len(w)
      BY <1>1, <2>2, FirstHit
    <3> QED BY <1>1, <3>1, <3>2 DEF L
  <2> QED BY <2>1, <2>2
<1> QED BY <1>4, <1>8, <1>9, <1>10 DEF FoundArrives

LEMMA LostStep == ASSUME TypeOK, Apart, SearchInv, Step PROVE NoneLost'
<1> DEFINE path == Head(frontier)
<1> DEFINE L == Len(path)
<1>1. /\ UNCHANGED <<links, query>> /\ L \in Nat \ {0} /\ frontier[1] = path /\ path \in Paths
      /\ Len(frontier) \in Nat \ {0} /\ Len(Tail(frontier)) = Len(frontier) - 1
      /\ \A i \in 1..(Len(frontier) - 1) :
            Tail(frontier)[i] = frontier[i + 1] /\ i + 1 \in 1..Len(frontier)
  BY StepTakes
<1>2. frontier' \in Seq(Paths) /\ Continues(frontier', Tail(frontier), path, Visited(path))
  BY StepFrontier
<1>3. ShortestWalks' = ShortestWalks
  BY <1>1, Unmoved
<1> SUFFICES ASSUME Len(found') < MaxRoutes, NEW r \in ShortestWalks
             PROVE  \/ \E i \in 1..Len(found') : found'[i] = r
                    \/ \E i \in 1..Len(frontier'), k \in 1..(Len(r) - 1) : frontier'[i] = SubSeq(r, 1, k)
  BY <1>3 DEF NoneLost
<1>4. /\ \A i \in 1..Len(found) : i \in 1..Len(found') /\ found'[i] = found[i]
      /\ best \in {NoBest, L + 1} =>
            \A h \in Hits(path) : \E i \in 1..Len(found') : found'[i] = Append(path, h)
  BY StepFound
<1>5. Len(found) < MaxRoutes
  BY DEF Step, Searching
<1>6. /\ r \in Walks /\ r \in Paths /\ Leads(r) /\ Last(r) \in Targets
      /\ \A w \in Walks : Len(r) <= Len(w)
      /\ Len(r) \in 1..(MaxHops + 1) /\ Len(r) \in Nat
  BY ShortestIs, PathIs, LengthsAreNumbers
<1>7. CASE \E i \in 1..Len(found) : found[i] = r
  BY <1>4, <1>7
<1>8. ASSUME NEW i \in 1..Len(frontier), NEW k \in 1..(Len(r) - 1), frontier[i] = SubSeq(r, 1, k), i # 1
      PROVE  \E j \in 1..Len(frontier') : frontier'[j] = SubSeq(r, 1, k)
  <2>1. i - 1 \in 1..(Len(frontier) - 1) /\ (i - 1) + 1 = i
    BY <1>1, <1>8
  <2>2. Tail(frontier)[i - 1] = frontier[i] /\ i - 1 \in 1..Len(Tail(frontier))
    BY <1>1, <2>1
  <2>3. Len(Tail(frontier)) <= Len(frontier') /\ frontier'[i - 1] = Tail(frontier)[i - 1]
    BY <1>2, <2>2 DEF Continues
  <2>4. i - 1 \in 1..Len(frontier')
    BY <1>1, <1>2, <2>1, <2>3
  <2> QED BY <1>8, <2>2, <2>3, <2>4
<1>9. ASSUME NEW k \in 1..(Len(r) - 1), path = SubSeq(r, 1, k)
      PROVE  \/ \E i \in 1..Len(found') : found'[i] = r
             \/ \E i \in 1..Len(frontier') : frontier'[i] = SubSeq(r, 1, k + 1) /\ k + 1 \in 1..(Len(r) - 1)
  <2> DEFINE c == r[k + 1]
  <2>1. k \in 1..Len(r) /\ k + 1 \in 1..Len(r) /\ k < Len(r) /\ k <= MaxHops /\ k \in Nat
    BY <1>6, LengthsAreNumbers
  <2>2. /\ L = k /\ Last(path) = r[k] /\ DOMAIN path = 1..k
        /\ \A j \in 1..k : path[j] = r[j]
    <3> DEFINE q == SubSeq(r, 1, k)
    <3>1. q \in Paths /\ Len(q) = k /\ Last(q) = r[k] /\ \A j \in 1..k : q[j] = r[j]
      BY <1>6, <2>1, PrefixLeads
    <3>2. path = q
      BY <1>9
    <3> HIDE DEF q
    <3> QED BY <3>1, <3>2, PathIs
  <2>3. c \in Components /\ c \in Neighbours(Last(path))
    <3>1. r[k + 1] \in Neighbours(r[k])
      BY <1>6 DEF Leads
    <3> QED BY <1>6, <2>1, <2>2, <3>1, PathIs
  <2>4. c \notin Range(path)
    <3>1. \A j \in 1..k : j \in 1..Len(r) /\ j # k + 1
      BY <2>1
    <3>2. \A j \in 1..Len(r) : r[j] = r[k + 1] => j = k + 1
      BY <2>1, NoShortcut
    <3>3. \A j \in 1..k : path[j] # c
      BY <2>2, <3>1, <3>2
    <3> QED BY <2>2, <3>3 DEF Range
  <2>5. c \in Onward(path)
    BY <2>1, <2>2, <2>3, <2>4, LengthsAreNumbers DEF Onward
  <2>6. Append(path, c) = SubSeq(r, 1, k + 1)
    <3> DEFINE q == SubSeq(r, 1, k + 1)
    <3>1. q \in Paths /\ Len(q) = k + 1 /\ \A j \in 1..(k + 1) : q[j] = r[j]
      BY <1>6, <2>1, PrefixLeads
    <3>2. path \in Seq(Components) /\ q \in Seq(Components)
      BY <1>1, <3>1, PathIs
    <3>3. /\ Append(path, c) \in Seq(Components) /\ Len(Append(path, c)) = k + 1
          /\ \A j \in 1..k : Append(path, c)[j] = path[j]
          /\ Append(path, c)[k + 1] = c
      BY <2>2, <2>3, <3>2, AppendIs
    <3> HIDE DEF q
    <3>4. \A j \in 1..(k + 1) : j \in 1..k \/ j = k + 1
      BY <2>1
    <3>5. \A j \in 1..Len(q) : Append(path, c)[j] = q[j]
      BY <2>2, <3>1, <3>3, <3>4
    <3>6. Append(path, c) = q
      BY <3>1, <3>2, <3>3, <3>5, SeqEqual
    <3> QED BY <3>6 DEF q
  <2>7. best # NoBest => best = Len(r)
    <3>1. SUFFICES ASSUME best # NoBest PROVE best = Len(r)
      OBVIOUS
    <3>2. best <= Len(r)
      BY <1>6, <3>1 DEF SearchInv, FoundArrives
    <3>3. 1 \in 1..Len(found)
      BY <3>1, SearchTypes DEF SearchInv, FoundArrives
    <3>4. found[1] \in Walks /\ Len(found[1]) = best
      BY <3>3 DEF SearchInv, FoundArrives
    <3>5. Len(r) <= best /\ best \in Nat
      BY <1>6, <3>4 DEF TypeOK
    <3> QED BY <1>6, <3>2, <3>5
  <2>8. best # NoBest => best <= k + 1
    <3>1. 1 \in 1..Len(frontier)
      BY <1>1
    <3> QED BY <1>1, <2>2, <3>1 DEF SearchInv, FrontierLeads
  <2>9. CASE c \in Targets
    <3>1. k + 1 = Len(r)
      BY <2>1, <2>9, NoShortcut
    <3>2. c \in Hits(path)
      BY <2>5, <2>9 DEF Hits
    <3>3. best \in {NoBest, L + 1}
      BY <2>2, <2>7, <3>1
    <3>4. \E i \in 1..Len(found') : found'[i] = Append(path, c)
      BY <1>4, <3>2, <3>3
    <3>5. SubSeq(r, 1, k + 1) = r
      BY <1>6, <3>1, PathIs, SubSeqFull
    <3> QED BY <2>6, <3>4, <3>5
  <2>10. CASE c \notin Targets
    <3>1. k + 1 # Len(r)
      BY <1>6, <2>10 DEF Last
    <3>2. k + 1 \in 1..(Len(r) - 1) /\ k + 1 < Len(r)
      BY <1>6, <2>1, <3>1
    <3>3. best = NoBest
      BY <1>6, <2>1, <2>7, <2>8, <3>2
    <3>4. Hits(path) = {}
      <4> SUFFICES ASSUME NEW h \in Hits(path) PROVE FALSE
        OBVIOUS
      <4>1. path \in Begun /\ h \in Onward(path) /\ h \in Targets
        BY NewFrontier DEF Hits
      <4>2. /\ Append(path, h) \in Begun /\ Last(Append(path, h)) = h
            /\ Len(Append(path, h)) = L + 1
        BY <1>1, <4>1, OnwardBegun
      <4>3. Append(path, h) \in Walks
        BY <4>1, <4>2 DEF Begun, Walks
      <4>4. Len(r) <= L + 1
        BY <1>6, <4>2, <4>3
      <4> QED BY <1>6, <2>1, <2>2, <3>2, <4>4
    <3>5. BestAt(path, c) = NoBest
      BY <3>3, <3>4 DEF BestAt
    <3>6. WorthVisiting(c, L + 1)
      <4>1. CASE seen[c] = Far
        <5>1. L + 1 \in Nat /\ L + 1 <= Far
          BY <1>6, <2>1, <2>2, LengthsAreNumbers
        <5> QED BY <4>1, <5>1 DEF WorthVisiting
      <4>2. CASE c \in Sources
        <5>1. <<c>> \in Paths /\ Leads(<<c>>) /\ Last(<<c>>) = c /\ Len(<<c>>) = 1
          BY <4>2, SingleIs, BegunIs
        <5>2. k + 1 <= 1
          BY <2>1, <5>1, NoShortcut
        <5> QED BY <2>1, <5>2
      <4>3. ASSUME NEW p \in Begun, Last(p) = c, Len(p) <= seen[c] PROVE WorthVisiting(c, L + 1)
        <5>1. p \in Paths /\ Leads(p) /\ Len(p) \in Nat /\ seen[c] \in Nat
          BY <2>3, BegunIs DEF TypeOK
        <5>2. k + 1 <= Len(p)
          BY <2>1, <4>3, <5>1, NoShortcut
        <5> QED BY <2>1, <2>2, <4>3, <5>1, <5>2 DEF WorthVisiting
      <4> QED BY <2>3, <4>1, <4>2, <4>3 DEF SearchInv, SeenReached
    <3>7. c \in Visited(path)
      BY <2>5, <2>10, <3>5, <3>6 DEF Visited
    <3>8. \E i \in 1..Len(frontier') : frontier'[i] = Append(path, c)
      BY <1>2, <3>7 DEF Continues
    <3> QED BY <2>6, <3>2, <3>8
  <2> QED BY <2>9, <2>10
<1>10. CASE \E i \in 1..Len(frontier), k \in 1..(Len(r) - 1) : frontier[i] = SubSeq(r, 1, k)
  <2>1. PICK i \in 1..Len(frontier), k \in 1..(Len(r) - 1) : frontier[i] = SubSeq(r, 1, k)
    BY <1>10
  <2>2. CASE i = 1
    BY <1>1, <1>9, <2>1, <2>2
  <2>3. CASE i # 1
    BY <1>8, <2>1, <2>3
  <2> QED BY <2>2, <2>3
<1> QED BY <1>5, <1>7, <1>10 DEF SearchInv, NoneLost

LEMMA MetStep == ASSUME TypeOK, Apart, SearchInv, Step PROVE MetOnce'
<1> DEFINE path == Head(frontier)
<1> DEFINE L == Len(path)
<1> DEFINE n == Len(frontier) - 1
<1>1. /\ L \in Nat \ {0} /\ path \in Begun
      /\ \A i \in 1..Len(frontier) : Len(frontier[i]) \in L..(L + 1)
      /\ \A i \in 1..Len(frontier') :
            \/ i <= n /\ i + 1 \in 1..Len(frontier) /\ frontier'[i] = frontier[i + 1]
            \/ /\ i > n /\ Len(frontier'[i]) = L + 1
               /\ \E c \in Visited(path) : frontier'[i] = Append(path, c)
      /\ \A i \in 1..Len(frontier') : Len(frontier'[i]) \in L..(L + 1)
  BY NewFrontier
<1>2. /\ Len(frontier) \in Nat \ {0} /\ frontier[1] = path /\ path \in Paths
      /\ Len(Tail(frontier)) = n
  BY StepTakes
<1>3. /\ frontier' \in Seq(Paths)
      /\ \A i, j \in 1..Len(frontier') : i > n /\ j > n /\ frontier'[i] = frontier'[j] => i = j
  BY <1>2, StepFrontier DEF Continues
<1>4. /\ found' \in Seq(Paths)
      /\ \A i \in 1..Len(found') : i <= Len(found) => i \in 1..Len(found) /\ found'[i] = found[i]
      /\ \A i \in 1..Len(found') : i > Len(found) => \E h \in Hits(path) : found'[i] = Append(path, h)
      /\ \A i, j \in 1..Len(found') :
            i > Len(found) /\ j > Len(found) /\ found'[i] = found'[j] => i = j
  BY StepFound
<1>5. /\ \A i, j \in 1..Len(found) : found[i] = found[j] => i = j
      /\ \A i, j \in 1..Len(frontier) : frontier[i] = frontier[j] => i = j
      /\ \A i, j \in 1..Len(frontier), c \in Components : frontier[j] # Append(frontier[i], c)
      /\ \A i \in 1..Len(frontier), j \in 1..Len(found), c \in Components :
            found[j] # Append(frontier[i], c)
  BY SearchTypes DEF SearchInv, MetOnce, IsInjective
<1>6. /\ Visited(path) \in SUBSET Components /\ Hits(path) \in SUBSET Components
      /\ path \in Seq(Components) /\ 1 \in 1..Len(frontier)
  BY <1>2, OnwardIs, PathIs
<1>7. /\ DOMAIN frontier' = 1..Len(frontier') /\ DOMAIN found' = 1..Len(found')
      /\ Len(found') \in Nat /\ Len(frontier') \in Nat /\ n \in Nat /\ Len(found) \in Nat
      /\ \A i \in 1..Len(frontier') : frontier'[i] \in Seq(Components)
  <2>1. \A i \in 1..Len(frontier') : frontier'[i] \in Paths
    BY <1>3
  <2> QED BY <1>2, <1>3, <1>4, <2>1, SearchTypes, PathIs
\* The visited paths are longer than any route that was found before.
<1>8. ASSUME NEW c \in Visited(path), NEW d \in Components, NEW j \in 1..Len(found)
      PROVE  found[j] # Append(Append(path, c), d)
  <2>1. best # NoBest /\ Len(found[j]) = best /\ best \in Nat
    BY <1>7, SearchTypes DEF SearchInv, FoundArrives
  <2>2. L + 1 < best
    BY <1>2, <2>1, VisitedIs
  <2>3. best <= L + 1
    BY <1>2, <1>6, <2>1 DEF SearchInv, FrontierLeads
  <2> QED BY <1>1, <2>1, <2>2, <2>3
<1>9. ASSUME NEW c \in Components, NEW d \in Components
       PROVE  Len(Append(path, c)) = L + 1 /\ Len(Append(Append(path, c), d)) = L + 2
  <2>1. Append(path, c) \in Seq(Components) /\ Len(Append(path, c)) = L + 1
    BY <1>6, AppendIs
  <2> HIDE DEF L
  <2>2. Len(Append(Append(path, c), d)) = (L + 1) + 1
    BY <2>1, AppendIs
  <2> QED BY <1>1, <2>1, <2>2
\* A path of the frontier other than the first one is continued otherwise.
<1>10. ASSUME NEW i \in 1..Len(frontier), NEW c \in Components, NEW d \in Components,
              Append(path, d) = Append(frontier[i], c)
       PROVE  i = 1
  <2>1. frontier[i] \in Seq(Components)
    BY SearchTypes
  <2>2. path = frontier[i]
    BY <1>6, <1>10, <2>1, AppendDiffers
  <2> QED BY <1>2, <1>5, <1>6, <2>2
<1> HIDE DEF path, L, n
<1>11. \A i \in 1..Len(frontier') : i <= n \/ i > n
  BY <1>7
<1>12. \A i \in 1..Len(frontier') : i + 1 # 1
  BY <1>7
<1>13. ASSUME NEW i \in 1..Len(found'), NEW j \in 1..Len(found'), found'[i] = found'[j] PROVE i = j
  <2>1. ASSUME NEW x \in 1..Len(found'), NEW y \in 1..Len(found'), x <= Len(found), y > Len(found),
               found'[x] = found'[y]
        PROVE  FALSE
    <3>1. PICK h \in Hits(path) : found'[y] = Append(path, h)
      BY <1>4, <2>1
    <3>2. x \in 1..Len(found) /\ found'[x] = found[x]
      BY <1>4, <2>1
    <3> QED BY <1>2, <1>5, <1>6, <2>1, <3>1, <3>2
  <2>2. CASE i <= Len(found) /\ j <= Len(found)
    BY <1>4, <1>5, <1>13, <2>2
  <2>3. CASE i > Len(found) /\ j > Len(found)
    BY <1>4, <1>13, <2>3
  <2>4. CASE i <= Len(found) /\ j > Len(found)
    BY <1>13, <2>1, <2>4
  <2>5. CASE i > Len(found) /\ j <= Len(found)
    BY <1>13, <2>1, <2>5
  <2> QED BY <1>7, <2>2, <2>3, <2>4, <2>5
<1>14. ASSUME NEW i \in 1..Len(frontier'), NEW j \in 1..Len(frontier'), frontier'[i] = frontier'[j]
       PROVE  i = j
  <2>1. ASSUME NEW x \in 1..Len(frontier'), NEW y \in 1..Len(frontier'), x <= n, y > n,
               frontier'[x] = frontier'[y]
        PROVE  FALSE
    <3>1. PICK c \in Visited(path) : frontier'[y] = Append(path, c)
      BY <1>1, <1>7, <2>1
    <3>2. x + 1 \in 1..Len(frontier) /\ frontier'[x] = frontier[x + 1]
      BY <1>1, <1>7, <2>1
    <3> QED BY <1>2, <1>5, <1>6, <2>1, <3>1, <3>2
  <2>2. CASE i <= n /\ j <= n
    <3>1. /\ i + 1 \in 1..Len(frontier) /\ frontier'[i] = frontier[i + 1]
          /\ j + 1 \in 1..Len(frontier) /\ frontier'[j] = frontier[j + 1]
      BY <1>1, <1>7, <2>2
    <3>2. i + 1 = j + 1
      BY <1>5, <1>14, <3>1
    <3> QED BY <3>2
  <2>3. CASE i > n /\ j > n
    BY <1>3, <1>14, <2>3
  <2>4. CASE i <= n /\ j > n
    BY <1>14, <2>1, <2>4
  <2>5. CASE i > n /\ j <= n
    BY <1>14, <2>1, <2>5
  <2> QED BY <1>11, <2>2, <2>3, <2>4, <2>5
<1>15. ASSUME NEW i \in 1..Len(frontier'), NEW j \in 1..Len(frontier'), NEW c \in Components
       PROVE  frontier'[j] # Append(frontier'[i], c)
  <2>1. CASE i + 1 \in 1..Len(frontier) /\ frontier'[i] = frontier[i + 1]
    <3>1. CASE j + 1 \in 1..Len(frontier) /\ frontier'[j] = frontier[j + 1]
      BY <1>5, <2>1, <3>1
    <3>2. ASSUME NEW d \in Visited(path), frontier'[j] = Append(path, d)
          PROVE  frontier'[j] # Append(frontier'[i], c)
      BY <1>6, <1>10, <1>12, <2>1, <3>2
    <3> QED BY <1>1, <3>1, <3>2
  <2>2. ASSUME NEW d \in Visited(path), frontier'[i] = Append(path, d)
        PROVE  frontier'[j] # Append(frontier'[i], c)
    <3>1. Len(Append(frontier'[i], c)) = L + 2
      BY <1>6, <1>9, <2>2
    <3>2. Len(frontier'[j]) \in L..(L + 1)
      BY <1>1
    <3> QED BY <1>1, <3>1, <3>2
  <2> QED BY <1>1, <2>1, <2>2
<1>16. ASSUME NEW i \in 1..Len(frontier'), NEW j \in 1..Len(found'), NEW c \in Components
       PROVE  found'[j] # Append(frontier'[i], c)
  <2>1. CASE j <= Len(found)
    <3>1. j \in 1..Len(found) /\ found'[j] = found[j]
      BY <1>4, <2>1
    <3>2. CASE i + 1 \in 1..Len(frontier) /\ frontier'[i] = frontier[i + 1]
      BY <1>5, <3>1, <3>2
    <3>3. ASSUME NEW d \in Visited(path), frontier'[i] = Append(path, d)
          PROVE  found'[j] # Append(frontier'[i], c)
      BY <1>8, <3>1, <3>3
    <3> QED BY <1>1, <3>2, <3>3
  <2>2. CASE j > Len(found)
    <3>1. PICK h \in Hits(path) : found'[j] = Append(path, h)
      BY <1>4, <2>2
    <3>2. CASE i + 1 \in 1..Len(frontier) /\ frontier'[i] = frontier[i + 1]
      BY <1>6, <1>10, <1>12, <3>1, <3>2
    <3>3. ASSUME NEW d \in Visited(path), frontier'[i] = Append(path, d)
          PROVE  found'[j] # Append(frontier'[i], c)
      <4>1. Len(Append(frontier'[i], c)) = L + 2 /\ Len(found'[j]) = L + 1
        BY <1>6, <1>9, <3>1, <3>3
      <4> QED BY <1>1, <4>1
    <3> QED BY <1>1, <3>2, <3>3
  <2> QED BY <1>7, <2>1, <2>2
<1> QED BY <1>7, <1>13, <1>14, <1>15, <1>16 DEF MetOnce, IsInjective

----------------------------------------------------------------------------
(* The invariant. *)

LEMMA SearchStep == TypeOK /\ Apart /\ SearchInv /\ Step => SearchInv'
BY FrontierStep, FoundStep, SeenStep, LostStep, MetStep DEF SearchInv

LEMMA StartedNext == Started' => PathInv'
BY StartedInv, PTL

LEMMA PathInvStep == PathInv /\ [Next]_vars => PathInv'
<1> SUFFICES ASSUME PathInv, [Next]_vars PROVE PathInv'
  OBVIOUS
<1>1. TypeOK /\ TypeOK'
  BY NextTyped DEF PathInv
<1>2. ASSUME NEW p \in Pairs, CreateLink(p) \/ DeleteLink(p) PROVE Idle'
  BY <1>2 DEF CreateLink, DeleteLink, Idle
<1>3. ASSUME NEW r \in Rules, RuleMoves(r) PROVE Idle'
  BY <1>3 DEF RuleMoves, Idle
<1>4. ASSUME NEW q \in Queries, Analyse(q) PROVE PathInv'
  BY <1>1, <1>4, AnalyseStarts, StartedNext
<1>5. CASE Step
  <2>1. ~ Idle /\ frontier # <<>>
    BY <1>5 DEF Step, Searching
  <2>2. Apart /\ SearchInv
    BY <2>1 DEF PathInv, Immediate
  <2>3. Apart' = Apart /\ Idle' = Idle
    BY <1>5, Unmoved DEF Step
  <2> QED BY <1>1, <1>5, <2>2, <2>3, SearchStep DEF PathInv
<1>6. CASE Answer
  BY <1>1, <1>6 DEF Answer, Idle, PathInv
<1>7. CASE UNCHANGED vars
  <2>1. UNCHANGED <<links, query, frontier, seen, found, best>>
    BY <1>7 DEF vars, search
  <2>2. /\ Apart' = Apart /\ Idle' = Idle /\ Graph' = Graph /\ Sources' = Sources
        /\ Targets' = Targets /\ Begun' = Begun /\ Walks' = Walks /\ ShortestWalks' = ShortestWalks
    BY <2>1, Unmoved
  <2>3. SearchInv' = SearchInv
    <3>1. FrontierLeads' = FrontierLeads
      BY <2>1, <2>2 DEF FrontierLeads
    <3>2. FoundArrives' = FoundArrives
      BY <2>1, <2>2 DEF FoundArrives
    <3>3. SeenReached' = SeenReached
      BY <2>1, <2>2 DEF SeenReached
    <3>4. NoneLost' = NoneLost
      BY <2>1, <2>2 DEF NoneLost
    <3>5. MetOnce' = MetOnce
      BY <2>1 DEF MetOnce
    <3> QED BY <3>1, <3>2, <3>3, <3>4, <3>5 DEF SearchInv
  <2>4. Immediate' = Immediate
    BY <2>1, <2>2 DEF Immediate
  <2> QED BY <1>1, <2>2, <2>3, <2>4 DEF PathInv
<1> QED BY <1>1, <1>2, <1>3, <1>4, <1>5, <1>6, <1>7 DEF Next, PathInv

LEMMA PathInvHolds == Spec => []PathInv
<1>1. Init => PathInv
  BY InitTyped DEF PathInv, Init, Idle
<1> QED BY <1>1, PathInvStep, PTL DEF Spec

\* The variables keep the types the search gives them: every path on the frontier and
\* every route found is a path along components, of at most MAX_HOPS + 1 of them.
THEOREM PathTypes == Spec => []TypeOK
<1>1. PathInv => TypeOK
  BY DEF PathInv
<1> QED BY <1>1, PathInvHolds, PTL

----------------------------------------------------------------------------
(* The answer. *)

LEMMA RoutesCounted ==
    ASSUME TypeOK, IsInjective(found)
    PROVE  IsFiniteSet(Routes) /\ Cardinality(Routes) = Len(found)
<1>1. Len(found) \in Nat /\ DOMAIN found = 1..Len(found)
  BY DEF TypeOK
<1>2. found \in Surjection(1..Len(found), Routes) /\ found \in Injection(1..Len(found), Routes)
  <2>1. found \in [1..Len(found) -> Routes]
    BY <1>1 DEF Routes, Range, TypeOK
  <2>2. \A r \in Routes : \E i \in 1..Len(found) : found[i] = r
    BY <1>1 DEF Routes, Range
  <2> QED BY <2>1, <2>2 DEF Surjection, Injection
<1>3. \A n \in Nat : IsFiniteSet(1..n) /\ Cardinality(1..n) = n
  BY FS_Interval
<1>4. IsFiniteSet(1..Len(found)) /\ Cardinality(1..Len(found)) = Len(found)
  BY <1>1, <1>3
<1> QED BY <1>2, <1>4, FS_Surjection

LEMMA ApartAnswered == PathInv /\ Apart => EveryShortestRoute
<1> SUFFICES ASSUME PathInv, Apart, Answered PROVE EveryShortestRoute
  BY DEF EveryShortestRoute
<1>1. TypeOK /\ SearchInv /\ ~ Searching /\ ~ Idle
  BY DEF PathInv, Answered
<1>2. /\ Len(found) \in Nat /\ Len(frontier) \in Nat /\ MaxRoutes \in Nat
      /\ DOMAIN found = 1..Len(found)
  BY <1>1, SearchTypes, LengthsAreNumbers
<1>3. IsInjective(found)
  BY <1>1 DEF SearchInv, MetOnce
<1>4. ASSUME NEW r \in Routes PROVE r \in ShortestWalks /\ Len(r) = best
  <2>1. PICK i \in 1..Len(found) : found[i] = r
    BY <1>2 DEF Routes, Range
  <2>2. r \in Walks /\ Len(r) = best
    BY <1>1, <2>1 DEF SearchInv, FoundArrives
  <2>3. best # NoBest
    BY <1>1, <2>1, SearchTypes DEF SearchInv, FoundArrives
  <2>4. \A w \in Walks : Len(r) <= Len(w)
    BY <1>1, <2>2, <2>3 DEF SearchInv, FoundArrives
  <2> QED BY <2>2, <2>4 DEF ShortestWalks, Apart
<1>5. ASSUME Len(found) < MaxRoutes, NEW r \in ShortestWalks PROVE r \in Routes
  <2>1. CASE \E i \in 1..Len(found) : found[i] = r
    BY <1>2, <2>1 DEF Routes, Range
  <2>2. ASSUME NEW i \in 1..Len(frontier), NEW k \in 1..(Len(r) - 1), frontier[i] = SubSeq(r, 1, k)
        PROVE  FALSE
    <3>1. r \in Walks /\ r \in Paths /\ Leads(r) /\ Len(r) \in Nat /\ k \in 1..Len(r) /\ k \in Nat
      BY ShortestIs, LengthsAreNumbers
    <3>2. Len(frontier[i]) = k /\ 1 \in 1..Len(frontier) /\ 1 <= i
      BY <1>2, <2>2, <3>1, PrefixLeads
    <3>3. frontier # <<>> /\ Len(frontier[1]) \in Nat /\ Head(frontier) = frontier[1] /\ best \in Nat
      BY <1>1, <3>2, SearchTypes DEF TypeOK
    <3>4. best # NoBest /\ Len(frontier[1]) > best
      BY <1>1, <1>5, <3>3 DEF Searching
    <3>5. Len(frontier[1]) <= k
      BY <1>1, <3>2 DEF SearchInv, FrontierLeads
    <3>6. 1 \in 1..Len(found)
      BY <1>1, <1>2, <3>4, SearchTypes DEF SearchInv, FoundArrives
    <3>7. found[1] \in Walks /\ Len(found[1]) = best
      BY <1>1, <3>6 DEF SearchInv, FoundArrives
    <3>8. Len(r) <= best
      BY <3>7, ShortestIs
    <3> QED BY <2>2, <3>1, <3>3, <3>4, <3>5, <3>8
  <2> QED BY <1>1, <1>5, <2>1, <2>2 DEF SearchInv, NoneLost
<1>6. Cardinality(Routes) >= MaxRoutes \/ Len(found) < MaxRoutes
  BY <1>1, <1>2, <1>3, RoutesCounted
<1> QED BY <1>3, <1>4, <1>5, <1>6 DEF EveryShortestRoute

LEMMA ImmediateAnswered == PathInv /\ ~ Apart => EveryShortestRoute
<1> SUFFICES ASSUME PathInv, ~ Apart, Answered PROVE EveryShortestRoute
  BY DEF EveryShortestRoute
<1>1. TypeOK /\ IsInjective(found)
      /\ Routes = IF Graph = {} THEN {} ELSE {<<c>> : c \in Sources \cap Targets}
  BY DEF PathInv, Immediate, Answered, Routes
<1>2. Routes = ShortestWalks
  <2>1. CASE Graph = {}
    BY <1>1, <2>1 DEF ShortestWalks
  <2>2. CASE Graph # {} /\ Sources \cap Targets = {}
    <3>1. Sources = {} \/ Targets = {}
      BY <2>2 DEF Apart
    <3>2. Walks = {}
      BY <3>1 DEF Walks, Leads
    <3> QED BY <1>1, <2>2, <3>2 DEF ShortestWalks
  <2>3. CASE Graph # {} /\ Sources \cap Targets # {}
    <3>1. \A w \in Walks : w \in Paths /\ Leads(w) /\ Last(w) \in Targets /\ Len(w) \in Nat \ {0}
      BY LengthsAreNumbers DEF Walks
    <3>2. ASSUME NEW c \in Sources \cap Targets PROVE <<c>> \in Walks /\ Len(<<c>>) = 1
      <4>1. <<c>> \in Begun /\ Last(<<c>>) = c /\ Len(<<c>>) = 1
        BY <1>1, SingleIs
      <4> QED BY <4>1 DEF Begun, Walks
    <3>3. PICK c \in Sources \cap Targets : TRUE
      BY <2>3
    <3>4. ASSUME NEW r \in ShortestWalks PROVE \E d \in Sources \cap Targets : r = <<d>>
      <4>1. r \in Walks /\ Len(r) <= 1
        BY <3>2, <3>3, ShortestIs
      <4>2. Len(r) = 1 /\ r \in Seq(Components)
        <5>1. r \in Paths /\ Len(r) \in Nat \ {0} /\ Len(r) <= 1
          BY <3>1, <4>1
        <5>2. r \in Seq(Components)
          BY <5>1, PathIs
        <5>3. \A n \in Nat \ {0} : n <= 1 => n = 1
          OBVIOUS
        <5>4. Len(r) = 1
          BY <5>1, <5>3
        <5> QED BY <5>2, <5>4
      <4>3. r[1] \in Sources /\ r[1] \in Targets
        BY <3>1, <4>1, <4>2 DEF Leads, Last
      <4>4. r = <<r[1]>>
        BY <4>2
      <4> QED BY <4>3, <4>4
    <3>5. ASSUME NEW d \in Sources \cap Targets PROVE <<d>> \in ShortestWalks
      <4>1. \A w \in Walks : Len(<<d>>) <= Len(w)
        BY <3>1
      <4> QED BY <2>3, <3>2, <4>1 DEF ShortestWalks
    <3> QED BY <1>1, <2>3, <3>4, <3>5
  <2> QED BY <2>1, <2>2, <2>3
<1> QED BY <1>1, <1>2 DEF EveryShortestRoute

\* The answer of an analysis holds every shortest route between the two ends, each
\* once, and no other path; with more of them than MAX_ROUTES it holds that many.
THEOREM EveryRouteFound == Spec => []EveryShortestRoute
<1>1. PathInv => EveryShortestRoute
  BY ApartAnswered, ImmediateAnswered
<1> QED BY <1>1, PathInvHolds, PTL

\* There are only finitely many paths of each length: those of n + 1 components are the
\* paths of n components with one more, so that no least length has infinitely many.
LEMMA PathsOfLength ==
    ASSUME NEW n \in Nat PROVE IsFiniteSet([1..n -> Components])
<1> DEFINE Infinite == {m \in Nat : ~ IsFiniteSet([1..m -> Components])}
<1>1. ASSUME Infinite # {} PROVE FALSE
  <2>1. PICK m \in Infinite : \A k \in Infinite : m <= k
    <3>1. Infinite \in SUBSET Nat
      OBVIOUS
    <3> HIDE DEF Infinite
    <3> QED BY <1>1, <3>1, LeastOf
  <2>2. m # 0
    <3> SUFFICES ASSUME m = 0 PROVE FALSE
      OBVIOUS
    <3>1. ASSUME NEW p \in [1..m -> Components] PROVE p = <<>>
      <4>1. p \in Seq(Components) /\ DOMAIN p = 1..0
        OBVIOUS
      <4>2. Len(p) = 0
        BY <4>1
      <4> QED BY <4>1, <4>2
    <3>2. IsFiniteSet({<<>>})
      BY FS_Singleton
    <3>3. IsFiniteSet([1..m -> Components])
      BY <3>1, <3>2, FS_Subset
    <3> QED BY <3>3
  <2> DEFINE k == m - 1
  <2>3. k \in Nat /\ m = k + 1 /\ m \in Nat /\ IsFiniteSet([1..k -> Components])
    <3>1. k \in Nat /\ m = k + 1 /\ m \in Nat
      BY <2>2
    <3>2. k \notin Infinite
      BY <2>1, <3>1
    <3> QED BY <3>1, <3>2
  <2> HIDE DEF k
  <2> DEFINE S == [1..k -> Components] \X Components
  <2> DEFINE f == [x \in S |-> [i \in 1..m |-> IF i = m THEN x[2] ELSE x[1][i]]]
  <2>4. IsFiniteSet(S)
    BY <2>3, PathAssumption, FS_Product DEF PathAssumption
  <2>5. f \in Surjection(S, [1..m -> Components])
    <3>1. \A i \in 1..m : i # m => i \in 1..k
      BY <2>3
    <3>2. ASSUME NEW x \in S PROVE f[x] \in [1..m -> Components]
      <4>1. x[1] \in [1..k -> Components] /\ x[2] \in Components
        OBVIOUS
      <4> QED BY <3>1, <4>1
    <3>3. ASSUME NEW p \in [1..m -> Components] PROVE \E x \in S : f[x] = p
      <4> DEFINE x == <<[i \in 1..k |-> p[i]], p[m]>>
      <4>1. \A i \in 1..k : i \in 1..m /\ p[i] \in Components
        BY <2>3
      <4>2. m \in 1..m /\ p[m] \in Components
        BY <2>3
      <4>3. x \in S
        BY <4>1, <4>2
      <4>4. \A i \in 1..m : f[x][i] = p[i]
        BY <3>1, <4>3
      <4>5. f[x] \in [1..m -> Components]
        BY <3>2, <4>3
      <4> HIDE DEF f, x
      <4>6. f[x] = p
        BY <4>4, <4>5
      <4> QED BY <4>3, <4>6
    <3>4. f \in [S -> [1..m -> Components]]
      BY <3>2
    <3> HIDE DEF f, S
    <3> QED BY <3>3, <3>4 DEF Surjection
  <2>6. IsFiniteSet([1..m -> Components])
    <3> HIDE DEF f, S
    <3> QED BY <2>4, <2>5, FS_Surjection
  <2> QED BY <2>1, <2>6
<1> QED BY <1>1

LEMMA ShortestFinite == IsFiniteSet(ShortestWalks)
<1> DEFINE Lengths == 1..(MaxHops + 1)
<1> DEFINE S == {[1..n -> Components] : n \in Lengths}
<1> DEFINE f == [n \in Lengths |-> [1..n -> Components]]
<1>1. MaxHops \in Nat
  BY LengthsAreNumbers
<1>2. IsFiniteSet(Lengths) /\ \A n \in Lengths : n \in Nat
  BY <1>1, FS_Interval
<1>3. f \in Surjection(Lengths, S)
  BY DEF Surjection
<1>4. IsFiniteSet(S)
  <2> HIDE DEF Lengths, S, f
  <2> QED BY <1>2, <1>3, FS_Surjection
<1>5. \A T \in S : IsFiniteSet(T)
  BY <1>2, PathsOfLength
<1>6. IsFiniteSet(UNION S)
  <2> HIDE DEF S
  <2> QED BY <1>4, <1>5, FS_UNION
<1>7. Paths = UNION S
  BY DEF Paths
<1>8. ShortestWalks \in SUBSET Paths
  BY ShortestIs
<1> QED BY <1>6, <1>7, <1>8, FS_Subset

\* What is called possible is permitted by one service on every component of every
\* shortest route, and a route with a component that no rule covers is named.
THEOREM PossibleOnEveryRoute == Spec => []PossibleSurvivesFailover
<1>1. TypeOK /\ EveryShortestRoute => PossibleSurvivesFailover
  <2> SUFFICES ASSUME TypeOK, EveryShortestRoute, Answered, Routing = "routed",
                      Cardinality(ShortestWalks) < MaxRoutes
               PROVE  /\ Possible => \E s \in Services : \A r \in ShortestWalks :
                                        \A c \in Range(r) : s \in Permitted(c)
                      /\ \A r \in ShortestWalks : (\E c \in Range(r) : Permitted(c) = {}) => r \in RouteGaps
    BY DEF PossibleSurvivesFailover
  <2>1. Routes = ShortestWalks
    <3>1. Routes \in SUBSET ShortestWalks /\ (Cardinality(Routes) >= MaxRoutes \/ Routes = ShortestWalks)
      BY DEF EveryShortestRoute
    <3>2. /\ Cardinality(Routes) <= Cardinality(ShortestWalks)
          /\ Cardinality(Routes) \in Nat /\ Cardinality(ShortestWalks) \in Nat
      BY <3>1, ShortestFinite, FS_Subset, FS_CardinalityType
    <3> QED BY <3>1, <3>2, LengthsAreNumbers
  <2>2. ASSUME Possible
        PROVE  \E s \in Services : \A r \in ShortestWalks : \A c \in Range(r) : s \in Permitted(c)
    <3>1. PICK s \in Everywhere : TRUE
      BY <2>2 DEF Possible
    <3>2. \A r \in ShortestWalks : \A c \in Range(r) : c \in Hops
      BY <2>1 DEF Hops, OnRoutes
    <3> QED BY <3>1, <3>2 DEF Everywhere
  <2>3. ASSUME NEW r \in ShortestWalks, NEW c \in Range(r), Permitted(c) = {} PROVE r \in RouteGaps
    <3>1. ~ Covered(c)
      <4> SUFFICES ASSUME NEW x \in Enabling(c) PROVE FALSE
        BY DEF Covered
      <4>1. x \in Rules
        BY DEF Enabling, TypeOK
      <4>2. Carries[x] # {}
        BY <4>1, PathAssumption DEF PathAssumption
      <4> QED BY <2>3, <4>2 DEF Permitted
    <3> QED BY <2>1, <3>1 DEF RouteGaps
  <2> QED BY <2>2, <2>3
<1> QED BY <1>1, PathTypes, EveryRouteFound, PTL
=============================================================================
