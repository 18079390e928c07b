--------------------------- MODULE DevicesProofs ---------------------------
(***************************************************************************)
(* What a report in sync says, and what a clean rollout reports, for any   *)
(* rules, any device and either platform.                                  *)
(***************************************************************************)
EXTENDS Devices, SequenceTheorems, WellFoundedInduction, TLAPS

Entries == [alias : STRING, net : SUBSET Addresses]
Svcs    == [protocol : Protocols, port : PortLists]
Keys    == (STRING \cup {None}) \X ObjectsOf
Books   == UNION {[S -> SUBSET Addresses] : S \in SUBSET Keys}
Configs == [policies : Seq(Policies), book : Books]
Files   == UNION {[S -> RuleContents] : S \in SUBSET Rules}

\* A configuration as it is uploaded: each name is read as one of the books has it.
Readable(c) ==
    /\ c.policies \in Seq(Policies) /\ c.book \in Books
    /\ DOMAIN c.read = {k[2] : k \in DOMAIN c.book}
    /\ \A n \in DOMAIN c.read : \E k \in DOMAIN c.book : k[2] = n /\ c.read[n] = c.book[k]

TypeOK ==
    /\ rules \in [Rules -> [state : States, content : RuleContents]]
    /\ file \in Files
    /\ device \in Configs /\ Readable(config)

----------------------------------------------------------------------------
(* First and last. *)

LEMMA LeastOf == ASSUME NEW S \in SUBSET Nat, S # {} PROVE \E x \in S : \A y \in S : x <= y
<1>1. PICK x \in S : \A y \in S : ~ (<<y, x>> \in OpToRel(<, Nat))
  BY WFMin, NatLessThanWellFounded
<1>2. \A y \in S : ~ (y < x)
  BY <1>1 DEF OpToRel
<1> QED BY <1>2

LEMMA GreatestOf ==
    ASSUME NEW n \in Nat, NEW S \in SUBSET (1..n), S # {}
    PROVE  \E x \in S : \A y \in S : y <= x
<1> DEFINE T == {n - x : x \in S}
<1>1. T \in SUBSET Nat /\ T # {}
  <2>1. \A x \in S : n - x \in Nat
    OBVIOUS
  <2> QED BY <2>1
<1>2. PICK t \in T : \A u \in T : t <= u
  <2> HIDE DEF T
  <2> QED BY <1>1, LeastOf
<1>3. PICK x \in S : t = n - x
  BY <1>2
<1>4. \A y \in S : n - x <= n - y
  BY <1>2, <1>3
<1> QED BY <1>3, <1>4

LEMMA StandingOf ==
    ASSUME NEW n \in Nat, NEW S \in SUBSET (1..n), S # {}
    PROVE  Standing(S) \in S
<1>1. S \in SUBSET Nat
  OBVIOUS
<1>2. \E i \in S : \A j \in S : IF Platform = "juniper" THEN j <= i ELSE i <= j
  <2>1. \E i \in S : \A j \in S : i <= j
    BY <1>1, LeastOf
  <2> QED BY <2>1, GreatestOf
<1> QED BY <1>2 DEF Standing

----------------------------------------------------------------------------
(* Types of what is written and loaded. *)

LEMMA SequenceOf ==
    ASSUME NEW S, NEW s \in Seq(S)
    PROVE  /\ Len(s) \in Nat /\ DOMAIN s = 1..Len(s)
           /\ \A i \in 1..Len(s) : s[i] \in S
  OBVIOUS

LEMMA ContentParts ==
    ASSUME NEW c \in RuleContents
    PROVE  /\ c.name \in DOMAIN Cited /\ c.from \in STRING /\ c.to \in STRING /\ c.action \in Actions
           /\ c.source \in Seq(Entries) /\ c.destination \in Seq(Entries)
           /\ \A svc \in c.services : svc \in Svcs
  BY DEF RuleContents, Entries, Svcs

\* What is understood of a port list is among the ranges it lists.
LEMMA RangesOf ==
    ASSUME NEW svc \in Svcs
    PROVE  /\ \A r \in Ranges(svc) : r \in Ports \X Ports
           /\ Understood(svc) \subseteq Ranges(svc)
           /\ svc.port = Ping => Ranges(svc) = {}
<1>1. \A item \in svc.port \ Ping : item \in Ports \X Ports \X {"alone", "joined"}
  BY DEF Svcs, PortLists
<1>2. \A r \in Ranges(svc) : r \in Ports \X Ports
  BY <1>1 DEF Ranges
<1>3. Understood(svc) \subseteq Ranges(svc)
  BY DEF Understood, Ranges
<1>4. svc.port = Ping => Ranges(svc) = {}
  BY DEF Ranges
<1> QED BY <1>2, <1>3, <1>4

LEMMA NameType ==
    ASSUME NEW e \in Entries
    PROVE  /\ ObjectName(e) \in ObjectsOf
           /\ ObjectName(e) = <<"any">> <=> e.net = AnyNet
<1>1. e.alias \in STRING /\ e.net \in SUBSET Addresses
  BY DEF Entries
<1>2. CASE e.net = AnyNet
  <2>1. ObjectName(e) = <<"any">>
    BY <1>2 DEF ObjectName
  <2> QED BY <1>2, <2>1 DEF ObjectsOf
<1>3. CASE e.net # AnyNet /\ e.alias # None
  <2>1. ObjectName(e) = <<"alias", e.alias>>
    BY <1>3 DEF ObjectName
  <2>2. <<"alias", e.alias>> # <<"any">>
    <3>1. <<"alias", e.alias>>[1] = "alias" /\ <<"any">>[1] = "any"
      OBVIOUS
    <3> QED BY <3>1
  <2> QED BY <1>1, <1>3, <2>1, <2>2 DEF ObjectsOf
<1>4. CASE e.net # AnyNet /\ e.alias = None
  <2>1. ObjectName(e) = <<"net", e.net>>
    BY <1>4 DEF ObjectName
  <2>2. <<"net", e.net>> # <<"any">>
    <3>1. <<"net", e.net>>[1] = "net" /\ <<"any">>[1] = "any"
      OBVIOUS
    <3> QED BY <3>1
  <2> QED BY <1>1, <1>4, <2>1, <2>2 DEF ObjectsOf
<1> QED BY <1>2, <1>3, <1>4

LEMMA NamesType ==
    ASSUME NEW entries \in Seq(Entries)
    PROVE  ObjectNames(entries) \in SUBSET ObjectsOf
  BY NameType, SequenceOf DEF ObjectNames

LEMMA Port0 == Echo \in Ports /\ 0 \in Ports /\ MaxPort \in Ports
  BY DeviceAssumption DEF DeviceAssumption, Echo, Ports

Apps == [proto : {"any", "tcp", "udp", "icmp"}, lo : Ports, hi : Ports]

LEMMA AppsType ==
    ASSUME NEW svc \in Svcs
    PROVE  ExportedServices(svc) \in SUBSET Apps
<1>1. Split(svc.protocol) \in SUBSET {"tcp", "udp", "icmp"}
  BY DEF Split
<1>2. \A r \in Ranges(svc) : r[1] \in Ports /\ r[2] \in Ports
  <2>1. \A r \in Ranges(svc) : r \in Ports \X Ports
    BY RangesOf
  <2> QED BY <2>1
<1>3. \A p \in {"any", "tcp", "udp", "icmp"} : \A lo, hi \in Ports : Service(p, lo, hi) \in Apps
  BY DEF Service, Apps
<1>4. \A p \in {"any", "tcp", "udp", "icmp"} : Every(p) \in Apps
  BY <1>3, Port0 DEF Every
<1>5. ASSUME NEW p \in Split(svc.protocol)
      PROVE  (IF p = "icmp" THEN {IF svc.port = Ping THEN Service(p, Echo, Echo) ELSE Every(p)}
              ELSE IF Ranges(svc) = {} THEN {Every("any")}
              ELSE {Service(p, range[1], range[2]) : range \in Ranges(svc)}) \in SUBSET Apps
  BY <1>1, <1>2, <1>3, <1>4, <1>5, Port0
<1> QED BY <1>5 DEF ExportedServices

LEMMA PolicyType ==
    ASSUME NEW r \in Identifiers, NEW c \in RuleContents
    PROVE  ExportedPolicy(r, c) \in Policies
<1>1. ObjectNames(c.source) \in SUBSET ObjectsOf /\ ObjectNames(c.destination) \in SUBSET ObjectsOf
  BY ContentParts, NamesType
<1>2. UNION {ExportedServices(svc) : svc \in c.services} \in SUBSET Apps
  BY ContentParts, AppsType
<1>3. <<r>> \in Seq(Identifiers)
  OBVIOUS
<1> QED BY <1>1, <1>2, <1>3, ContentParts DEF ExportedPolicy, Policies, Apps

Items == [key : Keys, net : SUBSET Addresses]

InBook(zone, entries) ==
    [i \in DOMAIN entries |-> [key |-> <<Book(zone), ObjectName(entries[i])>>, net |-> entries[i].net]]

LEMMA InBookType ==
    ASSUME NEW zone \in STRING, NEW entries \in Seq(Entries)
    PROVE  /\ InBook(zone, entries) \in Seq(Items)
           /\ Len(InBook(zone, entries)) = Len(entries)
<1>1. Len(entries) \in Nat /\ DOMAIN entries = 1..Len(entries)
  BY SequenceOf
<1>2. Book(zone) \in STRING \cup {None}
  BY DEF Book
<1>3. ASSUME NEW i \in 1..Len(entries)
      PROVE  [key |-> <<Book(zone), ObjectName(entries[i])>>, net |-> entries[i].net] \in Items
  <2>1. entries[i] \in Entries
    BY SequenceOf
  <2>2. ObjectName(entries[i]) \in ObjectsOf /\ entries[i].net \in SUBSET Addresses
    BY <2>1, NameType DEF Entries
  <2> QED BY <1>2, <2>2 DEF Items, Keys
<1>4. InBook(zone, entries) \in [1..Len(entries) -> Items]
  BY <1>1, <1>3 DEF InBook
<1> DEFINE f == InBook(zone, entries)
           n == Len(entries)
<1>5. f \in [1..n -> Items] /\ n \in Nat
  BY <1>1, <1>4
<1> HIDE DEF f, n
<1>6. f \in Seq(Items) /\ Len(f) = n
  BY <1>5
<1> QED BY <1>6 DEF f, n

Lists(list, both) ==
    /\ list \in Seq(Items)
    /\ \A e \in both : \E i \in 1..Len(list) : list[i].key[2] = ObjectName(e) /\ list[i].net = e.net
    /\ \A i \in 1..Len(list) : \E e \in both : list[i].key[2] = ObjectName(e) /\ list[i].net = e.net
    /\ \A e \in both : e \in Entries

\* What is placed are the entries of the rule, under their names.
LEMMA PlacedAre ==
    ASSUME NEW c \in RuleContents,
           NEW list, list = Placed(c),
           NEW both, both = Range(c.source) \cup Range(c.destination)
    PROVE  Lists(list, both)
<1> DEFINE s == c.source
           t == c.destination
           u == InBook(c.from, s)
           v == InBook(c.to, t)
<1>1. s \in Seq(Entries) /\ t \in Seq(Entries) /\ c.from \in STRING /\ c.to \in STRING
  BY ContentParts
<1>2. Placed(c) = u \o v
  BY DEF Placed, InBook
<1>3. /\ \A i \in DOMAIN s : u[i].key[2] = ObjectName(s[i]) /\ u[i].net = s[i].net
      /\ \A i \in DOMAIN t : v[i].key[2] = ObjectName(t[i]) /\ v[i].net = t[i].net
  BY DEF InBook
<1>4. u \in Seq(Items) /\ v \in Seq(Items) /\ Len(u) = Len(s) /\ Len(v) = Len(t)
  BY <1>1, InBookType
<1>5. Range(s) = {s[i] : i \in DOMAIN s} /\ Range(t) = {t[i] : i \in DOMAIN t}
  BY DEF Range
<1> HIDE DEF s, t, u, v
<1>6. /\ Len(s) \in Nat /\ Len(t) \in Nat /\ DOMAIN s = 1..Len(s) /\ DOMAIN t = 1..Len(t)
      /\ u \o v \in Seq(Items) /\ Len(u \o v) = Len(s) + Len(t)
      /\ \A i \in 1..(Len(s) + Len(t)) : (u \o v)[i] = IF i <= Len(s) THEN u[i] ELSE v[i - Len(s)]
  BY <1>1, <1>4
<1>7. \A i \in 1..Len(s) : i \in 1..Len(u \o v) /\ (u \o v)[i] = u[i]
  BY <1>6
<1>8. \A i \in 1..Len(t) : i + Len(s) \in 1..Len(u \o v) /\ (u \o v)[i + Len(s)] = v[i]
  BY <1>6
<1>9. \A i \in 1..Len(u \o v) : \/ i \in 1..Len(s) /\ (u \o v)[i] = u[i]
                                \/ i - Len(s) \in 1..Len(t) /\ (u \o v)[i] = v[i - Len(s)]
  BY <1>6
<1>10. \A e \in Range(s) \cup Range(t) : e \in Entries
  BY <1>1, <1>5, SequenceOf
<1>11. \A e \in Range(s) \cup Range(t) : \E i \in 1..Len(u \o v) :
          (u \o v)[i].key[2] = ObjectName(e) /\ (u \o v)[i].net = e.net
  <2>1. \A i \in 1..Len(s) : (u \o v)[i].key[2] = ObjectName(s[i]) /\ (u \o v)[i].net = s[i].net
    BY <1>3, <1>6, <1>7
  <2>2. \A i \in 1..Len(t) : /\ (u \o v)[i + Len(s)].key[2] = ObjectName(t[i])
                             /\ (u \o v)[i + Len(s)].net = t[i].net
    BY <1>3, <1>6, <1>8
  <2>3. ASSUME NEW e \in Range(s) PROVE \E i \in 1..Len(u \o v) :
           (u \o v)[i].key[2] = ObjectName(e) /\ (u \o v)[i].net = e.net
    <3>1. PICK i \in 1..Len(s) : e = s[i]
      BY <1>5, <1>6
    <3> QED BY <1>7, <2>1, <3>1
  <2>4. ASSUME NEW e \in Range(t) PROVE \E i \in 1..Len(u \o v) :
           (u \o v)[i].key[2] = ObjectName(e) /\ (u \o v)[i].net = e.net
    <3>1. PICK i \in 1..Len(t) : e = t[i]
      BY <1>5, <1>6
    <3> QED BY <1>8, <2>2, <3>1
  <2> QED BY <2>3, <2>4
<1>12. \A i \in 1..Len(u \o v) : \E e \in Range(s) \cup Range(t) :
          (u \o v)[i].key[2] = ObjectName(e) /\ (u \o v)[i].net = e.net
  <2> SUFFICES ASSUME NEW i \in 1..Len(u \o v)
               PROVE  \E e \in Range(s) \cup Range(t) :
                         (u \o v)[i].key[2] = ObjectName(e) /\ (u \o v)[i].net = e.net
    OBVIOUS
  <2>1. CASE i \in 1..Len(s) /\ (u \o v)[i] = u[i]
    <3>1. s[i] \in Range(s) /\ u[i].key[2] = ObjectName(s[i]) /\ u[i].net = s[i].net
      BY <1>3, <1>5, <1>6, <2>1
    <3> QED BY <2>1, <3>1
  <2>2. CASE i - Len(s) \in 1..Len(t) /\ (u \o v)[i] = v[i - Len(s)]
    <3> DEFINE j == i - Len(s)
    <3>1. j \in DOMAIN t /\ (u \o v)[i] = v[j]
      BY <1>6, <2>2
    <3> HIDE DEF j
    <3>2. t[j] \in Range(t) /\ v[j].key[2] = ObjectName(t[j]) /\ v[j].net = t[j].net
      BY <1>3, <1>5, <3>1
    <3> QED BY <3>1, <3>2
  <2> QED BY <1>9, <2>1, <2>2
<1>13. list = u \o v /\ both = Range(s) \cup Range(t)
  BY <1>2 DEF s, t
<1> DEFINE w == u \o v
<1>14. w \in Seq(Items) /\ list = w
  BY <1>6, <1>13
<1>15. /\ \A e \in both : \E i \in 1..Len(w) : w[i].key[2] = ObjectName(e) /\ w[i].net = e.net
       /\ \A i \in 1..Len(w) : \E e \in both : w[i].key[2] = ObjectName(e) /\ w[i].net = e.net
       /\ \A e \in both : e \in Entries
  BY <1>10, <1>11, <1>12, <1>13
<1> HIDE DEF w
<1> QED BY <1>14, <1>15 DEF Lists

LEMMA DefinedType ==
    ASSUME NEW book \in Books, NEW placed \in Seq(Items)
    PROVE  /\ Defined(book, placed) \in Books
           /\ DOMAIN Defined(book, placed) =
                 DOMAIN book \cup {placed[i].key : i \in {j \in DOMAIN placed : placed[j].net # AnyNet}}
           /\ \A k \in DOMAIN Defined(book, placed) :
                 LET net == Defined(book, placed)[k]
                 IN  \/ k \in DOMAIN book /\ net = book[k]
                     \/ \E i \in 1..Len(placed) : /\ placed[i].key = k /\ placed[i].net # AnyNet
                                                  /\ net = placed[i].net
<1> DEFINE N == {placed[i].key : i \in {j \in DOMAIN placed : placed[j].net # AnyNet}}
           Naming(k) == {i \in DOMAIN placed : placed[i].key = k /\ placed[i].net # AnyNet}
           new == Defined(book, placed)
<1>1. N \in SUBSET Keys
  <2>1. \A i \in DOMAIN placed : placed[i] \in Items
    BY SequenceOf
  <2>2. \A item \in Items : item.key \in Keys
    BY DEF Items
  <2>3. \A i \in DOMAIN placed : placed[i].key \in Keys
    BY <2>1, <2>2
  <2> QED BY <2>3
<1>2. \A k \in N : Standing(Naming(k)) \in Naming(k)
  <2>1. \A k \in N : Naming(k) \in SUBSET (1..Len(placed)) /\ Naming(k) # {}
    BY SequenceOf
  <2> HIDE DEF Naming, N
  <2> QED BY <2>1, StandingOf, SequenceOf
<1>3. PICK S \in SUBSET Keys : book \in [S -> SUBSET Addresses]
  BY DEF Books
<1>4. new = [k \in S \cup N |-> IF k \in N /\ (Platform = "juniper" \/ k \notin S)
                                 THEN placed[Standing(Naming(k))].net ELSE book[k]]
  BY <1>3 DEF Defined
<1>5. ASSUME NEW k \in S \cup N
      PROVE  /\ new[k] \in SUBSET Addresses
             /\ \/ k \in S /\ new[k] = book[k]
                \/ \E i \in 1..Len(placed) : /\ placed[i].key = k /\ placed[i].net # AnyNet
                                             /\ new[k] = placed[i].net
  <2>1. CASE k \in N /\ (Platform = "juniper" \/ k \notin S)
    <3> DEFINE at == Standing(Naming(k))
    <3>1. at \in 1..Len(placed) /\ placed[at].key = k /\ placed[at].net # AnyNet
      BY <1>2, <2>1, SequenceOf
    <3>2. new[k] = placed[at].net
      BY <1>4, <2>1
    <3>3. placed[at] \in Items
      BY <3>1, SequenceOf
    <3> HIDE DEF at, new
    <3> QED BY <3>1, <3>2, <3>3 DEF Items
  <2>2. CASE ~ (k \in N /\ (Platform = "juniper" \/ k \notin S))
    <3>1. k \in S /\ new[k] = book[k]
      BY <1>4, <2>2
    <3> QED BY <1>3, <3>1
  <2> QED BY <2>1, <2>2
<1>6. S \cup N \in SUBSET Keys /\ DOMAIN new = S \cup N /\ new = [k \in S \cup N |-> new[k]]
  BY <1>1, <1>3, <1>4
<1>7. new \in [S \cup N -> SUBSET Addresses]
  <2> HIDE DEF new, N
  <2> QED BY <1>5, <1>6
<1>8. new \in Books
  BY <1>6, <1>7 DEF Books
<1> HIDE DEF new
<1> QED BY <1>3, <1>5, <1>6, <1>8 DEF new

LEMMA PolicyParts ==
    ASSUME NEW p \in Policies
    PROVE  /\ p.source \in SUBSET ObjectsOf /\ p.destination \in SUBSET ObjectsOf
           /\ p.apps \in SUBSET Apps /\ p.action \in Actions
           /\ p.name \in DOMAIN Cited /\ p.remark \in Seq(Identifiers) /\ p.exported \in BOOLEAN
  BY DEF Policies, Apps

LEMMA EnteredType ==
    ASSUME NEW policies \in Seq(Policies), NEW p \in Policies
    PROVE  Entered(policies, p) \in Seq(Policies)
<1> DEFINE Same == {i \in DOMAIN policies : policies[i].from = p.from /\ policies[i].to = p.to
                                            /\ policies[i].name = p.name}
           Added(old) == [p EXCEPT !.source = @ \cup old.source,
                                   !.destination = @ \cup old.destination,
                                   !.apps = @ \cup old.apps]
           merged == [i \in DOMAIN policies |-> IF i \in Same THEN Added(policies[i]) ELSE policies[i]]
<1>1. <<p>> \o policies \in Seq(Policies) /\ Append(policies, p) \in Seq(Policies)
  OBVIOUS
<1>2. ASSUME NEW old \in Policies PROVE Added(old) \in Policies
  <2>1. /\ p.source \cup old.source \in SUBSET ObjectsOf
        /\ p.destination \cup old.destination \in SUBSET ObjectsOf
        /\ p.apps \cup old.apps \in SUBSET Apps
    BY PolicyParts
  <2> QED BY <2>1 DEF Policies, Apps
<1>3. merged \in Seq(Policies)
  <2>1. \A i \in DOMAIN policies : merged[i] \in Policies
    BY <1>2, SequenceOf
  <2>2. DOMAIN policies = 1..Len(policies) /\ Len(policies) \in Nat
    BY SequenceOf
  <2>3. merged = [i \in 1..Len(policies) |-> merged[i]]
    BY <2>2
  <2> HIDE DEF merged, Same, Added
  <2>4. merged \in [1..Len(policies) -> Policies]
    BY <2>1, <2>2, <2>3
  <2> QED BY <2>2, <2>4
<1>4. Entered(policies, p) = IF Platform = "checkpoint" THEN <<p>> \o policies
                            ELSE IF Same = {} THEN Append(policies, p) ELSE merged
  BY DEF Entered
<1> QED BY <1>1, <1>3, <1>4

LEMMA EnteringType ==
    ASSUME NEW d \in Configs, NEW r \in Identifiers, NEW c \in RuleContents
    PROVE  Entering(d, r, c) \in Configs
<1>1. d.policies \in Seq(Policies) /\ d.book \in Books
  BY DEF Configs
<1>2. Entered(d.policies, ExportedPolicy(r, c)) \in Seq(Policies)
  BY <1>1, PolicyType, EnteredType
<1>3. Placed(c) \in Seq(Items)
  BY PlacedAre DEF Lists
<1>4. Defined(d.book, Placed(c)) \in Books
  BY <1>1, <1>3, DefinedType
<1> QED BY <1>2, <1>4 DEF Entering, Configs

----------------------------------------------------------------------------
(* A file is loaded rule by rule. *)

After(d, f, n, after) ==
    after = [i \in 0..n |->
                IF i = 0 THEN d
                ELSE IF Order[i] \notin DOMAIN f THEN after[i - 1]
                ELSE Entering(after[i - 1], Order[i], f[Order[i]])]

Next1(d, f, i, x) == IF Order[i] \notin DOMAIN f THEN x ELSE Entering(x, Order[i], f[Order[i]])

\* What the device runs between the rules exists: the first number of rules for
\* which it does not would be one more than a number for which it does.
LEMMA AfterExists ==
    ASSUME NEW d, NEW f, NEW n \in Nat
    PROVE  \E after : After(d, f, n, after)
<1> DEFINE Bad == {k \in Nat : ~ \E after : After(d, f, k, after)}
<1>1. CASE Bad = {}
  BY <1>1
<1>2. CASE Bad # {}
  <2>1. PICK m \in Bad : \A k \in Bad : m <= k
    <3>1. Bad \in SUBSET Nat
      OBVIOUS
    <3> HIDE DEF Bad
    <3> QED BY <1>2, <3>1, LeastOf
  <2>2. m # 0
    <3> DEFINE first == [i \in 0..0 |-> d]
    <3>1. After(d, f, 0, first)
      BY DEF After
    <3> QED BY <2>1, <3>1
  <2>3. m - 1 \in Nat /\ m - 1 \notin Bad
    BY <2>1, <2>2
  <2>4. PICK after : After(d, f, m - 1, after)
    BY <2>3
  <2> DEFINE more == [i \in 0..m |-> IF i = m THEN Next1(d, f, m, after[m - 1]) ELSE after[i]]
  <2>5. \A i \in 0..(m - 1) : after[i] = IF i = 0 THEN d ELSE Next1(d, f, i, after[i - 1])
    BY <2>4 DEF After, Next1
  <2>6. \A i \in 0..(m - 1) : more[i] = after[i]
    BY <2>1, <2>3
  <2>7. ASSUME NEW i \in 0..m PROVE more[i] = IF i = 0 THEN d ELSE Next1(d, f, i, more[i - 1])
    <3>1. CASE i = m
      <4>1. m - 1 \in 0..(m - 1) /\ more[m] = Next1(d, f, m, after[m - 1])
        BY <2>3
      <4> HIDE DEF more
      <4> QED BY <2>2, <2>6, <3>1, <4>1
    <3>2. CASE i # m
      <4>1. i \in 0..(m - 1) /\ (i # 0 => i - 1 \in 0..(m - 1))
        BY <2>1, <2>3, <3>2
      <4> HIDE DEF more
      <4> QED BY <2>5, <2>6, <4>1
    <3> QED BY <3>1, <3>2
  <2>8. After(d, f, m, more)
    <3>1. more = [i \in 0..m |-> more[i]]
      OBVIOUS
    <3> HIDE DEF more
    <3> QED BY <2>7, <3>1 DEF After, Next1
  <2> QED BY <2>1, <2>8
<1> QED BY <1>1, <1>2

LEMMA RuleByRule ==
    ASSUME NEW d, NEW f
    PROVE  \E after : /\ after[0] = d /\ Loaded(d, Order, f) = after[Len(Order)]
                      /\ \A i \in 1..Len(Order) : after[i] = Next1(d, f, i, after[i - 1])
<1> DEFINE n == Len(Order)
           after == CHOOSE a : a = [i \in 0..n |->
                        IF i = 0 THEN d
                        ELSE IF Order[i] \notin DOMAIN f THEN a[i - 1]
                        ELSE Entering(a[i - 1], Order[i], f[Order[i]])]
<1>1. n \in Nat
  BY DevicesAssumption DEF DevicesAssumption
<1>2. After(d, f, n, after)
  <2>1. \E a : After(d, f, n, a)
    BY <1>1, AfterExists
  <2>2. after = CHOOSE a : After(d, f, n, a)
    BY DEF After
  <2> HIDE DEF after, n
  <2> QED BY <2>1, <2>2
<1>3. Loaded(d, Order, f) = after[n]
  BY DEF Loaded
<1> HIDE DEF after
<1>4. \A i \in 0..n : after[i] = IF i = 0 THEN d ELSE Next1(d, f, i, after[i - 1])
  BY <1>2 DEF After, Next1
<1> QED BY <1>1, <1>3, <1>4

LEMMA OrderOf ==
    /\ Len(Order) \in Nat
    /\ \A i \in 1..Len(Order) : Order[i] \in Rules /\ Order[i] \in Identifiers
    /\ \A r \in Rules : r \in Identifiers /\ r # None /\ \E i \in 1..Len(Order) : Order[i] = r
    /\ \A i, j \in 1..Len(Order) : Order[i] = Order[j] => i = j
  BY DevicesAssumption DEF DevicesAssumption, Rules, IsInjective, Identifiers

LEMMA LoadedType ==
    ASSUME NEW d \in Configs, NEW f \in Files
    PROVE  Loaded(d, Order, f) \in Configs
<1>1. PICK after : /\ after[0] = d /\ Loaded(d, Order, f) = after[Len(Order)]
                   /\ \A i \in 1..Len(Order) : after[i] = Next1(d, f, i, after[i - 1])
  BY RuleByRule
<1> DEFINE Bad == {i \in 0..Len(Order) : after[i] \notin Configs}
<1>2. CASE Bad = {}
  BY <1>1, <1>2, OrderOf
<1>3. CASE Bad # {}
  <2>1. PICK m \in Bad : \A k \in Bad : m <= k
    <3>1. Bad \in SUBSET Nat
      BY OrderOf
    <3> HIDE DEF Bad
    <3> QED BY <1>3, <3>1, LeastOf
  <2>2. m # 0
    BY <1>1, <2>1
  <2>3. m \in 1..Len(Order) /\ m - 1 \in 0..Len(Order) /\ m - 1 \notin Bad
    BY OrderOf, <2>1, <2>2
  <2>4. after[m - 1] \in Configs
    BY <2>3
  <2>5. Order[m] \in DOMAIN f => f[Order[m]] \in RuleContents
    BY DEF Files
  <2>6. after[m] \in Configs
    <3>1. after[m] = Next1(d, f, m, after[m - 1]) /\ Order[m] \in Identifiers
      BY <1>1, <2>3, OrderOf
    <3> DEFINE x == after[m - 1]
               r == Order[m]
               c == f[Order[m]]
    <3>2. r \in DOMAIN f => Entering(x, r, c) \in Configs
      <4>1. x \in Configs /\ r \in Identifiers /\ (r \in DOMAIN f => c \in RuleContents)
        BY <2>4, <2>5, <3>1
      <4> HIDE DEF x, r, c
      <4> QED BY <4>1, EnteringType
    <3> QED BY <2>4, <3>1, <3>2 DEF Next1
  <2> QED BY <2>1, <2>6
<1> QED BY <1>2, <1>3

----------------------------------------------------------------------------
(* Type correctness. *)

LEMMA BlankType == Blank \in Configs
<1>1. <<>> \in Seq(Policies)
  OBVIOUS
<1>2. <<>> \in [{} -> SUBSET Addresses]
  OBVIOUS
<1>3. <<>> \in Books
  BY <1>2 DEF Books
<1> QED BY <1>1, <1>3 DEF Blank, Configs

LEMMA TextOf ==
    ASSUME NEW d \in Configs, NEW c \in Texts(d)
    PROVE  Readable(c) /\ c.policies = d.policies /\ c.book = d.book
<1> DEFINE Meanings(n) == {d.book[k] : k \in {l \in DOMAIN d.book : l[2] = n}}
           names == {k[2] : k \in DOMAIN d.book}
<1>1. PICK read \in [names -> UNION {Meanings(n) : n \in names}] :
         /\ \A n \in names : read[n] \in Meanings(n)
         /\ c = [policies |-> d.policies, book |-> d.book, read |-> read]
  BY DEF Texts
<1>2. c.policies = d.policies /\ c.book = d.book /\ c.read = read
  BY <1>1
<1>3. \A n \in names : \E k \in DOMAIN d.book : k[2] = n /\ read[n] = d.book[k]
  BY <1>1
<1> QED BY <1>1, <1>2, <1>3 DEF Readable, Configs

LEMMA InitType == Init => TypeOK
<1> SUFFICES ASSUME Init PROVE TypeOK
  OBVIOUS
<1>1. rules \in [Rules -> [state : States, content : RuleContents]]
  <2>1. \A r \in Rules : rules[r].state = "out of force" /\ rules[r].content \in RuleContents
    BY DevicesAssumption DEF Init, DevicesAssumption
  <2>2. rules \in [Rules -> [state : {"out of force"}, content : UNION {Contents[r] : r \in Rules}]]
    BY DEF Init
  <2>3. UNION {Contents[r] : r \in Rules} \subseteq RuleContents
    BY DevicesAssumption DEF DevicesAssumption
  <2> QED BY <2>2, <2>3 DEF States
<1>2. file \in Files
  <2>1. <<>> \in [{} -> RuleContents]
    OBVIOUS
  <2> QED BY <2>1 DEF Init, Files
<1>3. Readable(config)
  BY BlankType, TextOf DEF Init
<1> QED BY <1>1, <1>2, <1>3, BlankType DEF Init, TypeOK

LEMMA AddedType ==
    ASSUME NEW s \in Seq(Policies), NEW p \in Policies, NEW i \in 1..(Len(s) + 1)
    PROVE  InsertAt(s, i, p) \in Seq(Policies)
<1>1. SubSeq(s, 1, i - 1) \in Seq(Policies) /\ SubSeq(s, i, Len(s)) \in Seq(Policies)
  BY SubSeqProperties
<1>2. <<p>> \in Seq(Policies)
  OBVIOUS
<1> QED BY <1>1, <1>2 DEF InsertAt

LEMMA RemovedType ==
    ASSUME NEW s \in Seq(Policies), NEW i \in DOMAIN s
    PROVE  RemoveAt(s, i) \in Seq(Policies)
<1>1. SubSeq(s, 1, i - 1) \in Seq(Policies) /\ SubSeq(s, i + 1, Len(s)) \in Seq(Policies)
  BY SubSeqProperties
<1> QED BY <1>1 DEF RemoveAt

LEMMA ReplacedType ==
    ASSUME NEW d \in Configs, NEW i \in DOMAIN d.policies, NEW p \in Policies
    PROVE  [d EXCEPT !.policies = [@ EXCEPT ![i] = p]] \in Configs
  BY DEF Configs

LEMMA NextType == TypeOK /\ [Next]_vars => TypeOK'
<1> SUFFICES ASSUME TypeOK, [Next]_vars PROVE TypeOK'
  OBVIOUS
<1>1. ASSUME NEW r \in Rules, NEW s \in States, NEW c \in Contents[r],
             Ruled(r, [state |-> s, content |-> c])
      PROVE  TypeOK'
  <2>1. c \in RuleContents
    BY DevicesAssumption DEF DevicesAssumption
  <2> QED BY <1>1, <2>1 DEF Ruled, TypeOK
<1>2. ASSUME NEW t \in Types, UpdateComponent(t) PROVE TypeOK'
  BY <1>2 DEF UpdateComponent, TypeOK
<1>3. ASSUME NEW ids \in SUBSET Rules, Export(ids) PROVE TypeOK'
  <2> DEFINE S == Exportable(ids)
  <2>1. S \in SUBSET Rules
    BY DEF Exportable, InForceHere
  <2>2. \A r \in S : rules[r].content \in RuleContents
    BY <2>1 DEF TypeOK
  <2>3. FileOf(S) \in [S -> RuleContents]
    <3> HIDE DEF S
    <3> QED BY <2>2 DEF FileOf
  <2> HIDE DEF S
  <2>4. FileOf(S) \in Files
    BY <2>1, <2>3 DEF Files
  <2> QED BY <1>3, <2>4 DEF Export, TypeOK, S
\* What is left of the device is a device.
<1>4. ASSUME NEW d, Changed(d), d \in Configs PROVE TypeOK'
  BY <1>4 DEF Changed, TypeOK
<1> DEFINE n == Len(device.policies)
<1>5. /\ device.policies \in Seq(Policies) /\ device.book \in Books
      /\ \A i \in DOMAIN device.policies : device.policies[i] \in Policies
  BY DEF TypeOK, Configs
<1>6. CASE Load
  BY <1>4, <1>6, LoadedType DEF Load, TypeOK
<1>7. ASSUME NEW p \in HandMade, NEW place \in 1..(Len(device.policies) + 1), AddPolicy(p, place)
      PROVE  TypeOK'
  <2>1. InsertAt(device.policies, place, p) \in Seq(Policies)
    BY <1>5, AddedType, DevicesAssumption DEF DevicesAssumption
  <2>2. [device EXCEPT !.policies = InsertAt(@, place, p)] \in Configs
    BY <2>1 DEF TypeOK, Configs
  <2> QED BY <1>4, <1>7, <2>2 DEF AddPolicy
<1>8. ASSUME NEW i \in DOMAIN device.policies, RemovePolicy(i) PROVE TypeOK'
  <2>1. RemoveAt(device.policies, i) \in Seq(Policies)
    BY <1>5, RemovedType
  <2>2. [device EXCEPT !.policies = RemoveAt(@, i)] \in Configs
    BY <2>1 DEF TypeOK, Configs
  <2> QED BY <1>4, <1>8, <2>2 DEF RemovePolicy
<1>9. ASSUME NEW i \in DOMAIN device.policies, NEW side \in {"source", "destination"}, OpenUp(i, side)
      PROVE  TypeOK'
  <2> DEFINE old == device.policies[i]
             p   == [old EXCEPT ![side] = @ \cup {<<"any">>}]
  <2>1. old \in Policies /\ <<"any">> \in ObjectsOf
    BY <1>5 DEF ObjectsOf
  <2>2. p \in Policies
    <3>1. old.source \cup {<<"any">>} \in SUBSET ObjectsOf
      BY <2>1, PolicyParts
    <3>2. old.destination \cup {<<"any">>} \in SUBSET ObjectsOf
      BY <2>1, PolicyParts
    <3> HIDE DEF old
    <3> QED BY <2>1, <3>1, <3>2 DEF Policies
  <2>3. [device EXCEPT !.policies[i][side] = @ \cup {<<"any">>}] = [device EXCEPT !.policies = [@ EXCEPT ![i] = p]]
    BY DEF TypeOK, Configs
  <2> HIDE DEF p
  <2> QED BY <1>4, <1>9, <2>2, <2>3, ReplacedType DEF OpenUp, TypeOK
<1>10. ASSUME NEW i \in DOMAIN device.policies, NEW proto \in {"any", "tcp"}, OpenPorts(i, proto)
       PROVE  TypeOK'
  <2> DEFINE old == device.policies[i]
             p   == [old EXCEPT !.apps = @ \cup {Every(proto)}]
  <2>1. old \in Policies
    BY <1>5
  <2>2. p \in Policies
    <3>1. Every(proto) \in Apps
      BY Port0 DEF Every, Service, Apps
    <3>2. old.apps \cup {Every(proto)} \in SUBSET Apps
      BY <2>1, <3>1, PolicyParts
    <3> HIDE DEF old
    <3> QED BY <2>1, <3>2 DEF Policies, Apps
  <2>3. [device EXCEPT !.policies[i].apps = @ \cup {Every(proto)}] = [device EXCEPT !.policies = [@ EXCEPT ![i] = p]]
    BY DEF TypeOK, Configs
  <2> HIDE DEF p
  <2> QED BY <1>4, <1>10, <2>2, <2>3, ReplacedType DEF OpenPorts, TypeOK
<1>11. ASSUME NEW key \in DOMAIN device.book, NEW net \in Range(device.book), Readdress(key, net)
       PROVE  TypeOK'
  <2>1. [device.book EXCEPT ![key] = net] \in Books
    BY <1>5 DEF Books, Range
  <2>2. [device EXCEPT !.book = [@ EXCEPT ![key] = net]] \in Configs
    BY <2>1 DEF TypeOK, Configs
  <2>3. [device EXCEPT !.book[key] = net] = [device EXCEPT !.book = [@ EXCEPT ![key] = net]]
    OBVIOUS
  <2> QED BY <1>4, <1>11, <2>2, <2>3 DEF Readdress
<1>12. CASE Upload
  <2>1. Readable(config')
    BY <1>12, TextOf DEF Upload, TypeOK
  <2> QED BY <1>12, <2>1 DEF Upload, TypeOK, Readable
<1>13. CASE UNCHANGED vars
  BY <1>13 DEF vars, TypeOK
<1> QED BY <1>1, <1>2, <1>3, <1>6, <1>7, <1>8, <1>9, <1>10, <1>11, <1>12, <1>13 DEF Next

\* Rules, files and configurations keep their shape, so that every name and every
\* service a report compares is one that a rule or a hand could write.
THEOREM DeviceTypes == Spec => []TypeOK
  BY InitType, NextType, PTL DEF Spec

----------------------------------------------------------------------------
(* What covers the names and the numbers covers the connections. *)

LEMMA NetworksSound ==
    ASSUME NEW A, NEW F \in SUBSET (SUBSET Addresses), NEW anyA \in BOOLEAN, NEW anyF \in BOOLEAN,
           NetworksCovered(A, anyA, F, anyF)
    PROVE  Ends(F, anyF) \subseteq Ends(A, anyA)
  BY DEF NetworksCovered, Ends

LEMMA RangesType ==
    ASSUME NEW svc \in Svcs
    PROVE  \A r \in PortRanges(svc) : r[1] \in Ports /\ r[2] \in Ports
<1>1. \A r \in Understood(svc) : r \in Ports \X Ports
  BY RangesOf
<1>2. <<0, MaxPort>>[1] \in Ports /\ <<0, MaxPort>>[2] \in Ports
  BY Port0
<1> QED BY <1>1, <1>2 DEF PortRanges

LEMMA ApprovedParts ==
    ASSUME NEW svc \in Svcs, NEW t \in ApprovedServices(svc)
    PROVE  /\ t.lo \in Ports /\ t.hi \in Ports
           /\ svc.protocol = "UDP/TCP" => t.proto = "udp/tcp"
           /\ svc.protocol = "ICMP/ICMPV6" => t.proto = "icmp/icmpv6"
           /\ svc.protocol = "ANY" => t = Every("any")
<1>1. Every("any").lo \in Ports /\ Every("any").hi \in Ports
  BY Port0 DEF Every, Service
<1>2. CASE svc.protocol = "ANY"
  BY <1>1, <1>2 DEF ApprovedServices
<1>3. CASE svc.protocol # "ANY"
  <2> DEFINE ranges == IF svc.protocol \notin {"ICMP", "ICMPV6", "ICMP/ICMPV6"} THEN PortRanges(svc)
                       ELSE IF svc.port = Ping THEN {<<Echo, Echo>>} ELSE {<<0, MaxPort>>}
             protos == CASE svc.protocol = "TCP/UDP"     -> {"tcp", "udp"}
                         [] svc.protocol = "TCP"         -> {"tcp"}
                         [] svc.protocol = "UDP"         -> {"udp"}
                         [] svc.protocol = "ICMP"        -> {"icmp"}
                         [] svc.protocol = "ICMPV6"      -> {"icmpv6"}
                         [] svc.protocol = "ICMP/ICMPV6" -> {"icmp/icmpv6"}
                         [] OTHER                        -> {"udp/tcp"}
  <2>1. PICK p \in protos, r \in ranges : t = Service(p, r[1], r[2])
    BY <1>3 DEF ApprovedServices
  <2>2. r[1] \in Ports /\ r[2] \in Ports
    BY RangesType, Port0
  <2>3. /\ svc.protocol = "UDP/TCP" => p = "udp/tcp"
        /\ svc.protocol = "ICMP/ICMPV6" => p = "icmp/icmpv6"
    OBVIOUS
  <2> HIDE DEF ranges, protos
  <2> QED BY <1>3, <2>1, <2>2, <2>3 DEF Service
<1> QED BY <1>2, <1>3

\* What is approved is said, unless for want of a range that is understood.
Garbled(svc) ==
    svc.protocol \in {"TCP", "UDP", "TCP/UDP"} /\ Ranges(svc) # {} /\ Understood(svc) = {}

LEMMA SaidPlainly ==
    ASSUME NEW svc \in Svcs, svc.protocol \notin {"UDP/TCP", "ICMP/ICMPV6"}, ~ Garbled(svc),
           NEW t \in ApprovedServices(svc)
    PROVE  t \in Said(svc)
<1> DEFINE plain == IF svc.port = Ping THEN svc
                    ELSE [svc EXCEPT !.port = {<<range[1], range[2], "alone">> : range \in Ranges(svc)}]
           q == [plain EXCEPT !.protocol = svc.protocol]
<1>1. q.protocol = svc.protocol
      /\ q.port = IF svc.port = Ping THEN Ping ELSE {<<range[1], range[2], "alone">> : range \in Ranges(svc)}
  BY DEF Svcs
<1>2. ApprovedServices(q) \subseteq Said(svc)
  <2>1. (CASE svc.protocol = "UDP/TCP"     -> {"TCP/UDP"}
           [] svc.protocol = "ICMP/ICMPV6" -> {"ICMP", "ICMPV6"}
           [] OTHER                        -> {svc.protocol}) = {svc.protocol}
    OBVIOUS
  <2>2. Said(svc) = UNION {ApprovedServices([plain EXCEPT !.protocol = p]) : p \in {svc.protocol}}
    BY <2>1 DEF Said
  <2> HIDE DEF plain
  <2> QED BY <2>2
<1> HIDE DEF q
<1>3. q.port = Ping <=> svc.port = Ping
  <2> SUFFICES ASSUME svc.port # Ping, q.port = Ping PROVE FALSE
    BY <1>1
  <2>1. <<>> \in {<<range[1], range[2], "alone">> : range \in Ranges(svc)}
    BY <1>1 DEF Ping
  <2>2. PICK range \in Ranges(svc) : <<>> = <<range[1], range[2], "alone">>
    BY <2>1
  <2>3. Len(<<>>) = 0 /\ Len(<<range[1], range[2], "alone">>) = 3
    OBVIOUS
  <2> QED BY <2>2, <2>3
<1>4. Understood(q) = Ranges(svc)
  <2>1. CASE svc.port = Ping
    BY <1>1, <2>1, RangesOf DEF Understood
  <2>2. CASE svc.port # Ping
    <3>1. q.port = {<<range[1], range[2], "alone">> : range \in Ranges(svc)}
      BY <1>1, <2>2
    <3>2. q.port \ Ping = q.port
      <4>1. ASSUME NEW item \in q.port PROVE item # <<>>
        <5>1. PICK range \in Ranges(svc) : item = <<range[1], range[2], "alone">>
          BY <3>1
        <5>2. Len(<<>>) = 0 /\ Len(<<range[1], range[2], "alone">>) = 3
          OBVIOUS
        <5> QED BY <5>1, <5>2
      <4> QED BY <4>1 DEF Ping
    <3>3. \A item \in q.port : item[3] = "alone"
      BY <3>1
    <3>4. Understood(q) = {<<item[1], item[2]>> : item \in q.port}
      BY <3>2, <3>3 DEF Understood
    <3>5. \A range \in Ranges(svc) : range = <<range[1], range[2]>>
      BY RangesOf
    <3>6. ASSUME NEW x \in Ranges(svc) PROVE x \in Understood(q)
      <4> DEFINE item == <<x[1], x[2], "alone">>
      <4>1. item \in q.port /\ x = <<item[1], item[2]>>
        BY <3>1, <3>5
      <4> HIDE DEF item
      <4> QED BY <3>4, <4>1
    <3>7. ASSUME NEW x \in Understood(q) PROVE x \in Ranges(svc)
      <4>1. PICK item \in q.port : x = <<item[1], item[2]>>
        BY <3>4
      <4>2. PICK range \in Ranges(svc) : item = <<range[1], range[2], "alone">>
        BY <3>1
      <4>3. x = range
        BY <3>5, <4>1, <4>2
      <4> QED BY <4>3
    <3> QED BY <3>6, <3>7
  <2> QED BY <2>1, <2>2
<1>5. svc.protocol \in {"TCP", "UDP", "TCP/UDP"} => PortRanges(svc) \subseteq PortRanges(q)
  <2> SUFFICES ASSUME svc.protocol \in {"TCP", "UDP", "TCP/UDP"}
               PROVE  PortRanges(svc) \subseteq PortRanges(q)
    OBVIOUS
  <2>1. Understood(svc) \subseteq Ranges(svc) /\ (Ranges(svc) = {} \/ Understood(svc) # {})
    BY RangesOf DEF Garbled
  <2> QED BY <1>4, <2>1 DEF PortRanges
<1>6. svc.protocol \in {"ANY", "TCP", "UDP", "TCP/UDP", "ICMP", "ICMPV6"}
  BY DEF Svcs, Protocols
<1>7. ApprovedServices(svc) \subseteq ApprovedServices(q)
  <2>1. CASE svc.protocol = "ANY"
    BY <1>1, <2>1 DEF ApprovedServices
  <2>2. CASE svc.protocol \in {"ICMP", "ICMPV6"}
    BY <1>1, <1>3, <2>2 DEF ApprovedServices
  <2>3. CASE svc.protocol \in {"TCP", "UDP", "TCP/UDP"}
    <3> DEFINE protos == IF svc.protocol = "TCP/UDP" THEN {"tcp", "udp"}
                         ELSE IF svc.protocol = "TCP" THEN {"tcp"} ELSE {"udp"}
    <3>1. ApprovedServices(svc) = {Service(p, range[1], range[2]) : p \in protos, range \in PortRanges(svc)}
      BY <2>3 DEF ApprovedServices
    <3>2. q.protocol = svc.protocol
      BY <1>1
    <3>3. ApprovedServices(q) = {Service(p, range[1], range[2]) : p \in protos, range \in PortRanges(q)}
      BY <2>3, <3>2 DEF ApprovedServices
    <3> HIDE DEF protos
    <3> QED BY <1>5, <2>3, <3>1, <3>3
  <2> QED BY <1>6, <2>1, <2>2, <2>3
<1> QED BY <1>2, <1>7

LEMMA AnySaid ==
    ASSUME NEW svc \in Svcs, svc.protocol = "ANY"
    PROVE  Every("any") \in Said(svc)
<1>1. Every("any") \in ApprovedServices(svc) /\ ~ Garbled(svc)
  BY DEF ApprovedServices, Garbled
<1> QED BY <1>1, SaidPlainly

LEMMA FlowsSound ==
    ASSUME NEW c \in RuleContents,
           \A svc \in c.services : ~ Garbled(svc),
           NEW apps \in SUBSET Apps,
           ServicesCovered(UNION {ApprovedServices(svc) : svc \in c.services},
                           \E svc \in c.services : svc.protocol = "ANY",
                           apps \ {Every("any")}, Every("any") \in apps)
    PROVE  Flows(apps) \subseteq Flows(UNION {Said(svc) : svc \in c.services})
<1> DEFINE granted == UNION {Said(svc) : svc \in c.services}
<1> SUFFICES ASSUME NEW f \in Flows(apps) PROVE f \in Flows(granted)
  OBVIOUS
<1>1. f \in {"tcp", "udp", "icmp", "icmpv6"} \X Ports
  BY DEF Flows
<1>2. PICK s \in apps : s.proto \in {f[1], "any"} /\ f[2] \in s.lo..s.hi
  BY DEF Flows
<1>3. s.lo \in Int /\ s.hi \in Int /\ f[2] \in Int /\ 0 <= f[2] /\ f[2] <= MaxPort
  <2>1. s.lo \in Ports /\ s.hi \in Ports /\ f[2] \in Ports
    BY <1>1 DEF Apps
  <2> QED BY <2>1, DeviceAssumption DEF Ports, DeviceAssumption
<1>4. \A svc \in c.services : svc \in Svcs
  BY ContentParts
<1>5. CASE \E svc \in c.services : svc.protocol = "ANY"
  <2>1. Every("any") \in granted
    BY <1>4, <1>5, AnySaid
  <2>2. Every("any").proto = "any" /\ f[2] \in Every("any").lo..Every("any").hi
    BY <1>3, DeviceAssumption DEF Every, Service, DeviceAssumption
  <2> HIDE DEF granted
  <2> QED BY <1>1, <2>1, <2>2 DEF Flows
<1>6. CASE ~ \E svc \in c.services : svc.protocol = "ANY"
  <2>1. PICK svc \in c.services : \E t \in ApprovedServices(svc) : Covers(t, s)
    BY <1>2, <1>6 DEF ServicesCovered
  <2>2. PICK t \in ApprovedServices(svc) : Covers(t, s)
    BY <2>1
  <2>3. /\ t.lo \in Int /\ t.hi \in Int
        /\ svc.protocol = "UDP/TCP" => t.proto = "udp/tcp"
        /\ svc.protocol = "ICMP/ICMPV6" => t.proto = "icmp/icmpv6"
    BY <1>4, ApprovedParts, DeviceAssumption DEF Ports, DeviceAssumption
  <2>4. t.proto \in {f[1], "any"}
    BY <1>2, <2>2 DEF Covers
  <2>5. f[2] \in t.lo..t.hi
    <3>1. t.lo <= s.lo /\ s.hi <= t.hi /\ s.lo <= f[2] /\ f[2] <= s.hi
      BY <1>2, <1>3, <2>2 DEF Covers
    <3> QED BY <1>3, <2>3, <3>1
  <2>6. svc.protocol \notin {"UDP/TCP", "ICMP/ICMPV6"}
    <3>1. f[1] \in {"tcp", "udp", "icmp", "icmpv6"}
      BY <1>1
    <3> QED BY <2>3, <2>4, <3>1
  <2>7. t \in granted
    BY <1>4, <2>6, SaidPlainly
  <2> HIDE DEF granted
  <2> QED BY <1>1, <2>4, <2>5, <2>7 DEF Flows
<1> QED BY <1>5, <1>6

----------------------------------------------------------------------------
(* What the readers make of a configuration. *)

\* A policy is in what is read under its name, unless a later one takes the name.
LEMMA PermissionReads ==
    ASSUME NEW d, Readable(d), NEW i \in DOMAIN d.policies,
           \A side \in {"source", "destination"} :
              \A k \in KeysOf(d.policies[i], side) \cap DOMAIN d.book : d.read[k[2]] = d.book[k],
           \A j \in DOMAIN d.policies :
              Read(d.policies[j]) = Read(d.policies[i]) =>
                  IF Platform = "checkpoint" THEN j = i
                  ELSE d.policies[j].action = d.policies[i].action
    PROVE  LET p == d.policies[i]
               f == DevicePermission(d, Read(p))
               Nets(side) == {d.book[k] : k \in KeysOf(p, side) \cap DOMAIN d.book}
           IN  /\ f.source \in SUBSET (SUBSET Addresses) /\ f.destination \in SUBSET (SUBSET Addresses)
               /\ f.anySource \in BOOLEAN /\ f.anyDestination \in BOOLEAN
               /\ Ends(Nets("source"), <<"any">> \in p.source) \subseteq Ends(f.source, f.anySource)
               /\ Ends(Nets("destination"), <<"any">> \in p.destination)
                     \subseteq Ends(f.destination, f.anyDestination)
               /\ f.action = p.action
               /\ \E apps \in SUBSET Apps : /\ p.apps \subseteq apps
                                            /\ f.services = apps \ {Every("any")}
                                            /\ f.anyService = (Every("any") \in apps)
<1> DEFINE p == d.policies[i]
           id == Read(p)
           Named == {j \in DOMAIN d.policies : Read(d.policies[j]) = id}
           Lowest == CHOOSE j \in Named : \A k \in Named : k <= j
           Own == IF Platform = "checkpoint" THEN {Lowest} ELSE Named
           Names(side) == UNION {d.policies[j][side] : j \in Own}
           Nets(side) == {d.read[n] : n \in Names(side) \cap DOMAIN d.read}
           Few(side) == {d.book[k] : k \in KeysOf(p, side) \cap DOMAIN d.book}
           apps == UNION {d.policies[j].apps : j \in Own}
           f == DevicePermission(d, id)
<1>1. /\ d.policies \in Seq(Policies)
      /\ \A k \in DOMAIN d.book : d.book[k] \in SUBSET Addresses /\ k[2] \in DOMAIN d.read
      /\ \A n \in DOMAIN d.read : d.read[n] \in SUBSET Addresses
  BY DEF Readable, Books
<1>2. Lowest \in Named
  <2>1. Len(d.policies) \in Nat /\ Named \in SUBSET (1..Len(d.policies)) /\ Named # {}
    BY <1>1, SequenceOf
  <2> HIDE DEF Named
  <2> QED BY <2>1, GreatestOf
<1>3. i \in Own /\ Own \subseteq DOMAIN d.policies
  BY <1>2
<1>4. f.source = Nets("source") /\ f.destination = Nets("destination")
  BY DEF DevicePermission
<1>5. /\ f.anySource = (<<"any">> \in Names("source"))
      /\ f.anyDestination = (<<"any">> \in Names("destination"))
  BY DEF DevicePermission
<1>6. /\ f.services = apps \ {Every("any")} /\ f.anyService = (Every("any") \in apps)
      /\ f.action = d.policies[Lowest].action
  BY DEF DevicePermission
<1> HIDE DEF f, Own, Lowest
<1>7. p.source \subseteq Names("source") /\ p.destination \subseteq Names("destination") /\ p.apps \subseteq apps
  BY <1>3
<1>8. /\ Nets("source") \in SUBSET (SUBSET Addresses) /\ Few("source") \subseteq Nets("source")
      /\ Nets("destination") \in SUBSET (SUBSET Addresses) /\ Few("destination") \subseteq Nets("destination")
  <2>1. \A side : \A k \in KeysOf(p, side) : k[2] \in p[side]
    BY DEF KeysOf
  <2>2. /\ \A k \in KeysOf(p, "source") \cap DOMAIN d.book : d.read[k[2]] = d.book[k]
        /\ \A k \in KeysOf(p, "destination") \cap DOMAIN d.book : d.read[k[2]] = d.book[k]
    OBVIOUS
  <2>3. p.source = p["source"] /\ p.destination = p["destination"]
    OBVIOUS
  <2> HIDE DEF Names, p
  <2>4. Few("source") \subseteq Nets("source") /\ Few("destination") \subseteq Nets("destination")
    BY <1>1, <1>7, <2>1, <2>2, <2>3
  <2> QED BY <1>1, <2>4
<1>9. apps \in SUBSET Apps
  <2>1. \A j \in Own : d.policies[j].apps \in SUBSET Apps
    BY <1>1, <1>3, SequenceOf, PolicyParts
  <2> QED BY <2>1
<1>10. d.policies[Lowest].action = p.action
  BY <1>2
<1> HIDE DEF Names, Nets, Few, apps
<1>11. /\ Ends(Few("source"), <<"any">> \in p.source) \subseteq Ends(f.source, f.anySource)
       /\ Ends(Few("destination"), <<"any">> \in p.destination) \subseteq Ends(f.destination, f.anyDestination)
  <2>1. <<"any">> \in p.source => <<"any">> \in Names("source")
    BY <1>7
  <2>2. <<"any">> \in p.destination => <<"any">> \in Names("destination")
    BY <1>7
  <2> HIDE DEF p
  <2>3. Ends(Few("source"), <<"any">> \in p.source) \subseteq Ends(Nets("source"), <<"any">> \in Names("source"))
    <3> DEFINE E == Few("source")
               F == Nets("source")
               N == Names("source")
    <3>1. F \in SUBSET (SUBSET Addresses) /\ E \in SUBSET F /\ (<<"any">> \in p.source => <<"any">> \in N)
      BY <1>8, <2>1
    <3> HIDE DEF E, F, N
    <3>2. Ends(E, <<"any">> \in p.source) \subseteq Ends(F, <<"any">> \in N)
      BY <3>1 DEF Ends
    <3> QED BY <3>2 DEF E, F, N
  <2>4. Ends(Few("destination"), <<"any">> \in p.destination) \subseteq Ends(Nets("destination"), <<"any">> \in Names("destination"))
    <3> DEFINE E == Few("destination")
               F == Nets("destination")
               N == Names("destination")
    <3>1. F \in SUBSET (SUBSET Addresses) /\ E \in SUBSET F /\ (<<"any">> \in p.destination => <<"any">> \in N)
      BY <1>8, <2>2
    <3> HIDE DEF E, F, N
    <3>2. Ends(E, <<"any">> \in p.destination) \subseteq Ends(F, <<"any">> \in N)
      BY <3>1 DEF Ends
    <3> QED BY <3>2 DEF E, F, N
  <2> QED BY <1>4, <1>5, <2>3, <2>4
<1>12. /\ f.source \in SUBSET (SUBSET Addresses) /\ f.destination \in SUBSET (SUBSET Addresses)
       /\ f.anySource \in BOOLEAN /\ f.anyDestination \in BOOLEAN
       /\ f.action = p.action
  BY <1>4, <1>5, <1>6, <1>8, <1>10
<1>13. \E A \in SUBSET Apps : /\ p.apps \subseteq A
                              /\ f.services = A \ {Every("any")}
                              /\ f.anyService = (Every("any") \in A)
  BY <1>6, <1>7, <1>9
<1> HIDE DEF p, id
<1> QED BY <1>11, <1>12, <1>13 DEF Few, f, p, id

\* Every policy lies in a block of its name.
LEMMA BlockOf ==
    ASSUME NEW policies \in Seq(Policies), NEW i \in DOMAIN policies
    PROVE  \E b \in Blocks(policies) : b.identifier = Scanned(policies[i])
<1> DEFINE S == {j \in DOMAIN policies : Scanned(policies[j]) = Scanned(policies[i])}
<1>1. S \in SUBSET Nat /\ S # {}
  BY SequenceOf
<1>2. PICK k \in S : \A j \in S : k <= j
  <2> HIDE DEF S
  <2> QED BY <1>1, LeastOf
<1>3. k \in Starts(policies)
  <2>1. \A j \in 1..(k - 1) : j \in DOMAIN policies /\ ~ (k <= j)
    BY <1>2, SequenceOf
  <2> QED BY <1>2, <2>1 DEF Starts
<1> DEFINE b == [identifier |-> Scanned(policies[k]),
                 claim |-> FirstClaim(policies, BlockLines(policies, k))]
<1>4. b \in Blocks(policies)
  BY <1>3 DEF Blocks
<1>5. b.identifier = Scanned(policies[k])
  OBVIOUS
<1> QED BY <1>2, <1>4, <1>5

LEMMA MentionsType ==
    ASSUME NEW p \in Policies
    PROVE  /\ Mentions(p) \in Seq(Identifiers)
           /\ Mentions(p) # <<>> => Head(Mentions(p)) \in Range(Mentions(p))
<1> DEFINE m == Mentions(p)
<1>1. p.remark \in Seq(Identifiers) /\ Cited[p.name] \in Seq(Identifiers)
  BY PolicyParts, DeviceAssumption DEF DeviceAssumption
<1>2. m \in Seq(Identifiers)
  BY <1>1 DEF Mentions
<1> HIDE DEF m
<1>3. ASSUME m # <<>> PROVE Head(m) \in Range(m)
  <2>1. 1 \in DOMAIN m /\ Head(m) = m[1]
    BY <1>2, <1>3
  <2> QED BY <2>1 DEF Range
<1> QED BY <1>2, <1>3 DEF m

LEMMA ClaimOf ==
    ASSUME NEW policies \in Seq(Policies), NEW b \in Blocks(policies), b.claim # None
    PROVE  \E j \in DOMAIN policies : b.claim \in Range(Mentions(policies[j]))
<1>1. PICK i \in Starts(policies) : b.claim = FirstClaim(policies, BlockLines(policies, i))
  BY DEF Blocks
<1> DEFINE lines == BlockLines(policies, i)
           Claiming == {j \in lines : Mentions(policies[j]) # <<>>}
<1>2. lines \subseteq DOMAIN policies
  BY DEF BlockLines, OwnLines
<1>3. Claiming # {}
  BY <1>1 DEF FirstClaim
<1>4. Claiming \in SUBSET Nat
  BY <1>2, SequenceOf
<1>5. PICK j \in Claiming : j = CHOOSE k \in Claiming : \A l \in Claiming : k <= l
  <2> HIDE DEF Claiming
  <2> QED BY <1>3, <1>4, LeastOf
<1>6. b.claim = Head(Mentions(policies[j]))
  BY <1>1, <1>3, <1>5 DEF FirstClaim
<1>7. policies[j] \in Policies /\ Mentions(policies[j]) # <<>>
  BY <1>2, SequenceOf
<1> QED BY <1>2, <1>6, <1>7, MentionsType

LEMMA SyncApproves == TypeOK => InSyncIsApproved
<1> SUFFICES ASSUME TypeOK, InSync, Fidelity = "checked", Claims \subseteq InForceHere,
                    NEW i \in DOMAIN config.policies, ~ Mistakable(i)
             PROVE  LetThrough(config, config.policies[i])
                       \subseteq UNION {Granted(rules[r].content) : r \in InForceHere}
  BY DEF InSyncIsApproved
<1> DEFINE p == config.policies[i]
           f == DevicePermission(config, Read(p))
<1>1. Readable(config) /\ config.policies \in Seq(Policies)
  BY DEF TypeOK, Readable
\* The block of the policy claims a rule in force, and is compared with it.
<1>2. Recognised /\ Unjustified = {} /\ Widened = {} /\ Unverified = {}
  BY DEF InSync, Fidelity
<1>3. PICK b \in ConfigBlocks : b.identifier = Read(p)
  <2>1. ConfigBlocks = Blocks(config.policies) /\ Scanned(p) = Read(p)
    BY <1>2 DEF ConfigBlocks, Mistakable, CutDifferently
  <2> QED BY <1>1, <2>1, BlockOf
<1>4. b.claim \in InForceHere
  <2>1. b.claim # None
    BY <1>2, <1>3 DEF Unjustified
  <2>2. \E j \in DOMAIN config.policies : b.claim \in Range(Mentions(config.policies[j]))
    BY <1>1, <1>2, <1>3, <2>1, ClaimOf DEF ConfigBlocks
  <2> QED BY <2>1, <2>2 DEF Claims
<1> DEFINE c == rules[b.claim].content
           a == ApprovedPermission(c)
<1>5. ~ Widens(f, a)
  <2>1. b \in Identified
    BY <1>3, <1>4 DEF Identified
  <2> QED BY <1>2, <1>3, <2>1 DEF Widened
<1>6. c \in RuleContents /\ \A svc \in c.services : ~ Garbled(svc)
  <2>1. b.claim \in Rules
    BY <1>4 DEF InForceHere
  <2>2. ~ NotUnderstood(b.claim)
    BY <1>3 DEF Mistakable
  <2> QED BY <2>1, <2>2 DEF TypeOK, NotUnderstood, Garbled
\* What is read of the policy bounds it, and the approval bounds what is read.
<1> DEFINE Few(side) == {config.book[k] : k \in KeysOf(p, side) \cap DOMAIN config.book}
<1>7. /\ f.source \in SUBSET (SUBSET Addresses) /\ f.destination \in SUBSET (SUBSET Addresses)
      /\ f.anySource \in BOOLEAN /\ f.anyDestination \in BOOLEAN
      /\ Ends(Few("source"), <<"any">> \in p.source) \subseteq Ends(f.source, f.anySource)
      /\ Ends(Few("destination"), <<"any">> \in p.destination) \subseteq Ends(f.destination, f.anyDestination)
      /\ f.action = p.action
      /\ \E apps \in SUBSET Apps : /\ p.apps \subseteq apps
                                   /\ f.services = apps \ {Every("any")}
                                   /\ f.anyService = (Every("any") \in apps)
  <2>1. \A j \in DOMAIN config.policies :
           Read(config.policies[j]) = Read(config.policies[i]) =>
               IF Platform = "checkpoint" THEN j = i
               ELSE config.policies[j].action = config.policies[i].action
    BY DeviceAssumption DEF DeviceAssumption, Mistakable, Merged
  <2>2. \A side \in {"source", "destination"} :
           \A k \in KeysOf(config.policies[i], side) \cap DOMAIN config.book :
              config.read[k[2]] = config.book[k]
    BY DEF Mistakable, Homonymous
  <2> QED BY <1>1, <2>1, <2>2, PermissionReads
<1>8. PICK apps \in SUBSET Apps : /\ p.apps \subseteq apps
                                  /\ f.services = apps \ {Every("any")}
                                  /\ f.anyService = (Every("any") \in apps)
  BY <1>7
<1>9. /\ a.source = ApprovedNetworks(c.source) \ {AnyNet}
      /\ a.destination = ApprovedNetworks(c.destination) \ {AnyNet}
      /\ a.anySource \in BOOLEAN /\ a.anyDestination \in BOOLEAN
      /\ a.services = UNION {ApprovedServices(svc) : svc \in c.services}
      /\ a.anyService = \E svc \in c.services : svc.protocol = "ANY"
      /\ a.action = c.action
  BY DEF ApprovedPermission
<1> HIDE DEF f, a, c, p, Few
<1>10. /\ Ends(f.source, f.anySource) \subseteq Ends(a.source, a.anySource)
       /\ Ends(f.destination, f.anyDestination) \subseteq Ends(a.destination, a.anyDestination)
  <2>1. /\ NetworksCovered(a.source, a.anySource, f.source, f.anySource)
        /\ NetworksCovered(a.destination, a.anyDestination, f.destination, f.anyDestination)
    BY <1>5 DEF Widens
  <2>2. Ends(f.source, f.anySource) \subseteq Ends(a.source, a.anySource)
    BY <1>7, <1>9, <2>1, NetworksSound
  <2>3. Ends(f.destination, f.anyDestination) \subseteq Ends(a.destination, a.anyDestination)
    BY <1>7, <1>9, <2>1, NetworksSound
  <2> QED BY <2>2, <2>3
<1>11. Flows(p.apps) \subseteq Flows(UNION {Said(svc) : svc \in c.services})
  <2>1. ServicesCovered(UNION {ApprovedServices(svc) : svc \in c.services},
                        \E svc \in c.services : svc.protocol = "ANY",
                        apps \ {Every("any")}, Every("any") \in apps)
    BY <1>5, <1>8, <1>9 DEF Widens
  <2>2. Flows(apps) \subseteq Flows(UNION {Said(svc) : svc \in c.services})
    BY <1>6, <2>1, FlowsSound
  <2>3. Flows(p.apps) \subseteq Flows(apps)
    BY <1>8 DEF Flows
  <2> QED BY <2>2, <2>3
<1>12. CASE p.action # "permit"
  BY <1>12 DEF LetThrough, p
<1>13. CASE p.action = "permit"
  <2>1. c.action = "permit"
    BY <1>5, <1>7, <1>9, <1>13 DEF Widens
  <2>2. LetThrough(config, p) = Ends(Few("source"), <<"any">> \in p.source)
                                \X Ends(Few("destination"), <<"any">> \in p.destination) \X Flows(p.apps)
    BY <1>13 DEF LetThrough, Few
  <2>3. Granted(c) = Ends(a.source, a.anySource) \X Ends(a.destination, a.anyDestination)
                     \X Flows(UNION {Said(svc) : svc \in c.services})
    BY <2>1 DEF Granted, a
  <2>4. LetThrough(config, p) \subseteq Granted(c)
    BY <1>7, <1>10, <1>11, <2>2, <2>3
  <2> QED BY <1>4, <2>4 DEF p, c
<1> QED BY <1>12, <1>13

\* A report in sync bounds what each policy lets through, by the address books of its own
\* zones, by what the rules in force were approved for, for any rules, any history of
\* exports, loads and changes by hand, and either platform - unless the policy is
\* mistakable: cut differently by the two readers, merged with another, using a name
\* that has other addresses in another zone, or under an approval of no readable port.
THEOREM ReportIsApproved == Spec => []InSyncIsApproved
  BY SyncApproves, DeviceTypes, PTL

----------------------------------------------------------------------------
(* A clean rollout: one policy per rule, and every name in the book. *)

Exported(r) == ExportedPolicy(r, rules[r].content)

OwnNames == \A r, s \in InForceHere : r # s => rules[r].content.name # rules[s].content.name

\* The configuration is what the rules of D were exported as, and no more.
Carries(c, D) ==
    /\ c.policies \in Seq(Policies) /\ c.book \in Books
    /\ \A k \in DOMAIN c.policies : \E r \in D : c.policies[k] = Exported(r)
    /\ \A r \in D : \E k \in DOMAIN c.policies : c.policies[k] = Exported(r)
    /\ \A k, l \in DOMAIN c.policies : c.policies[k].remark = c.policies[l].remark => k = l
    /\ \A r \in D : \A e \in EntriesOf(r) :
          e.net # AnyNet => \E k \in DOMAIN c.book : k[2] = ObjectName(e)
    /\ \A k \in DOMAIN c.book :
          k[2] # <<"any">> /\ \E r \in D : \E e \in EntriesOf(r) : ObjectName(e) = k[2] /\ e.net = c.book[k]

LEMMA ExportedParts ==
    ASSUME TypeOK, NEW r \in InForceHere
    PROVE  /\ r \in Rules /\ rules[r].content \in RuleContents
           /\ Exported(r) \in Policies /\ Exported(r).remark = <<r>>
           /\ Exported(r).name = rules[r].content.name /\ Exported(r).exported = TRUE
           /\ Exported(r).action = rules[r].content.action
           /\ Exported(r).source = ObjectNames(rules[r].content.source)
           /\ Exported(r).destination = ObjectNames(rules[r].content.destination)
           /\ Exported(r).apps = UNION {ExportedServices(svc) : svc \in rules[r].content.services}
<1>1. r \in Rules /\ r \in Identifiers /\ rules[r].content \in RuleContents
  BY OrderOf DEF InForceHere, TypeOK
<1> QED BY <1>1, PolicyType DEF Exported, ExportedPolicy

LEMMA EntriesAre ==
    ASSUME TypeOK, NEW r \in InForceHere
    PROVE  LET c == rules[r].content
           IN  /\ EntriesOf(r) = {c.source[i] : i \in DOMAIN c.source}
                                    \cup {c.destination[i] : i \in DOMAIN c.destination}
               /\ \A e \in EntriesOf(r) : e \in Entries
<1>1. rules[r].content \in RuleContents
  BY ExportedParts
<1>2. EntriesOf(r) = Range(rules[r].content.source) \cup Range(rules[r].content.destination)
  BY DEF EntriesOf
<1>3. \A e \in EntriesOf(r) : e \in Entries
  BY <1>1, <1>2, PlacedAre DEF Lists
<1> QED BY <1>2, <1>3 DEF Range

LEMMA BlankCarries == Carries(Blank, {})
  BY BlankType DEF Carries, Blank, Configs

LEMMA OneMore ==
    ASSUME TypeOK, OwnNames, NEW c, NEW D \in SUBSET InForceHere, Carries(c, D),
           NEW r \in InForceHere, r \notin D
    PROVE  Carries(Entering(c, r, rules[r].content), D \cup {r})
<1> DEFINE p    == Exported(r)
           old  == c.policies
           pols == Entered(old, p)
           con  == rules[r].content
           list == Placed(con)
           book == Defined(c.book, list)
           new  == Entering(c, r, con)
<1>1. p \in Policies /\ p.remark = <<r>> /\ p.name = con.name /\ con \in RuleContents /\ r \in Identifiers
  BY ExportedParts, OrderOf
<1>2. /\ new.policies \in Seq(Policies) /\ new.book \in Books
      /\ new.policies = pols /\ new.book = book
  <2>1. pols \in Seq(Policies)
    BY <1>1, EnteredType DEF Carries
  <2>2. book \in Books
    BY <1>1, PlacedAre, DefinedType DEF Carries, Lists
  <2>3. new.policies = pols /\ new.book = book
    BY DEF Entering, Exported
  <2> HIDE DEF new, pols, book
  <2> QED BY <2>1, <2>2, <2>3
<1>3. old \in Seq(Policies) /\ Len(old) \in Nat /\ DOMAIN old = 1..Len(old) /\ c.book \in Books
  BY SequenceOf DEF Carries
\* Nothing there has the name or the remark of the rule.
<1>4. \A k \in DOMAIN old : old[k].remark # <<r>> /\ old[k].name # p.name
  <2> SUFFICES ASSUME NEW k \in DOMAIN old PROVE old[k].remark # <<r>> /\ old[k].name # p.name
    OBVIOUS
  <2>1. PICK s \in D : old[k] = Exported(s)
    BY DEF Carries
  <2>2. s \in InForceHere /\ s # r
    OBVIOUS
  <2>3. old[k].remark = <<s>> /\ old[k].name = rules[s].content.name
    BY <2>1, <2>2, ExportedParts
  <2>4. <<s>> # <<r>>
    BY <2>2
  <2> QED BY <1>1, <2>2, <2>3, <2>4 DEF OwnNames
<1>5. pols = IF Platform = "checkpoint" THEN <<p>> \o old ELSE Append(old, p)
  BY <1>4 DEF Entered
<1> DEFINE at    == IF Platform = "checkpoint" THEN 1 ELSE Len(old) + 1
           shift == IF Platform = "checkpoint" THEN 1 ELSE 0
<1>6. /\ DOMAIN pols = 1..(Len(old) + 1) /\ at \in DOMAIN pols /\ pols[at] = p
      /\ \A k \in DOMAIN pols : k # at => k - shift \in DOMAIN old /\ pols[k] = old[k - shift]
      /\ \A k \in DOMAIN old : k + shift \in DOMAIN pols /\ pols[k + shift] = old[k]
  <2>1. CASE Platform = "checkpoint"
    <3>1. pols = <<p>> \o old
      BY <1>5, <2>1
    <3> HIDE DEF pols, old, p
    <3> QED BY <1>1, <1>3, <2>1, <3>1
  <2>2. CASE Platform # "checkpoint"
    <3>1. pols = Append(old, p)
      BY <1>5, <2>2
    <3> HIDE DEF pols, old, p
    <3> QED BY <1>1, <1>3, <2>2, <3>1
  <2> QED BY <2>1, <2>2
<1>7. at \in Int /\ shift \in Int
  BY <1>3
<1> HIDE DEF pols, at, shift
<1>8. \A k \in DOMAIN pols : \E s \in D \cup {r} : pols[k] = Exported(s)
  BY <1>6 DEF Carries
<1>9. \A s \in D \cup {r} : \E k \in DOMAIN pols : pols[k] = Exported(s)
  BY <1>6 DEF Carries
<1>10. ASSUME NEW k \in DOMAIN pols, NEW l \in DOMAIN pols, pols[k].remark = pols[l].remark PROVE k = l
  <2>1. k \in Int /\ l \in Int
    BY <1>3, <1>6
  <2>2. CASE k = at \/ l = at
    BY <1>1, <1>4, <1>6, <1>10, <2>2
  <2>3. CASE k # at /\ l # at
    <3>1. k - shift = l - shift
      BY <1>6, <1>10, <2>3 DEF Carries
    <3> QED BY <1>7, <2>1, <3>1
  <2> QED BY <2>2, <2>3
<1>11. /\ list \in Seq(Items)
       /\ \A e \in EntriesOf(r) : e \in Entries
       /\ \A e \in EntriesOf(r) : \E i \in 1..Len(list) : list[i].key[2] = ObjectName(e) /\ list[i].net = e.net
       /\ \A i \in 1..Len(list) : \E e \in EntriesOf(r) : list[i].key[2] = ObjectName(e) /\ list[i].net = e.net
  <2>1. EntriesOf(r) = Range(con.source) \cup Range(con.destination)
    BY DEF EntriesOf
  <2>2. con \in RuleContents
    BY <1>1
  <2> DEFINE both == EntriesOf(r)
  <2>3. list = Placed(con) /\ both = Range(con.source) \cup Range(con.destination)
    BY <2>1
  <2> HIDE DEF list, both, con
  <2>4. Lists(list, both)
    BY <2>2, <2>3, PlacedAre
  <2> QED BY <2>4 DEF both, Lists
<1> HIDE DEF list
<1>12. /\ DOMAIN book = DOMAIN c.book \cup {list[i].key : i \in {j \in DOMAIN list : list[j].net # AnyNet}}
       /\ \A k \in DOMAIN book :
             \/ k \in DOMAIN c.book /\ book[k] = c.book[k]
             \/ \E i \in 1..Len(list) : list[i].key = k /\ list[i].net # AnyNet /\ book[k] = list[i].net
  BY <1>3, <1>11, DefinedType
<1>13. DOMAIN list = 1..Len(list)
  BY <1>11, SequenceOf
<1>14. \A s \in D \cup {r} : \A e \in EntriesOf(s) :
          e.net # AnyNet => \E k \in DOMAIN book : k[2] = ObjectName(e)
  <2>1. ASSUME NEW e \in EntriesOf(r), e.net # AnyNet PROVE \E k \in DOMAIN book : k[2] = ObjectName(e)
    <3>1. PICK i \in 1..Len(list) : list[i].key[2] = ObjectName(e) /\ list[i].net = e.net
      BY <1>11
    <3>2. list[i].key \in DOMAIN book
      <4> HIDE DEF book
      <4> QED BY <1>12, <1>13, <2>1, <3>1
    <3> QED BY <3>1, <3>2
  <2>2. DOMAIN c.book \subseteq DOMAIN book
    BY <1>12
  <2> HIDE DEF book
  <2> QED BY <2>1, <2>2 DEF Carries
<1>15. \A k \in DOMAIN book :
          k[2] # <<"any">> /\ \E s \in D \cup {r} : \E e \in EntriesOf(s) : ObjectName(e) = k[2] /\ e.net = book[k]
  <2> HIDE DEF book
  <2> SUFFICES ASSUME NEW k \in DOMAIN book
               PROVE  k[2] # <<"any">> /\ \E s \in D \cup {r} : \E e \in EntriesOf(s) :
                                             ObjectName(e) = k[2] /\ e.net = book[k]
    OBVIOUS
  <2>1. CASE k \in DOMAIN c.book /\ book[k] = c.book[k]
    BY <2>1 DEF Carries
  <2>2. CASE \E i \in 1..Len(list) : list[i].key = k /\ list[i].net # AnyNet /\ book[k] = list[i].net
    <3>1. PICK i \in 1..Len(list) : list[i].key = k /\ list[i].net # AnyNet /\ book[k] = list[i].net
      BY <2>2
    <3>2. PICK e \in EntriesOf(r) : k[2] = ObjectName(e) /\ e.net = book[k]
      BY <1>11, <3>1
    <3>3. e \in Entries /\ e.net # AnyNet
      BY <1>11, <3>1, <3>2
    <3> QED BY <3>2, <3>3, NameType
  <2> QED BY <1>12, <2>1, <2>2
<1> HIDE DEF new, book
<1>16. Carries(new, D \cup {r})
  <2> DEFINE B == new.book
             P == new.policies
  <2>1. P = pols /\ B = book /\ P \in Seq(Policies) /\ B \in Books
    BY <1>2
  <2> HIDE DEF B, P
  <2>2. \A s \in D \cup {r} : \A e \in EntriesOf(s) : e.net # AnyNet => \E k \in DOMAIN B : k[2] = ObjectName(e)
    BY <1>14, <2>1
  <2>3. \A k \in DOMAIN B :
          k[2] # <<"any">> /\ \E s \in D \cup {r} : \E e \in EntriesOf(s) : ObjectName(e) = k[2] /\ e.net = B[k]
    BY <1>15, <2>1
  <2>4. /\ \A k \in DOMAIN P : \E s \in D \cup {r} : P[k] = Exported(s)
        /\ \A s \in D \cup {r} : \E k \in DOMAIN P : P[k] = Exported(s)
        /\ \A k, l \in DOMAIN P : P[k].remark = P[l].remark => k = l
    BY <1>8, <1>9, <1>10, <2>1
  <2> QED BY <2>1, <2>2, <2>3, <2>4 DEF Carries, B, P
<1> QED BY <1>16 DEF new

\* Rule by rule, what is loaded so far is what those rules were exported as.
LEMMA RolloutCarries ==
    ASSUME TypeOK, OwnNames
    PROVE  Carries(Loaded(Blank, Order, FileOf(InForceHere)), InForceHere)
<1> DEFINE f == FileOf(InForceHere)
           Done(i) == {r \in InForceHere : \E j \in 1..i : Order[j] = r}
<1>1. PICK after : /\ after[0] = Blank /\ Loaded(Blank, Order, f) = after[Len(Order)]
                   /\ \A i \in 1..Len(Order) : after[i] = Next1(Blank, f, i, after[i - 1])
  <2> HIDE DEF f
  <2> QED BY RuleByRule
<1> DEFINE Bad == {i \in 0..Len(Order) : ~ Carries(after[i], Done(i))}
<1>2. CASE Bad = {}
  <2>1. Carries(after[Len(Order)], Done(Len(Order)))
    <3>1. Len(Order) \in 0..Len(Order)
      BY OrderOf
    <3> HIDE DEF Done
    <3> QED BY <1>2, <3>1
  <2>2. Done(Len(Order)) = InForceHere
    BY OrderOf DEF InForceHere
  <2> QED BY <1>1, <2>1, <2>2
<1>3. CASE Bad # {}
  <2>1. PICK m \in Bad : \A k \in Bad : m <= k
    <3>1. Bad \in SUBSET Nat
      BY OrderOf
    <3> HIDE DEF Bad
    <3> QED BY <1>3, <3>1, LeastOf
  <2>2. m # 0
    <3>1. Done(0) = {}
      OBVIOUS
    <3> HIDE DEF Done
    <3> QED BY <1>1, <2>1, <3>1, BlankCarries
  <2>3. m \in 1..Len(Order) /\ m - 1 \in 0..Len(Order) /\ m - 1 \notin Bad
    <3>1. m \in 0..Len(Order)
      BY <2>1
    <3> HIDE DEF Bad
    <3> QED BY OrderOf, <2>1, <2>2, <3>1
  <2>4. Carries(after[m - 1], Done(m - 1))
    BY <2>3
  <2> DEFINE r == Order[m]
  <2>5. r \notin Done(m - 1) /\ Done(m) = Done(m - 1) \cup ({r} \cap InForceHere)
    <3>1. \A j \in 1..(m - 1) : j \in 1..Len(Order) /\ j # m /\ j \in 1..m
      BY <2>3, OrderOf
    <3>2. \A j \in 1..m : j = m \/ j \in 1..(m - 1)
      BY <2>3, OrderOf
    <3>3. m \in 1..m /\ m \in 1..Len(Order)
      BY <2>3, OrderOf
    <3>4. \A j \in 1..(m - 1) : Order[j] # r
      BY <3>1, <3>3, OrderOf
    <3> HIDE DEF r
    <3>5. r = Order[m]
      BY DEF r
    <3> QED BY <3>1, <3>2, <3>3, <3>4, <3>5
  <2>6. after[m] = Next1(Blank, f, m, after[m - 1])
    BY <1>1, <2>3
  <2>7. DOMAIN f = InForceHere /\ \A s \in InForceHere : f[s] = rules[s].content
    BY DEF FileOf
  <2> HIDE DEF f, Done, Bad
  <2>8. CASE r \in InForceHere
    <3>1. after[m] = Entering(after[m - 1], r, rules[r].content)
      BY <2>6, <2>7, <2>8 DEF Next1
    <3>2. Done(m - 1) \in SUBSET InForceHere
      BY DEF Done
    <3>3. Carries(Entering(after[m - 1], r, rules[r].content), Done(m - 1) \cup {r})
      <4> DEFINE x == after[m - 1]
                 D == Done(m - 1)
      <4>1. D \in SUBSET InForceHere /\ Carries(x, D) /\ r \notin D
        BY <2>4, <2>5, <3>2
      <4> HIDE DEF x, D, r
      <4>2. Carries(Entering(x, r, rules[r].content), D \cup {r})
        BY <2>8, <4>1, OneMore
      <4> QED BY <4>2 DEF x, D
    <3>4. Done(m) = Done(m - 1) \cup {r}
      BY <2>5, <2>8
    <3> QED BY <2>1, <3>1, <3>3, <3>4 DEF Bad
  <2>9. CASE r \notin InForceHere
    <3>1. after[m] = after[m - 1] /\ Done(m) = Done(m - 1)
      BY <2>5, <2>6, <2>7, <2>9 DEF Next1
    <3> QED BY <2>1, <2>4, <3>1 DEF Bad
  <2> QED BY <2>8, <2>9
<1> QED BY <1>2, <1>3

----------------------------------------------------------------------------
(* A clean rollout read back. *)

LEMMA RangeOfBoth ==
    ASSUME NEW S, NEW s \in Seq(S), NEW t \in Seq(S)
    PROVE  Range(s \o t) = Range(s) \cup Range(t)
<1>1. /\ Len(s) \in Nat /\ Len(t) \in Nat /\ DOMAIN s = 1..Len(s) /\ DOMAIN t = 1..Len(t)
      /\ DOMAIN (s \o t) = 1..(Len(s) + Len(t))
      /\ \A i \in 1..(Len(s) + Len(t)) : (s \o t)[i] = IF i <= Len(s) THEN s[i] ELSE t[i - Len(s)]
  OBVIOUS
<1>2. \A i \in DOMAIN s : i \in DOMAIN (s \o t) /\ (s \o t)[i] = s[i]
  BY <1>1
<1>3. \A i \in DOMAIN t : i + Len(s) \in DOMAIN (s \o t) /\ (s \o t)[i + Len(s)] = t[i]
  BY <1>1
<1>4. \A i \in DOMAIN (s \o t) :
         \/ i \in DOMAIN s /\ (s \o t)[i] = s[i]
         \/ i - Len(s) \in DOMAIN t /\ (s \o t)[i] = t[i - Len(s)]
  BY <1>1
<1>5. ASSUME NEW x \in Range(s) \cup Range(t) PROVE x \in Range(s \o t)
  BY <1>2, <1>3, <1>5 DEF Range
<1>6. ASSUME NEW x \in Range(s \o t) PROVE x \in Range(s) \cup Range(t)
  <2>1. PICK i \in DOMAIN (s \o t) : x = (s \o t)[i]
    BY <1>6 DEF Range
  <2> QED BY <1>4, <2>1 DEF Range
<1> QED BY <1>5, <1>6

\* The policy of a rule mentions the rule, and what the rule's name cites.
LEMMA RuleMentions ==
    ASSUME TypeOK, NEW r \in InForceHere
    PROVE  LET m == Mentions(Exported(r))
           IN  m # <<>> /\ Range(m) = {r} \cup Range(Cited[rules[r].content.name])
<1> DEFINE cited == Cited[rules[r].content.name]
           m == Mentions(Exported(r))
<1>1. r \in Identifiers /\ cited \in Seq(Identifiers)
  BY ExportedParts, ContentParts, OrderOf, DeviceAssumption DEF DeviceAssumption
<1>2. m = <<r>> \o cited \/ m = cited \o <<r>>
  BY ExportedParts DEF Mentions
<1> HIDE DEF cited, m
<1>3. <<r>> \in Seq(Identifiers) /\ Range(<<r>>) = {r}
  BY <1>1 DEF Range
<1>4. Range(m) = {r} \cup Range(cited)
  <2> DEFINE own == <<r>>
  <2>1. own \in Seq(Identifiers) /\ Range(own) = {r} /\ (m = own \o cited \/ m = cited \o own)
    BY <1>2, <1>3
  <2> HIDE DEF own
  <2>2. Range(own \o cited) = {r} \cup Range(cited) /\ Range(cited \o own) = {r} \cup Range(cited)
    BY <1>1, <2>1, RangeOfBoth
  <2> QED BY <2>1, <2>2
<1>5. m # <<>>
  <2>1. r \in Range(m)
    BY <1>4
  <2> QED BY <2>1 DEF Range
<1> QED BY <1>4, <1>5 DEF m, cited

\* One policy is one block, which claims what the policy mentions first.
LEMMA OneBlockEach ==
    ASSUME TypeOK, OwnNames, Carries(config, InForceHere)
    PROVE  /\ InForceHere \subseteq Claims /\ Claims \subseteq InForceHere \cup CitedInForce
           /\ Blocks(config.policies) =
                 {[identifier |-> Scanned(Exported(r)), claim |-> Head(Mentions(Exported(r)))] : r \in InForceHere}
<1> DEFINE pols == config.policies
<1>1. /\ \A k \in DOMAIN pols : \E r \in InForceHere : pols[k] = Exported(r) /\ pols[k].remark = <<r>>
      /\ \A r \in InForceHere : \E k \in DOMAIN pols : pols[k] = Exported(r) /\ pols[k].remark = <<r>>
      /\ \A k, l \in DOMAIN pols : pols[k].remark = pols[l].remark => k = l
  <2>1. \A r \in InForceHere : Exported(r).remark = <<r>>
    BY ExportedParts
  <2> HIDE DEF pols
  <2>2. /\ \A k \in DOMAIN pols : \E r \in InForceHere : pols[k] = Exported(r)
        /\ \A r \in InForceHere : \E k \in DOMAIN pols : pols[k] = Exported(r)
        /\ \A k, l \in DOMAIN pols : pols[k].remark = pols[l].remark => k = l
    BY DEF Carries, pols
  <2> QED BY <2>1, <2>2
<1>2. \A k \in DOMAIN pols : k \in Int
  BY SequenceOf DEF Carries
<1>3. InForceHere \subseteq Claims /\ Claims \subseteq InForceHere \cup CitedInForce
  <2>1. \A k \in DOMAIN pols : \E r \in InForceHere :
           Range(Mentions(pols[k])) = {r} \cup Range(Cited[rules[r].content.name])
    BY <1>1, RuleMentions
  <2>2. \A r \in InForceHere : \E k \in DOMAIN pols : r \in Range(Mentions(pols[k]))
    BY <1>1, RuleMentions
  <2>3. Claims = UNION {Range(Mentions(pols[k])) : k \in DOMAIN pols}
    BY DEF Claims
  <2> HIDE DEF pols
  <2>4. ASSUME NEW x \in Claims PROVE x \in InForceHere \cup CitedInForce
    <3>1. PICK k \in DOMAIN pols : x \in Range(Mentions(pols[k]))
      BY <2>3
    <3>2. PICK r \in InForceHere : Range(Mentions(pols[k])) = {r} \cup Range(Cited[rules[r].content.name])
      BY <2>1
    <3>3. x = r \/ x \in Range(Cited[rules[r].content.name])
      BY <3>1, <3>2
    <3> QED BY <3>3 DEF CitedInForce
  <2> QED BY <2>2, <2>3, <2>4
<1>4. \A k, l \in DOMAIN pols : Scanned(pols[k]) = Scanned(pols[l]) => k = l
  <2> SUFFICES ASSUME NEW k \in DOMAIN pols, NEW l \in DOMAIN pols, Scanned(pols[k]) = Scanned(pols[l])
               PROVE  k = l
    OBVIOUS
  <2>1. PICK r \in InForceHere, s \in InForceHere :
           pols[k] = Exported(r) /\ pols[k].remark = <<r>> /\ pols[l] = Exported(s) /\ pols[l].remark = <<s>>
    BY <1>1
  <2>2. /\ Exported(r).exported = TRUE /\ Exported(s).exported = TRUE
        /\ Exported(r).name = rules[r].content.name /\ Exported(s).name = rules[s].content.name
    BY ExportedParts
  <2>3. r = s
    <3>1. CASE Platform = "checkpoint"
      <4>1. <<r>> = <<s>>
        BY <2>1, <2>2, <3>1 DEF Scanned
      <4> QED BY <4>1
    <3>2. CASE Platform # "checkpoint"
      <4>1. <<rules[r].content.name>> = <<rules[s].content.name>>
        BY <2>1, <2>2, <3>2 DEF Scanned
      <4>2. rules[r].content.name = rules[s].content.name
        BY <4>1
      <4> QED BY <4>2 DEF OwnNames
    <3> QED BY <3>1, <3>2
  <2> QED BY <1>1, <2>1, <2>3
<1>5. DOMAIN pols = 1..Len(pols) /\ Len(pols) \in Nat
  BY SequenceOf DEF Carries
<1> HIDE DEF pols
<1>6. Starts(pols) = DOMAIN pols
  <2>1. \A k \in DOMAIN pols : \A j \in 1..(k - 1) : j \in DOMAIN pols /\ j # k
    BY <1>5
  <2> QED BY <1>4, <2>1 DEF Starts
<1>7. \A k \in DOMAIN pols : BlockLines(pols, k) = {k}
  <2> SUFFICES ASSUME NEW k \in DOMAIN pols PROVE OwnLines(pols, k) = {k}
    BY DEF BlockLines
  <2>1. k \in Int
    BY <1>2
  <2>2. \A j \in OwnLines(pols, k) : j \in DOMAIN pols /\ j >= k /\ (k < j => j < j)
    BY <1>6 DEF OwnLines
  <2>3. \A j \in OwnLines(pols, k) : j = k
    BY <1>2, <2>1, <2>2
  <2>4. k \in OwnLines(pols, k)
    BY <1>6, <2>1 DEF OwnLines
  <2> QED BY <2>3, <2>4
<1>8. \A k \in DOMAIN pols : FirstClaim(pols, {k}) = Head(Mentions(pols[k]))
  <2> SUFFICES ASSUME NEW k \in DOMAIN pols PROVE FirstClaim(pols, {k}) = Head(Mentions(pols[k]))
    OBVIOUS
  <2>1. Mentions(pols[k]) # <<>> /\ k <= k
    BY <1>1, <1>2, RuleMentions
  <2>2. {i \in {k} : Mentions(pols[i]) # <<>>} = {k}
    BY <2>1
  <2>3. (CHOOSE i \in {k} : \A j \in {k} : i <= j) = k
    BY <2>1
  <2> QED BY <2>2, <2>3 DEF FirstClaim
<1>9. Blocks(pols) = {[identifier |-> Scanned(pols[k]), claim |-> Head(Mentions(pols[k]))] : k \in DOMAIN pols}
  BY <1>6, <1>7, <1>8 DEF Blocks
<1>10. Blocks(pols) = {[identifier |-> Scanned(Exported(r)), claim |-> Head(Mentions(Exported(r)))] : r \in InForceHere}
  BY <1>1, <1>9
<1> QED BY <1>3, <1>10 DEF pols

\* A service that is not respelt is exported as what the approval covers.
LEMMA ExportCovered ==
    ASSUME NEW svc \in Svcs, svc.protocol \notin {"ANY", "UDP/TCP", "ICMPV6", "ICMP/ICMPV6"},
           svc.protocol \in {"TCP", "UDP", "TCP/UDP"} =>
              Ranges(svc) # {} /\ Understood(svc) \in {{}, Ranges(svc)},
           NEW t \in ExportedServices(svc)
    PROVE  t # Every("any") /\ \E s \in ApprovedServices(svc) : Covers(s, t)
<1>1. /\ svc.protocol \in {"TCP", "UDP", "TCP/UDP", "ICMP"}
      /\ \A r \in Ranges(svc) : r \in Ports \X Ports
  BY RangesOf DEF Svcs, Protocols
<1>2. /\ MaxPort \in Int /\ Echo \in Int /\ \A n \in Ports : n \in Int /\ 0 <= n /\ n <= MaxPort
  BY DeviceAssumption DEF DeviceAssumption, Ports, Echo
<1>3. \A p, q : \A l, h : Service(p, l, h).proto = p /\ Service(p, l, h).lo = l /\ Service(p, l, h).hi = h
  BY DEF Service
<1>4. \A p : p # "any" => \A l, h : Service(p, l, h) # Every("any")
  BY <1>3 DEF Every
<1>5. CASE svc.protocol = "ICMP"
  <2>1. t = IF svc.port = Ping THEN Service("icmp", Echo, Echo) ELSE Every("icmp")
    BY <1>5 DEF ExportedServices, Split
  <2>2. t = IF svc.port = Ping THEN Service("icmp", Echo, Echo) ELSE Service("icmp", 0, MaxPort)
    BY <2>1 DEF Every
  <2>3. t \in ApprovedServices(svc)
    <3>1. ApprovedServices(svc) =
             {Service(p, r[1], r[2]) : p \in {"icmp"}, r \in IF svc.port = Ping THEN {<<Echo, Echo>>} ELSE {<<0, MaxPort>>}}
      BY <1>5 DEF ApprovedServices
    <3>2. CASE svc.port = Ping
      <4>1. t = Service("icmp", <<Echo, Echo>>[1], <<Echo, Echo>>[2])
        BY <2>2, <3>2
      <4> QED BY <3>1, <3>2, <4>1
    <3>3. CASE svc.port # Ping
      <4>1. t = Service("icmp", <<0, MaxPort>>[1], <<0, MaxPort>>[2])
        BY <2>2, <3>3
      <4> QED BY <3>1, <3>3, <4>1
    <3> QED BY <3>2, <3>3
  <2>4. Covers(t, t)
    BY <1>2, <1>3, <2>2 DEF Covers
  <2> QED BY <1>4, <2>2, <2>3, <2>4
<1>6. CASE svc.protocol # "ICMP"
  <2> DEFINE protos == Split(svc.protocol)
  <2>1. protos \subseteq {"tcp", "udp"} /\ Ranges(svc) # {}
    BY <1>1, <1>6 DEF Split
  <2>2. PICK p \in protos, r \in Ranges(svc) : t = Service(p, r[1], r[2])
    <3>1. PICK p \in protos : t \in (IF p = "icmp" THEN {IF svc.port = Ping THEN Service(p, Echo, Echo) ELSE Every(p)}
                                     ELSE IF Ranges(svc) = {} THEN {Every("any")}
                                     ELSE {Service(p, range[1], range[2]) : range \in Ranges(svc)})
      BY DEF ExportedServices
    <3>2. p # "icmp"
      BY <2>1
    <3> HIDE DEF protos
    <3>3. t \in {Service(p, range[1], range[2]) : range \in Ranges(svc)}
      BY <2>1, <3>1, <3>2
    <3> QED BY <3>3
  <2>3. ApprovedServices(svc) = {Service(q, range[1], range[2]) : q \in protos, range \in PortRanges(svc)}
    BY <1>1, <1>6 DEF ApprovedServices, Split
  <2>4. r \in Ports \X Ports /\ r[1] \in Ports /\ r[2] \in Ports
    BY <1>1
  <2>5. \E q \in PortRanges(svc) : q[1] <= r[1] /\ r[2] <= q[2]
    <3>1. r[1] <= r[1] /\ r[2] <= r[2] /\ <<0, MaxPort>>[1] <= r[1] /\ r[2] <= <<0, MaxPort>>[2]
      BY <1>2, <2>4
    <3>2. r \in PortRanges(svc) \/ <<0, MaxPort>> \in PortRanges(svc)
      BY <1>1, <1>6 DEF PortRanges
    <3> QED BY <3>1, <3>2
  <2>6. PICK q \in PortRanges(svc) : q[1] <= r[1] /\ r[2] <= q[2]
    BY <2>5
  <2> HIDE DEF protos
  <2>7. Service(p, q[1], q[2]) \in ApprovedServices(svc)
    BY <2>2, <2>3, <2>6
  <2>8. Covers(Service(p, q[1], q[2]), t)
    BY <1>3, <2>2, <2>6 DEF Covers
  <2>9. p # "any"
    BY <2>1, <2>2
  <2> QED BY <1>4, <2>2, <2>7, <2>8, <2>9
<1> QED BY <1>5, <1>6

\* What is read under the name of the policy of a rule: that policy.
LEMMA ReadAlone ==
    ASSUME TypeOK, OwnNames, Carries(config, InForceHere), Platform # "checkpoint",
           NEW r \in InForceHere
    PROVE  LET p == Exported(r)
               f == DevicePermission(config, <<p.name>>)
               Nets(names) == {config.read[n] : n \in names \cap DOMAIN config.read}
           IN  /\ f.source = Nets(p.source) /\ f.destination = Nets(p.destination)
               /\ f.anySource = (<<"any">> \in p.source)
               /\ f.anyDestination = (<<"any">> \in p.destination)
               /\ f.services = p.apps \ {Every("any")} /\ f.anyService = (Every("any") \in p.apps)
               /\ f.action = p.action
               /\ f.unresolved = ~ (p.source \cup p.destination
                                       \subseteq DOMAIN config.read \cup {<<"any">>})
<1> DEFINE pols == config.policies
           p == Exported(r)
           id == <<p.name>>
           Named == {j \in DOMAIN pols : Read(pols[j]) = id}
<1>1. PICK k \in DOMAIN pols : pols[k] = p
  BY DEF Carries
<1>2. k \in Int
  BY SequenceOf DEF Carries
<1>3. Named = {k}
  <2>1. Read(pols[k]) = id
    BY <1>1 DEF Read
  <2>2. ASSUME NEW j \in DOMAIN pols, Read(pols[j]) = id PROVE j = k
    <3>1. PICK s \in InForceHere : pols[j] = Exported(s)
      BY DEF Carries
    <3>2. <<Exported(s).name>> = <<p.name>>
      BY <2>2, <3>1 DEF Read
    <3>3. Exported(s).name = p.name
      BY <3>2
    <3>4. s = r
      <4>1. Exported(s).name = rules[s].content.name /\ p.name = rules[r].content.name
        BY ExportedParts
      <4> QED BY <3>3, <4>1 DEF OwnNames
    <3>5. pols[j].remark = pols[k].remark
      BY <1>1, <3>1, <3>4
    <3> QED BY <3>5 DEF Carries
  <2> QED BY <2>1, <2>2
<1> DEFINE Lowest == CHOOSE i \in Named : \A j \in Named : j <= i
           Own == IF Platform = "checkpoint" THEN {Lowest} ELSE Named
           Names(side) == UNION {pols[j][side] : j \in Own}
           Nets(side) == {config.read[n] : n \in Names(side) \cap DOMAIN config.read}
           apps == UNION {pols[j].apps : j \in Own}
           f == DevicePermission(config, id)
<1>4. f.source = Nets("source") /\ f.destination = Nets("destination")
  BY DEF DevicePermission
<1>5. /\ f.anySource = (<<"any">> \in Names("source"))
      /\ f.anyDestination = (<<"any">> \in Names("destination"))
  BY DEF DevicePermission
<1>6. /\ f.services = apps \ {Every("any")} /\ f.anyService = (Every("any") \in apps)
      /\ f.action = pols[Lowest].action
  BY DEF DevicePermission
<1>7. f.unresolved = ~ (Names("source") \cup Names("destination") \subseteq DOMAIN config.read \cup {<<"any">>})
  BY DEF DevicePermission
<1> HIDE DEF f, Named
<1>8. Lowest = k
  <2>1. (CHOOSE i \in {k} : \A j \in {k} : j <= i) = k
    BY <1>2
  <2> QED BY <1>3, <2>1
<1> HIDE DEF Lowest
<1>9. Own = {k}
  BY <1>3
<1> HIDE DEF Own
<1>10. Names("source") = p.source /\ Names("destination") = p.destination /\ apps = p.apps
  BY <1>1, <1>9
<1>11. pols[Lowest].action = p.action
  BY <1>1, <1>8
<1> HIDE DEF p, id, Names, apps
<1>12. /\ f.source = {config.read[n] : n \in p.source \cap DOMAIN config.read}
       /\ f.destination = {config.read[n] : n \in p.destination \cap DOMAIN config.read}
  BY <1>4, <1>10
<1> HIDE DEF pols, Nets
<1> QED BY <1>5, <1>6, <1>7, <1>10, <1>11, <1>12 DEF f, id, p

\* Without an alias of two meanings the networks read are those that were approved.
LEMMA NetworksAsApproved ==
    ASSUME TypeOK, Carries(config, InForceHere), NEW r \in InForceHere, ~ Ambiguous(r),
           NEW list \in Seq(Entries), \A i \in DOMAIN list : list[i] \in EntriesOf(r)
    PROVE  NetworksCovered(ApprovedNetworks(list) \ {AnyNet}, AnyNet \in ApprovedNetworks(list),
                           {config.read[n] : n \in ObjectNames(list) \cap DOMAIN config.read},
                           <<"any">> \in ObjectNames(list))
<1> DEFINE A == ApprovedNetworks(list)
           F == {config.read[n] : n \in ObjectNames(list) \cap DOMAIN config.read}
<1>1. <<"any">> \in ObjectNames(list) => AnyNet \in A
  <2> SUFFICES ASSUME <<"any">> \in ObjectNames(list) PROVE AnyNet \in A
    OBVIOUS
  <2>1. PICK i \in DOMAIN list : ObjectName(list[i]) = <<"any">>
    BY DEF ObjectNames
  <2>2. list[i].net = AnyNet
    BY <2>1, NameType, SequenceOf
  <2> QED BY <2>2 DEF ApprovedNetworks
<1>2. \A net \in F : net \in A \ {AnyNet}
  <2> SUFFICES ASSUME NEW n \in ObjectNames(list) \cap DOMAIN config.read
               PROVE  config.read[n] \in A \ {AnyNet}
    OBVIOUS
  <2>1. PICK i \in DOMAIN list : ObjectName(list[i]) = n
    BY DEF ObjectNames
  <2>2. n # <<"any">> /\ \E s \in InForceHere : \E e \in EntriesOf(s) :
           ObjectName(e) = n /\ e.net = config.read[n]
    <3>1. PICK k \in DOMAIN config.book : k[2] = n /\ config.read[n] = config.book[k]
      BY DEF TypeOK, Readable
    <3>2. k[2] # <<"any">> /\ \E s \in InForceHere : \E e \in EntriesOf(s) :
             ObjectName(e) = k[2] /\ e.net = config.book[k]
      BY <3>1 DEF Carries
    <3> QED BY <3>1, <3>2
  <2>3. list[i].net = config.read[n]
    BY <2>1, <2>2 DEF Ambiguous
  <2>4. list[i].net # AnyNet
    BY <2>1, <2>2, NameType, SequenceOf
  <2> QED BY <2>3, <2>4 DEF ApprovedNetworks
<1> HIDE DEF A, F
<1>3. \A n \in F : \E a \in A \ {AnyNet} : n \subseteq a
  BY <1>2
<1>4. NetworksCovered(A \ {AnyNet}, AnyNet \in A, F, <<"any">> \in ObjectNames(list))
  BY <1>1, <1>3 DEF NetworksCovered
<1> QED BY <1>4 DEF A, F

LEMMA RolloutAsApproved ==
    ASSUME TypeOK, OwnNames, Carries(config, InForceHere), Platform # "checkpoint",
           NEW r \in InForceHere
    PROVE  LET f == DevicePermission(config, <<Exported(r).name>>)
           IN  /\ ~ f.unresolved
               /\ ~ Ambiguous(r) /\ ~ Respelt(r) => ~ Widens(f, ApprovedPermission(rules[r].content))
<1> DEFINE c == rules[r].content
           a == ApprovedPermission(c)
           p == Exported(r)
           f == DevicePermission(config, <<p.name>>)
           Nets(names) == {config.read[n] : n \in names \cap DOMAIN config.read}
           S == ObjectNames(c.source)
           T == ObjectNames(c.destination)
           apps == UNION {ExportedServices(svc) : svc \in c.services}
<1>1. /\ f.source = Nets(S) /\ f.destination = Nets(T)
      /\ f.anySource = (<<"any">> \in S) /\ f.anyDestination = (<<"any">> \in T)
      /\ f.services = apps \ {Every("any")} /\ f.anyService = (Every("any") \in apps)
      /\ f.action = c.action
      /\ f.unresolved = ~ (S \cup T \subseteq DOMAIN config.read \cup {<<"any">>})
  <2>1. p.source = S /\ p.destination = T /\ p.apps = apps /\ p.action = c.action
    BY ExportedParts
  <2> HIDE DEF p, f, S, T, apps, c
  <2>2. /\ f.source = Nets(p.source) /\ f.destination = Nets(p.destination)
        /\ f.anySource = (<<"any">> \in p.source) /\ f.anyDestination = (<<"any">> \in p.destination)
        /\ f.services = p.apps \ {Every("any")} /\ f.anyService = (Every("any") \in p.apps)
        /\ f.action = p.action
        /\ f.unresolved = ~ (p.source \cup p.destination \subseteq DOMAIN config.read \cup {<<"any">>})
    BY ReadAlone DEF p, f
  <2> QED BY <2>1, <2>2
<1>2. /\ c \in RuleContents /\ c.source \in Seq(Entries) /\ c.destination \in Seq(Entries)
      /\ \A i \in DOMAIN c.source : c.source[i] \in EntriesOf(r) /\ c.source[i] \in Entries
      /\ \A i \in DOMAIN c.destination : c.destination[i] \in EntriesOf(r) /\ c.destination[i] \in Entries
      /\ \A svc \in c.services : svc \in Svcs
  <2>1. c \in RuleContents
    BY ExportedParts
  <2>2. EntriesOf(r) = {c.source[i] : i \in DOMAIN c.source} \cup {c.destination[i] : i \in DOMAIN c.destination}
    BY EntriesAre
  <2> HIDE DEF c
  <2> QED BY <2>1, <2>2, ContentParts, SequenceOf
<1>3. ~ f.unresolved
  <2>1. \A e \in EntriesOf(r) : e.net # AnyNet => ObjectName(e) \in DOMAIN config.read
    <3>1. \A k \in DOMAIN config.book : k[2] \in DOMAIN config.read
      BY DEF TypeOK, Readable
    <3> QED BY <3>1 DEF Carries
  <2>2. \A n \in S \cup T : \E e \in EntriesOf(r) : e \in Entries /\ ObjectName(e) = n
    BY <1>2 DEF ObjectNames
  <2>3. S \cup T \subseteq DOMAIN config.read \cup {<<"any">>}
    <3> HIDE DEF S, T
    <3> QED BY <2>1, <2>2, NameType
  <2> QED BY <1>1, <2>3
<1> SUFFICES ASSUME ~ Ambiguous(r), ~ Respelt(r) PROVE ~ Widens(f, a)
  BY <1>3
<1>4. /\ a.source = ApprovedNetworks(c.source) \ {AnyNet}
      /\ a.destination = ApprovedNetworks(c.destination) \ {AnyNet}
      /\ a.anySource = (AnyNet \in ApprovedNetworks(c.source))
      /\ a.anyDestination = (AnyNet \in ApprovedNetworks(c.destination))
      /\ a.services = UNION {ApprovedServices(svc) : svc \in c.services}
      /\ a.anyService = (\E svc \in c.services : svc.protocol = "ANY")
      /\ a.action = c.action
  BY DEF ApprovedPermission
<1>5. NetworksCovered(ApprovedNetworks(c.source) \ {AnyNet}, AnyNet \in ApprovedNetworks(c.source),
                      Nets(S), <<"any">> \in S)
  <2> HIDE DEF c
  <2> QED BY <1>2, NetworksAsApproved
<1>6. NetworksCovered(ApprovedNetworks(c.destination) \ {AnyNet}, AnyNet \in ApprovedNetworks(c.destination),
                      Nets(T), <<"any">> \in T)
  <2> HIDE DEF c
  <2> QED BY <1>2, NetworksAsApproved
<1>7. ServicesCovered(a.services, a.anyService, apps \ {Every("any")}, Every("any") \in apps)
  <2>1. CASE \E svc \in c.services : svc.protocol = "ANY"
    BY <1>4, <2>1 DEF ServicesCovered
  <2>2. CASE ~ \E svc \in c.services : svc.protocol = "ANY"
    <3>1. \A t \in apps : t # Every("any") /\ \E s \in a.services : Covers(s, t)
      <4> SUFFICES ASSUME NEW svc \in c.services, NEW t \in ExportedServices(svc)
                   PROVE  t # Every("any") /\ \E s \in a.services : Covers(s, t)
        OBVIOUS
      <4>1. svc \in Svcs /\ svc.protocol \notin {"ANY", "UDP/TCP", "ICMPV6", "ICMP/ICMPV6"}
            /\ (svc.protocol \in {"TCP", "UDP", "TCP/UDP"} =>
                   Ranges(svc) # {} /\ Understood(svc) \in {{}, Ranges(svc)})
        BY <1>2, <2>2 DEF Respelt
      <4>2. t # Every("any") /\ \E s \in ApprovedServices(svc) : Covers(s, t)
        BY <4>1, ExportCovered
      <4> HIDE DEF a, c
      <4> QED BY <1>4, <4>2
    <3> HIDE DEF apps, a
    <3> QED BY <3>1 DEF ServicesCovered
  <2> QED BY <2>1, <2>2
<1> HIDE DEF f, a, c, S, T, apps, Nets
<1>8. /\ NetworksCovered(a.source, a.anySource, f.source, f.anySource)
      /\ NetworksCovered(a.destination, a.anyDestination, f.destination, f.anyDestination)
      /\ ServicesCovered(a.services, a.anyService, f.services, f.anyService)
  BY <1>1, <1>4, <1>5, <1>6, <1>7
<1> QED BY <1>1, <1>4, <1>8 DEF Widens

LEMMA RolloutReads == TypeOK => RolloutReadsInSync
<1> DEFINE Rolled(r) == [identifier |-> Scanned(Exported(r)), claim |-> Head(Mentions(Exported(r)))]
<1> SUFFICES ASSUME TypeOK, Recognised, OwnNames,
                    config \in Texts(Loaded(Blank, Order, FileOf(InForceHere)))
             PROVE  /\ Missing = {} /\ Unjustified = {} /\ Stale \cup Unknown \subseteq CitedInForce
                    /\ ConfigBlocks = {Rolled(r) : r \in InForceHere}
                    /\ Fidelity = "checked"
                    /\ \A b \in Widened : \E r \in InForceHere :
                          b.identifier = Scanned(Exported(r)) /\ (Ambiguous(r) \/ Respelt(r) \/ b.claim # r)
  BY DEF RolloutReadsInSync, OwnNames, Exported
<1>1. Carries(config, InForceHere)
  <2> DEFINE d == Loaded(Blank, Order, FileOf(InForceHere))
  <2>1. Carries(d, InForceHere)
    BY RolloutCarries
  <2>2. d \in Configs
    <3>1. FileOf(InForceHere) \in [InForceHere -> RuleContents]
      BY DEF FileOf, InForceHere, TypeOK
    <3>2. FileOf(InForceHere) \in Files
      BY <3>1 DEF Files, InForceHere
    <3> QED BY <3>2, BlankType, LoadedType
  <2> HIDE DEF d
  <2>3. config.policies = d.policies /\ config.book = d.book
    BY <2>2, TextOf DEF d
  <2> QED BY <2>1, <2>3 DEF Carries
<1>2. /\ InForceHere \subseteq Claims /\ Claims \subseteq InForceHere \cup CitedInForce
      /\ ConfigBlocks = {Rolled(r) : r \in InForceHere}
  BY <1>1, OneBlockEach DEF ConfigBlocks
<1>3. Missing = {} /\ Stale \cup Unknown \subseteq CitedInForce
  BY <1>2 DEF Missing, Stale, Unknown, InForceHere
<1>4. \A b \in ConfigBlocks : \E r \in InForceHere :
         b.identifier = Scanned(Exported(r)) /\ b.claim = Head(Mentions(Exported(r)))
  BY <1>2
<1>5. Unjustified = {}
  <2>1. \A r \in InForceHere : Head(Mentions(Exported(r))) \in Identifiers
    <3> SUFFICES ASSUME NEW r \in InForceHere PROVE Head(Mentions(Exported(r))) \in Identifiers
      OBVIOUS
    <3>1. Mentions(Exported(r)) \in Seq(Identifiers) /\ Mentions(Exported(r)) # <<>>
      BY ExportedParts, MentionsType, RuleMentions
    <3> DEFINE m == Mentions(Exported(r))
    <3> HIDE DEF m
    <3>2. m \in Seq(Identifiers) /\ m # <<>> => Head(m) \in Identifiers
      OBVIOUS
    <3> QED BY <3>1, <3>2 DEF m
  <2> QED BY <1>4, <2>1 DEF Unjustified, Identifiers
\* What is compared is compared as Junos: Check Point's readers differ on the name.
<1>6. \A b \in Identified : /\ Platform # "checkpoint"
                            /\ \E r \in InForceHere : /\ b.identifier = Scanned(Exported(r))
                                                     /\ b.identifier = <<Exported(r).name>>
  <2> SUFFICES ASSUME NEW b \in Identified
               PROVE  /\ Platform # "checkpoint"
                      /\ \E r \in InForceHere : /\ b.identifier = Scanned(Exported(r))
                                               /\ b.identifier = <<Exported(r).name>>
    OBVIOUS
  <2>1. PICK r \in InForceHere : b.identifier = Scanned(Exported(r))
    BY <1>4 DEF Identified
  <2>2. PICK i \in DOMAIN config.policies : Read(config.policies[i]) = b.identifier
    BY DEF Identified
  <2>3. PICK s \in InForceHere : config.policies[i] = Exported(s)
    BY <1>1 DEF Carries
  <2>4. /\ Exported(s).exported = TRUE /\ Exported(r).exported = TRUE
        /\ Exported(s).remark = <<s>> /\ Exported(r).remark = <<r>>
    BY ExportedParts
  <2>5. Platform # "checkpoint"
    <3> SUFFICES ASSUME Platform = "checkpoint" PROVE FALSE
      OBVIOUS
    <3>1. <<"'">> \o <<s>> = <<r>>
      BY <2>1, <2>2, <2>3, <2>4 DEF Scanned, Read
    <3>2. Len(<<"'">> \o <<s>>) = 2 /\ Len(<<r>>) = 1
      OBVIOUS
    <3> QED BY <3>1, <3>2
  <2> QED BY <2>1, <2>5 DEF Scanned
<1>7. Unverified = {}
  BY <1>1, <1>6, RolloutAsApproved DEF Unverified
<1>8. \A b \in Widened : \E r \in InForceHere :
         b.identifier = Scanned(Exported(r)) /\ (Ambiguous(r) \/ Respelt(r) \/ b.claim # r)
  <2> SUFFICES ASSUME NEW b \in Widened
               PROVE  \E r \in InForceHere :
                         b.identifier = Scanned(Exported(r)) /\ (Ambiguous(r) \/ Respelt(r) \/ b.claim # r)
    OBVIOUS
  <2>1. b \in Identified
            /\ Widens(DevicePermission(config, b.identifier), ApprovedPermission(rules[b.claim].content))
    BY DEF Widened
  <2>2. PICK r \in InForceHere : b.identifier = Scanned(Exported(r)) /\ b.identifier = <<Exported(r).name>>
    BY <1>6, <2>1
  <2>3. b.claim = r => Ambiguous(r) \/ Respelt(r)
    BY <1>1, <1>6, <2>1, <2>2, RolloutAsApproved
  <2> QED BY <2>2, <2>3
<1> QED BY <1>2, <1>3, <1>5, <1>7, <1>8 DEF Fidelity

\* A clean rollout is reported as one: export, load and the two readers are each
\* other's inverse but for aliases of two meanings, services that the export and the
\* reader spell differently, and names that cite another rule.
THEOREM RolloutIsRecognised == Spec => []RolloutReadsInSync
  BY RolloutReads, DeviceTypes, PTL
=============================================================================
