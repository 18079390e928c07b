-------------------------- MODULE AuditChainProofs --------------------------
(***************************************************************************)
(* The audit log keeps what docs/AUDIT.md promises of it: the statements   *)
(* of AuditChain implement EvidenceLog, for any number of entries,         *)
(* requests and delivery passes, with crashes and lost rows.               *)
(***************************************************************************)
EXTENDS AuditChain, FiniteSetTheorems, WellFoundedInduction, TLAPS

Queued == {e \in 1..made : mark[e] # "skipped"}

\* What is marked as sent has arrived.
SentArrived == \A e \in 1..made : mark[e] = "sent" => e \in arrived.entries

\* A pass that is among the entries works off the oldest of what waits: whatever
\* is older than its rest has arrived.
PassesInOrder ==
    \A c \in Couriers : courier[c].phase = "entries" =>
        /\ courier[c].todo \subseteq Queued
        /\ \A f \in alive \cap Queued :
              f \in arrived.entries \/ f \in courier[c].todo \/ \A x \in courier[c].todo : x < f
        /\ courier[c].sent => courier[c].todo # {} /\ Foremost(courier[c].todo) \in arrived.entries

IdleRests == \A c \in Couriers : courier[c].phase = "idle" => courier[c].todo = {}

\* The walked prefix holds nothing that a configured SIEM waits for.
WalkSettled ==
    keeper # NoWalk =>
        /\ keeper.boundary \in 1..made /\ keeper.count \in Nat \ {0}
        /\ pushing => \A e \in alive : e <= keeper.boundary => mark[e] # "pending"

EvidenceInv ==
    /\ TypeOK
    /\ SentArrived
    /\ PassesInOrder
    /\ IdleRests
    /\ WalkSettled

----------------------------------------------------------------------------
(* The least and the greatest of some numbers. *)

LEMMA Least ==
    ASSUME NEW S \in SUBSET Nat, S # {}
    PROVE  MinOf(S) \in S /\ \A y \in S : MinOf(S) <= y
<1>1. PICK x \in S : \A y \in S : ~ (<<y, x>> \in OpToRel(<, Nat))
  BY WFMin, NatLessThanWellFounded
<1>2. \A y \in S : ~ (y < x)
  BY <1>1 DEF OpToRel
<1>3. \A y \in S : x <= y
  BY <1>2
<1> QED BY <1>3 DEF MinOf

LEMMA Greatest ==
    ASSUME NEW n \in Nat, NEW S \in SUBSET (1..n), S # {}
    PROVE  MaxOf(S) \in S /\ \A y \in S : y <= MaxOf(S)
<1> DEFINE D == {n - x : x \in S}
<1>1. D \in SUBSET Nat /\ D # {}
  <2>1. \A x \in S : n - x \in Nat
    OBVIOUS
  <2> QED BY <2>1
<1>2. MinOf(D) \in D /\ \A d \in D : MinOf(D) <= d
  <2> HIDE DEF D
  <2> QED BY <1>1, Least
<1>3. PICK x \in S : MinOf(D) = n - x
  BY <1>2
<1>4. \A y \in S : n - x <= n - y
  BY <1>2, <1>3
<1>5. \A y \in S : y <= x
  BY <1>4
<1> QED BY <1>5 DEF MaxOf

LEMMA AliveFinite == TypeOK => \A S \in SUBSET alive : IsFiniteSet(S)
<1> SUFFICES ASSUME TypeOK, NEW S \in SUBSET alive PROVE IsFiniteSet(S)
  OBVIOUS
<1>1. IsFiniteSet(1..made)
  BY FS_Interval DEF TypeOK
<1> QED BY <1>1, FS_Subset DEF TypeOK

LEMMA BoundaryType == TypeOK => LastBoundary \in 0..MaxEntries
<1> SUFFICES ASSUME TypeOK PROVE LastBoundary \in 0..MaxEntries
  OBVIOUS
<1>1. CASE seals = <<>>
  BY <1>1, AuditAssumption DEF LastBoundary, Genesis, AuditAssumption
<1>2. CASE seals # <<>>
  <2> DEFINE Seal == [boundary : Entry, count : Nat \ {0}, delivered : BOOLEAN]
  <2>1. seals \in Seq(Seal)
    BY DEF TypeOK
  <2>2. seals[Len(seals)] \in Seal
    <3> HIDE DEF Seal
    <3> QED BY <1>2, <2>1
  <2> QED BY <1>2, <2>2 DEF LastBoundary, Entry
<1> QED BY <1>1, <1>2

LEMMA ChainEndType == TypeOK => ChainEnd \in 0..MaxEntries
<1> SUFFICES ASSUME TypeOK PROVE ChainEnd \in 0..MaxEntries
  OBVIOUS
<1>1. CASE alive = {}
  BY <1>1, BoundaryType DEF ChainEnd
<1>2. CASE alive # {}
  <2>1. made \in Nat /\ made <= MaxEntries /\ alive \in SUBSET (1..made)
    BY AuditAssumption DEF TypeOK, AuditAssumption
  <2>2. MaxOf(alive) \in alive
    BY <1>2, <2>1, Greatest
  <2>3. ChainEnd = MaxOf(alive)
    BY <1>2 DEF ChainEnd
  <2>4. MaxOf(alive) \in 1..made
    BY <2>1, <2>2
  <2> QED BY <2>1, <2>3, <2>4, AuditAssumption DEF AuditAssumption
<1> QED BY <1>1, <1>2

LEMMA Delivery ==
    ASSUME NEW S, NEW s \in Seq(S), NEW x, NEW v, x \in DOMAIN s => v \in S
    PROVE  [s EXCEPT ![x] = v] \in Seq(S)
<1>1. s \in [1..Len(s) -> S] /\ Len(s) \in Nat
  OBVIOUS
<1>2. [s EXCEPT ![x] = v] \in [1..Len(s) -> S]
  BY <1>1
<1> QED BY <1>1, <1>2

LEMMA Numbers ==
    TypeOK => /\ made \in Nat /\ made <= MaxEntries /\ MaxEntries \in Nat
              /\ alive \in SUBSET (1..made) /\ 1..made \in SUBSET Entry /\ Entry \in SUBSET Nat
BY AuditAssumption DEF TypeOK, Entry, AuditAssumption

----------------------------------------------------------------------------
(* Recording. *)

LEMMA RecordKept ==
    ASSUME EvidenceInv, NEW w \in Writers, BeginRecord(w) \/ CommitRecord(w) \/ RecordFails(w)
    PROVE  EvidenceInv'
<1>0. TypeOK
  BY DEF EvidenceInv
<1>1. CASE BeginRecord(w) \/ RecordFails(w)
  <2>1. UNCHANGED <<rows, expired, anchors, seals, pushing, anchorer, keeper, outbox, lost>>
    BY <1>1 DEF BeginRecord, RecordFails
  <2>2. writer' \in [Writers -> 0..MaxEntries \cup {Free}]
    BY <1>0, <1>1, ChainEndType DEF BeginRecord, RecordFails, TypeOK
  <2> QED BY <2>1, <2>2 DEF EvidenceInv, TypeOK, SentArrived, PassesInOrder, IdleRests, WalkSettled, Queued, rows, outbox
<1>2. CASE CommitRecord(w)
  <2>1. /\ made' = made + 1 /\ alive' = alive \cup {made + 1} /\ made + 1 \in Entry /\ made < MaxEntries
        /\ mark' = [mark EXCEPT ![made + 1] = NewMark]
        /\ prev' = [prev EXCEPT ![made + 1] = writer[w]]
        /\ writer' = [writer EXCEPT ![w] = Free] /\ writer[w] # Free
        /\ UNCHANGED <<expired, anchors, seals, pushing, anchorer, keeper, outbox, lost>>
    BY <1>0, <1>2, Numbers DEF CommitRecord, Entry
  <2>2. /\ \A e \in 1..made : mark'[e] = mark[e]
        /\ mark'[made + 1] \in {"pending", "skipped"}
        /\ mark' \in [Entry -> {"pending", "sent", "skipped"}]
    BY <1>0, <2>1, Numbers DEF TypeOK, NewMark
  <2>3. TypeOK'
    <3>1. made' \in 0..MaxEntries
      BY <1>0, <2>1, Numbers
    <3>2. alive' \subseteq 1..made'
      BY <1>0, <2>1, Numbers
    <3>3. expired' \subseteq 1..made'
      <4>1. expired \subseteq 1..made
        BY <1>0 DEF TypeOK
      <4> QED BY <1>0, <2>1, <4>1, Numbers
    <3>4. prev' \in [Entry -> 0..MaxEntries] /\ writer' \in [Writers -> 0..MaxEntries \cup {Free}]
      BY <1>0, <2>1 DEF TypeOK
    <3> QED BY <1>0, <2>1, <2>2, <3>1, <3>2, <3>3, <3>4 DEF TypeOK, outbox
  <2>4. Queued \subseteq Queued' /\ Queued' \subseteq Queued \cup {made + 1}
    BY <1>0, <2>1, <2>2, Numbers DEF Queued
  <2>5. SentArrived'
    BY <1>0, <2>1, <2>2, Numbers DEF EvidenceInv, SentArrived, outbox
  <2>6. PassesInOrder'
    <3> SUFFICES ASSUME NEW c \in Couriers, courier[c].phase = "entries"
                 PROVE  /\ courier[c].todo \subseteq Queued'
                        /\ \A f \in alive' \cap Queued' :
                              f \in arrived.entries \/ f \in courier[c].todo \/ \A x \in courier[c].todo : x < f
                        /\ courier[c].sent => courier[c].todo # {} /\ Foremost(courier[c].todo) \in arrived.entries
      BY <2>1 DEF PassesInOrder, outbox
    <3>1. courier[c].todo \subseteq Queued
      BY DEF EvidenceInv, PassesInOrder
    <3>2. \A x \in courier[c].todo : x < made + 1
      BY <1>0, <3>1, Numbers DEF Queued
    <3> QED BY <2>1, <2>4, <3>1, <3>2 DEF EvidenceInv, PassesInOrder
  <2>7. WalkSettled'
    <3> SUFFICES ASSUME keeper # NoWalk
                 PROVE  /\ keeper.boundary \in 1..made' /\ keeper.count \in Nat \ {0}
                        /\ pushing => \A e \in alive' : e <= keeper.boundary => mark'[e] # "pending"
      BY <2>1 DEF WalkSettled
    <3>1. keeper.boundary \in 1..made /\ keeper.count \in Nat \ {0}
      BY DEF EvidenceInv, WalkSettled
    <3>2. ~ (made + 1 <= keeper.boundary)
      BY <1>0, <3>1, Numbers
    <3>3. \A e \in alive : e \in 1..made
      BY <1>0, Numbers
    <3>4. keeper.boundary \in 1..made'
      BY <1>0, <2>1, <3>1, Numbers
    <3> QED BY <2>1, <2>2, <3>1, <3>2, <3>3, <3>4 DEF EvidenceInv, WalkSettled
  <2>8. IdleRests'
    BY <2>1 DEF EvidenceInv, IdleRests, outbox
  <2> QED BY <2>3, <2>5, <2>6, <2>7, <2>8 DEF EvidenceInv
<1> QED BY <1>1, <1>2

----------------------------------------------------------------------------
(* Checkpoints, retention and the process. *)

\* Fewer rows, and nothing else that the promise speaks of.
LEMMA FewerRows ==
    ASSUME EvidenceInv, TypeOK', alive' \subseteq alive, UNCHANGED <<made, mark, pushing, courier, arrived>>,
           keeper' = keeper \/ keeper' = NoWalk
    PROVE  EvidenceInv'
<1>1. Queued' = Queued
  BY DEF Queued
<1>2. SentArrived' /\ PassesInOrder' /\ IdleRests'
  BY <1>1 DEF EvidenceInv, SentArrived, PassesInOrder, IdleRests
<1>3. WalkSettled'
  BY DEF EvidenceInv, WalkSettled
<1> QED BY <1>2, <1>3 DEF EvidenceInv

LEMMA AnchorKept == ASSUME EvidenceInv, BeginAnchor \/ CommitAnchor PROVE EvidenceInv'
<1>0. TypeOK
  BY DEF EvidenceInv
<1>1. CASE BeginAnchor
  <2>1. anchorer' \in 0..MaxEntries
    <3>1. anchorer' = MaxOf(alive) /\ alive # {}
      BY <1>1 DEF BeginAnchor
    <3>2. MaxOf(alive) \in 1..made
      BY <1>0, <3>1, Numbers, Greatest
    <3> QED BY <1>0, <3>1, <3>2, Numbers
  <2>2. TypeOK'
    BY <1>0, <1>1, <2>1 DEF BeginAnchor, TypeOK, rows, outbox
  <2> QED BY <1>1, <2>2, FewerRows DEF BeginAnchor, rows, outbox
<1>2. CASE CommitAnchor
  <2> DEFINE Anchor == [last : Entry, count : Nat, delivered : BOOLEAN]
             new    == [last |-> anchorer, count |-> Cardinality(alive), delivered |-> ~pushing]
  <2>1. anchors' = Append(anchors, new) /\ anchorer' = Genesis
    BY <1>2 DEF CommitAnchor
  <2>2. new \in Anchor
    <3>1. Cardinality(alive) \in Nat
      BY <1>0, AliveFinite, FS_CardinalityType
    <3>2. anchorer \in Entry
      BY <1>0, <1>2, Numbers DEF CommitAnchor, Genesis, TypeOK, Entry
    <3> QED BY <1>0, <3>1, <3>2 DEF TypeOK
  <2>3. anchors' \in Seq(Anchor)
    <3>1. anchors \in Seq(Anchor)
      BY <1>0 DEF TypeOK
    <3> HIDE DEF Anchor, new
    <3> QED BY <2>1, <2>2, <3>1
  <2>4. UNCHANGED <<rows, expired, seals, pushing, writer, keeper, outbox, lost>> /\ anchorer' = 0
    BY <1>2 DEF CommitAnchor, Genesis
  <2>5. anchorer' \in 0..MaxEntries
    BY <1>0, <2>4, Numbers
  <2>6. TypeOK'
    BY <1>0, <2>3, <2>4, <2>5 DEF TypeOK, rows, outbox
  <2> QED BY <2>4, <2>6, FewerRows DEF rows, outbox
<1> QED BY <1>1, <1>2

LEMMA CollapseKept == ASSUME EvidenceInv, BeginCollapse \/ CommitCollapse PROVE EvidenceInv'
<1>0. TypeOK
  BY DEF EvidenceInv
<1>1. CASE BeginCollapse
  <2>1. /\ keeper' = [boundary |-> MaxOf(Collapsible), count |-> Cardinality(Collapsible)]
        /\ UNCHANGED <<rows, expired, anchors, seals, pushing, writer, anchorer, outbox, lost>>
        /\ Collapsible # {}
    BY <1>1 DEF BeginCollapse
  <2>2. Collapsible \in SUBSET alive
    BY DEF Collapsible
  <2>3. MaxOf(Collapsible) \in Collapsible /\ MaxOf(Collapsible) \in 1..made
    BY <1>0, <2>1, <2>2, Numbers, Greatest
  <2>4. Cardinality(Collapsible) \in Nat \ {0}
    BY <1>0, <2>1, <2>2, AliveFinite, FS_CardinalityType, FS_EmptySet
  <2>5. TypeOK'
    <3>1. keeper' \in [boundary : 0..MaxEntries, count : Nat]
      <4>1. MaxOf(Collapsible) \in 0..MaxEntries
        BY <1>0, <2>3, Numbers
      <4> QED BY <2>1, <2>4, <4>1
    <3> QED BY <1>0, <2>1, <3>1 DEF TypeOK, rows, outbox
  <2>6. ASSUME pushing, NEW e \in alive, e <= MaxOf(Collapsible) PROVE mark[e] # "pending"
    BY <2>3, <2>6 DEF Collapsible
  <2>7. WalkSettled'
    BY <2>1, <2>3, <2>4, <2>6 DEF WalkSettled, rows
  <2> QED BY <2>1, <2>5, <2>7 DEF EvidenceInv, SentArrived, PassesInOrder, IdleRests, Queued, rows, outbox
<1>2. CASE CommitCollapse
  <2> DEFINE Seal == [boundary : Entry, count : Nat \ {0}, delivered : BOOLEAN]
             new  == [boundary |-> keeper.boundary, count |-> keeper.count, delivered |-> ~pushing]
  <2>1. /\ keeper # NoWalk /\ keeper' = NoWalk /\ seals' = Append(seals, new)
        /\ alive' = {e \in alive : e > keeper.boundary}
        /\ UNCHANGED <<made, prev, mark, expired, anchors, pushing, writer, anchorer, outbox, lost>>
    BY <1>2 DEF CommitCollapse
  <2>2. new \in Seal
    BY <1>0, <2>1, Numbers DEF EvidenceInv, WalkSettled, TypeOK
  <2>3. seals' \in Seq(Seal)
    <3>1. seals \in Seq(Seal)
      BY <1>0 DEF TypeOK
    <3> HIDE DEF Seal, new
    <3> QED BY <2>1, <2>2, <3>1
  <2>4. keeper' \in [boundary : 0..MaxEntries, count : Nat]
    BY <1>0, <2>1, Numbers DEF NoWalk, Genesis
  <2>5. alive' \subseteq alive /\ UNCHANGED <<made, prev, mark, expired, anchors, pushing, writer, anchorer, outbox, lost>>
    BY <2>1
  <2>6. TypeOK'
    BY <1>0, <2>3, <2>4, <2>5 DEF TypeOK, outbox
  <2> QED BY <2>1, <2>5, <2>6, FewerRows DEF outbox
<1> QED BY <1>1, <1>2

LEMMA AgeKept == ASSUME EvidenceInv, NEW e \in Entry, Age(e) PROVE EvidenceInv'
<1>1. TypeOK'
  BY DEF EvidenceInv, TypeOK, Age, rows, outbox
<1> QED BY <1>1, FewerRows DEF Age, rows, outbox

LEMMA LossKept == ASSUME EvidenceInv, NEW k \in 0..MaxEntries, LoseTail(k) PROVE EvidenceInv'
<1>0. TypeOK
  BY DEF EvidenceInv
<1>1. lost' \in [entries : SUBSET Entry, anchors : Nat, seals : Nat]
  <2>1. {e \in alive : e > k} \in SUBSET Entry
    BY <1>0, Numbers
  <2>2. Len(anchors) \in Nat /\ Len(seals) \in Nat
    BY <1>0 DEF TypeOK
  <2> QED BY <2>1, <2>2 DEF LoseTail
<1>2. /\ alive' \subseteq alive
      /\ UNCHANGED <<made, prev, mark, expired, anchors, seals, pushing, writer, anchorer, keeper, outbox>>
  BY DEF LoseTail
<1>3. TypeOK'
  BY <1>0, <1>1, <1>2 DEF TypeOK, outbox
<1> QED BY <1>2, <1>3, FewerRows DEF outbox

LEMMA RestartKept == ASSUME EvidenceInv, Restart PROVE EvidenceInv'
<1>1. /\ pushing' \in BOOLEAN /\ writer' = [w \in Writers |-> Free] /\ anchorer' = Genesis
      /\ keeper' = NoWalk /\ courier' = [c \in Couriers |-> NoPass]
      /\ UNCHANGED <<made, alive, prev, mark, expired, anchors, seals, arrived, lost>>
  BY DEF Restart, rows
<1>2. anchorer' \in 0..MaxEntries /\ keeper' \in [boundary : 0..MaxEntries, count : Nat]
  BY <1>1, Numbers DEF EvidenceInv, Genesis, NoWalk
<1>3. TypeOK'
  BY <1>1, <1>2 DEF EvidenceInv, TypeOK, NoPass
<1>4. SentArrived' /\ WalkSettled' /\ PassesInOrder' /\ IdleRests'
  BY <1>1 DEF EvidenceInv, SentArrived, WalkSettled, PassesInOrder, IdleRests, NoPass
<1> QED BY <1>3, <1>4 DEF EvidenceInv

----------------------------------------------------------------------------
(* Delivery. *)

Pass == [phase : {"idle", "entries", "anchors", "seals"}, todo : SUBSET Nat, sent : BOOLEAN, fresh : BOOLEAN]

LEMMA WaitingType ==
    TypeOK => /\ Waiting("entries") = {e \in alive : mark[e] = "pending"}
              /\ \A phase \in {"entries", "anchors", "seals"} : Fetched(phase) \in SUBSET Nat
<1> SUFFICES ASSUME TypeOK
             PROVE  /\ Waiting("entries") = {e \in alive : mark[e] = "pending"}
                    /\ \A phase \in {"entries", "anchors", "seals"} : Fetched(phase) \in SUBSET Nat
  OBVIOUS
<1>1. Waiting("entries") = {e \in alive : mark[e] = "pending"}
  BY DEF Waiting
<1>2. Waiting("anchors") \in SUBSET Nat
  <2>1. DOMAIN anchors \in SUBSET Nat
    BY DEF TypeOK
  <2>2. Waiting("anchors") = {i \in DOMAIN anchors : ~anchors[i].delivered}
    BY DEF Waiting
  <2> QED BY <2>1, <2>2
<1>3. Waiting("seals") \in SUBSET Nat
  <2>1. DOMAIN seals \in SUBSET Nat
    BY DEF TypeOK
  <2>2. Waiting("seals") = {i \in DOMAIN seals : ~seals[i].delivered}
    BY DEF Waiting
  <2> QED BY <2>1, <2>2
<1>4. \A phase : Fetched(phase) \subseteq Waiting(phase)
  BY DEF Fetched
<1> QED BY <1>1, <1>2, <1>3, <1>4, Numbers

\* A batch is the oldest of what waits.
LEMMA OldestFirst ==
    ASSUME TypeOK, NEW f \in Waiting("entries"), f \notin Fetched("entries")
    PROVE  \A x \in Fetched("entries") : x < f
<1> SUFFICES ASSUME NEW x \in Fetched("entries") PROVE x < f
  OBVIOUS
<1> DEFINE W == Waiting("entries")
           Below(n) == {y \in W : y < n}
<1>1. W \in SUBSET alive /\ W \in SUBSET Nat
  BY WaitingType, Numbers
<1>2. x \in W /\ Cardinality(Below(x)) < Batch
  BY DEF Fetched
<1>3. ~ (Cardinality(Below(f)) < Batch)
  BY DEF Fetched
<1>4. IsFiniteSet(Below(x)) /\ IsFiniteSet(Below(f))
  BY <1>1, AliveFinite
<1>5. CASE f <= x
  <2>1. Below(f) \in SUBSET Below(x)
    BY <1>1, <1>2, <1>5
  <2>2. Cardinality(Below(f)) <= Cardinality(Below(x))
    <3> HIDE DEF Below
    <3> QED BY <1>4, <2>1, FS_Subset
  <2>3. Cardinality(Below(f)) \in Nat /\ Cardinality(Below(x)) \in Nat /\ Batch \in Nat
    BY <1>4, FS_CardinalityType, AuditAssumption DEF AuditAssumption
  <2> HIDE DEF Below
  <2> QED BY <1>2, <1>3, <2>2, <2>3
<1>6. CASE ~ (f <= x)
  BY <1>1, <1>2, <1>6
<1> QED BY <1>5, <1>6

AnchorRow == [last : Entry, count : Nat, delivered : BOOLEAN]
SealRow   == [boundary : Entry, count : Nat \ {0}, delivered : BOOLEAN]

\* A pass has changed; items may have arrived, and what arrived may be marked.
LEMMA PassKept ==
    ASSUME EvidenceInv, NEW c \in Couriers, NEW pass \in Pass, courier' = [courier EXCEPT ![c] = pass],
           UNCHANGED <<made, alive, prev, expired, pushing, writer, anchorer, keeper, lost>>,
           anchors' \in Seq(AnchorRow), seals' \in Seq(SealRow),
           arrived' \in [entries : SUBSET Entry, anchors : SUBSET Nat, seals : SUBSET Nat],
           arrived.entries \subseteq arrived'.entries,
           mark' \in [Entry -> {"pending", "sent", "skipped"}],
           \A e \in 1..made : \/ mark'[e] = mark[e]
                              \/ mark'[e] = "sent" /\ mark[e] # "skipped" /\ e \in arrived'.entries,
           pass.phase = "idle" => pass.todo = {},
           pass.phase = "entries" =>
              /\ pass.todo \subseteq Queued
              /\ \A f \in alive \cap Queued :
                    f \in arrived'.entries \/ f \in pass.todo \/ \A x \in pass.todo : x < f
              /\ pass.sent => pass.todo # {} /\ Foremost(pass.todo) \in arrived'.entries
    PROVE  EvidenceInv'
<1>1. courier \in [Couriers -> Pass]
  BY DEF EvidenceInv, TypeOK, Pass
<1>2. courier' \in [Couriers -> Pass]
  BY <1>1
<1>3. TypeOK'
  BY <1>2 DEF EvidenceInv, TypeOK, Pass, AnchorRow, SealRow
<1>4. Queued' = Queued
  BY DEF Queued
<1>5. PassesInOrder'
  <2> SUFFICES ASSUME NEW d \in Couriers, courier'[d].phase = "entries"
               PROVE  /\ courier'[d].todo \subseteq Queued
                      /\ \A f \in alive \cap Queued :
                            f \in arrived'.entries \/ f \in courier'[d].todo \/ \A x \in courier'[d].todo : x < f
                      /\ courier'[d].sent => courier'[d].todo # {} /\ Foremost(courier'[d].todo) \in arrived'.entries
    BY <1>4 DEF PassesInOrder
  <2>1. CASE d = c
    <3>1. courier'[d] = pass
      BY <1>1, <2>1
    <3> QED BY <3>1
  <2>2. CASE d # c
    <3>1. courier'[d] = courier[d]
      BY <1>1, <2>2
    <3> QED BY <3>1 DEF EvidenceInv, PassesInOrder
  <2> QED BY <2>1, <2>2
<1>6. SentArrived'
  BY DEF EvidenceInv, SentArrived
<1>7. WalkSettled'
  <2>1. alive \subseteq 1..made
    BY DEF EvidenceInv, TypeOK
  <2> QED BY <2>1 DEF EvidenceInv, WalkSettled
<1>8. IdleRests'
  BY <1>1 DEF EvidenceInv, IdleRests
<1> QED BY <1>3, <1>5, <1>6, <1>7, <1>8 DEF EvidenceInv

LEMMA Tables ==
    EvidenceInv =>
        /\ anchors \in Seq(AnchorRow) /\ seals \in Seq(SealRow)
        /\ arrived \in [entries : SUBSET Entry, anchors : SUBSET Nat, seals : SUBSET Nat]
        /\ mark \in [Entry -> {"pending", "sent", "skipped"}]
        /\ \A c \in Couriers : courier[c] \in Pass
BY DEF EvidenceInv, TypeOK, AnchorRow, SealRow, Pass

LEMMA FetchKept ==
    ASSUME EvidenceInv, NEW c \in Couriers, NEW phase \in {"entries", "anchors", "seals"}, Fetch(c, phase),
           UNCHANGED <<rows, expired, anchors, seals, pushing, writer, anchorer, keeper, arrived, lost>>
    PROVE  EvidenceInv'
<1> DEFINE pass == [phase |-> phase, todo |-> Fetched(phase), sent |-> FALSE, fresh |-> TRUE]
<1>0. TypeOK
  BY DEF EvidenceInv
<1>1. courier' = [courier EXCEPT ![c] = pass]
  BY DEF Fetch
<1>2. pass \in Pass
  BY <1>0, WaitingType DEF Pass
<1>3. Fetched("entries") \subseteq Queued
  BY <1>0, WaitingType, Numbers DEF Fetched, Queued
<1>4. ASSUME NEW f \in alive \cap Queued, f \notin arrived.entries, f \notin Fetched("entries")
      PROVE  \A x \in Fetched("entries") : x < f
  <2>1. mark[f] = "pending"
    BY <1>0, <1>4, Numbers DEF EvidenceInv, SentArrived, Queued, TypeOK
  <2> QED BY <1>0, <1>4, <2>1, WaitingType, OldestFirst
<1>5. phase = "entries" =>
        /\ pass.todo \subseteq Queued
        /\ \A f \in alive \cap Queued :
              f \in arrived.entries \/ f \in pass.todo \/ \A x \in pass.todo : x < f
        /\ pass.sent => pass.todo # {} /\ Foremost(pass.todo) \in arrived.entries
  BY <1>3, <1>4
<1>6. pass.phase = phase
  OBVIOUS
<1> HIDE DEF pass
<1> QED BY <1>1, <1>2, <1>5, <1>6, PassKept, Tables DEF rows

\* An item that is next in an outbox arrives, or does not.
LEMMA Arrivals ==
    ASSUME EvidenceInv, NEW c \in Couriers, courier[c].todo # {}
    PROVE  LET pass == courier[c]
               new  == [arrived EXCEPT ![pass.phase] = @ \cup {Foremost(pass.todo)}]
           IN  /\ Foremost(pass.todo) \in pass.todo
               /\ new \in [entries : SUBSET Entry, anchors : SUBSET Nat, seals : SUBSET Nat]
               /\ arrived.entries \subseteq new.entries
               /\ pass.phase = "entries" => new.entries = arrived.entries \cup {Foremost(pass.todo)}
               /\ pass.phase # "entries" => new.entries = arrived.entries
<1> DEFINE x == Foremost(courier[c].todo)
<1>1. courier[c] \in Pass
  BY Tables
<1>2. x \in courier[c].todo /\ x \in Nat
  BY <1>1, Least DEF Pass, Foremost
<1>3. courier[c].phase = "entries" => x \in Entry
  <2>1. Queued \subseteq Entry
    BY Numbers DEF EvidenceInv, Queued
  <2> QED BY <1>2, <2>1 DEF EvidenceInv, PassesInOrder
<1>4. courier[c].phase \in {"entries", "anchors", "seals"}
  BY <1>1 DEF Pass, EvidenceInv, IdleRests
<1>5. arrived \in [entries : SUBSET Entry, anchors : SUBSET Nat, seals : SUBSET Nat]
  BY Tables
<1> HIDE DEF x
<1>6. CASE courier[c].phase = "entries"
  BY <1>2, <1>3, <1>5, <1>6 DEF x
<1>7. CASE courier[c].phase = "anchors"
  BY <1>2, <1>5, <1>7 DEF x
<1>8. CASE courier[c].phase = "seals"
  BY <1>2, <1>5, <1>8 DEF x
<1> QED BY <1>4, <1>6, <1>7, <1>8 DEF x

LEMMA DeliverKept == ASSUME EvidenceInv, NEW c \in Couriers, Deliver(c) PROVE EvidenceInv'
<1> DEFINE x == Foremost(courier[c].todo)
<1>0. TypeOK /\ courier[c] \in Pass
  BY Tables DEF EvidenceInv
<1>1. CASE StartPass(c)
  BY <1>1, FetchKept DEF StartPass
<1>2. CASE NextOutbox(c)
  <2>1. UNCHANGED <<rows, expired, anchors, seals, pushing, writer, anchorer, keeper, arrived, lost>>
    BY <1>2 DEF NextOutbox
  <2>2. CASE Fetch(c, "anchors") \/ Fetch(c, "seals")
    BY <2>1, <2>2, FetchKept
  <2>3. CASE courier' = [courier EXCEPT ![c] = NoPass]
    BY <2>1, <2>3, PassKept, Tables DEF rows, NoPass, Pass
  <2> QED BY <1>2, <2>2, <2>3 DEF NextOutbox
<1>3. CASE Send(c)
  <2> DEFINE pass == [courier[c] EXCEPT !.sent = TRUE]
  <2>1. /\ courier[c].todo # {} /\ courier' = [courier EXCEPT ![c] = pass]
        /\ arrived' = [arrived EXCEPT ![courier[c].phase] = @ \cup {x}]
        /\ UNCHANGED <<rows, expired, anchors, seals, pushing, writer, anchorer, keeper, lost>>
    BY <1>3 DEF Send
  <2>2. pass \in Pass /\ pass.phase = courier[c].phase /\ pass.todo = courier[c].todo
    BY <1>0 DEF Pass
  <2>3. /\ arrived' \in [entries : SUBSET Entry, anchors : SUBSET Nat, seals : SUBSET Nat]
        /\ arrived.entries \subseteq arrived'.entries
        /\ courier[c].phase = "entries" => x \in arrived'.entries
    BY <2>1, Arrivals
  <2>4. pass.phase = "entries" =>
          /\ pass.todo \subseteq Queued
          /\ \A f \in alive \cap Queued :
                f \in arrived'.entries \/ f \in pass.todo \/ \A y \in pass.todo : y < f
          /\ pass.sent => pass.todo # {} /\ Foremost(pass.todo) \in arrived'.entries
    BY <2>1, <2>2, <2>3 DEF EvidenceInv, PassesInOrder
  <2>5. pass.phase = "idle" => pass.todo = {}
    BY <2>2 DEF EvidenceInv, IdleRests
  <2> HIDE DEF pass
  <2> QED BY <2>1, <2>2, <2>3, <2>4, <2>5, PassKept, Tables DEF rows
<1>4. CASE SendFails(c)
  <2> DEFINE pass == [courier[c] EXCEPT !.todo = {}, !.sent = FALSE]
  <2>1. /\ courier[c].todo # {} /\ courier' = [courier EXCEPT ![c].todo = {}] /\ ~courier[c].sent
        /\ arrived' \in {arrived, [arrived EXCEPT ![courier[c].phase] = @ \cup {x}]}
        /\ UNCHANGED <<rows, expired, anchors, seals, pushing, writer, anchorer, keeper, lost>>
    BY <1>4 DEF SendFails
  <2>2. pass \in Pass /\ pass.todo = {} /\ pass.sent = FALSE
    BY <1>0 DEF Pass
  <2>3. courier' = [courier EXCEPT ![c] = pass]
    BY <1>0, <2>1 DEF Pass
  <2>4. /\ arrived' \in [entries : SUBSET Entry, anchors : SUBSET Nat, seals : SUBSET Nat]
        /\ arrived.entries \subseteq arrived'.entries
    BY <2>1, Arrivals, Tables
  <2> HIDE DEF pass
  <2> QED BY <2>1, <2>2, <2>3, <2>4, PassKept, Tables DEF rows
<1>5. CASE Acknowledge(c)
  <2> DEFINE pass == [courier[c] EXCEPT !.todo = @ \ {x}, !.sent = FALSE, !.fresh = FALSE]
  <2>1. /\ courier[c].sent
        /\ mark' = IF courier[c].phase = "entries" THEN [mark EXCEPT ![x] = "sent"] ELSE mark
        /\ anchors' = IF courier[c].phase = "anchors" THEN [anchors EXCEPT ![x].delivered = TRUE] ELSE anchors
        /\ seals' = IF courier[c].phase = "seals" THEN [seals EXCEPT ![x].delivered = TRUE] ELSE seals
        /\ courier' = [courier EXCEPT ![c] = pass]
        /\ UNCHANGED <<made, alive, prev, expired, pushing, writer, anchorer, keeper, arrived, lost>>
    BY <1>5 DEF Acknowledge
  <2>2. /\ pass \in Pass /\ pass.phase = courier[c].phase /\ pass.todo = courier[c].todo \ {x}
        /\ pass.sent = FALSE
    BY <1>0 DEF Pass
  <2>3. courier[c].phase = "entries" => x \in Queued /\ x \in arrived.entries
    <3>1. courier[c].phase = "entries" => courier[c].todo # {} /\ x \in arrived.entries /\ courier[c].todo \subseteq Queued
      BY <2>1 DEF EvidenceInv, PassesInOrder
    <3> QED BY <3>1, Arrivals
  <2>4. mark' \in [Entry -> {"pending", "sent", "skipped"}]
    BY <2>1, Tables
  <2>5. \A e \in 1..made : \/ mark'[e] = mark[e]
                           \/ mark'[e] = "sent" /\ mark[e] # "skipped" /\ e \in arrived'.entries
    BY <1>0, <2>1, <2>3, Tables, Numbers DEF Queued
  <2>6. anchors' \in Seq(AnchorRow)
    <3>1. CASE courier[c].phase = "anchors"
      <4>1. anchors' = [anchors EXCEPT ![x] = [anchors[x] EXCEPT !.delivered = TRUE]]
        BY <2>1, <3>1
      <4> HIDE DEF x
      <4>2. x \in DOMAIN anchors => anchors[x] \in AnchorRow
        BY Tables
      <4>3. \A row \in AnchorRow : [row EXCEPT !.delivered = TRUE] \in AnchorRow
        BY DEF AnchorRow
      <4> QED BY <4>1, <4>2, <4>3, Tables, Delivery
    <3> QED BY <2>1, <3>1, Tables
  <2>7. seals' \in Seq(SealRow)
    <3>1. CASE courier[c].phase = "seals"
      <4>1. seals' = [seals EXCEPT ![x] = [seals[x] EXCEPT !.delivered = TRUE]]
        BY <2>1, <3>1
      <4> HIDE DEF x
      <4>2. x \in DOMAIN seals => seals[x] \in SealRow
        BY Tables
      <4>3. \A row \in SealRow : [row EXCEPT !.delivered = TRUE] \in SealRow
        BY DEF SealRow
      <4> QED BY <4>1, <4>2, <4>3, Tables, Delivery
    <3> QED BY <2>1, <3>1, Tables
  <2>8. pass.phase = "entries" =>
          /\ pass.todo \subseteq Queued
          /\ \A f \in alive \cap Queued :
                f \in arrived'.entries \/ f \in pass.todo \/ \A y \in pass.todo : y < f
    BY <2>1, <2>2, <2>3 DEF EvidenceInv, PassesInOrder
  <2>9. pass.phase = "idle" => pass.todo = {}
    BY <2>2 DEF EvidenceInv, IdleRests
  <2> HIDE DEF pass, x
  <2> QED BY <2>1, <2>2, <2>4, <2>5, <2>6, <2>7, <2>8, <2>9, PassKept, Tables
<1>6. CASE AbortPass(c)
  BY <1>6, PassKept, Tables DEF AbortPass, rows, NoPass, Pass
<1> QED BY <1>1, <1>2, <1>3, <1>4, <1>5, <1>6 DEF Deliver

----------------------------------------------------------------------------
(* The invariant. *)

LEMMA InvariantStarts == Init => EvidenceInv
<1> SUFFICES ASSUME Init PROVE EvidenceInv
  OBVIOUS
<1>1. TypeOK
  <2>1. 0 \in 0..MaxEntries /\ MaxEntries \in Nat
    BY AuditAssumption DEF AuditAssumption
  <2>2. <<>> \in Seq(AnchorRow) /\ <<>> \in Seq(SealRow)
    OBVIOUS
  <2> QED BY <2>1, <2>2 DEF Init, TypeOK, NoWalk, NoPass, NoLoss, Genesis, AnchorRow, SealRow
<1>2. SentArrived /\ PassesInOrder /\ IdleRests /\ WalkSettled
  BY DEF Init, SentArrived, PassesInOrder, IdleRests, WalkSettled, NoPass
<1> QED BY <1>1, <1>2 DEF EvidenceInv

LEMMA InvariantKept == EvidenceInv /\ [Next]_vars => EvidenceInv'
<1> SUFFICES ASSUME EvidenceInv, [Next]_vars PROVE EvidenceInv'
  OBVIOUS
<1>1. CASE UNCHANGED vars
  BY <1>1 DEF vars, EvidenceInv, TypeOK, SentArrived, PassesInOrder, IdleRests, WalkSettled, Queued
<1> QED
  BY <1>1, RecordKept, AnchorKept, CollapseKept, AgeKept, DeliverKept, RestartKept, LossKept DEF Next

LEMMA Invariant == Spec => []EvidenceInv
BY InvariantStarts, InvariantKept, PTL DEF Spec

----------------------------------------------------------------------------
(* Every step is one of EvidenceLog, or none. *)

LEMMA WriteMaps ==
    ASSUME EvidenceInv, NEW w \in Writers, CommitRecord(w)
    PROVE  Evidence!Write
<1>1. /\ made' = made + 1 /\ alive' = alive \cup {made + 1} /\ mark' = [mark EXCEPT ![made + 1] = NewMark]
      /\ made \in Nat /\ made + 1 \in Entry
      /\ UNCHANGED <<arrived, pushing>>
  BY Numbers DEF CommitRecord, outbox, EvidenceInv, Entry
<1>2. \A e \in 1..made : mark'[e] = mark[e]
  BY <1>1, Tables, Numbers DEF EvidenceInv
<1>3. mark'[made + 1] = IF pushing THEN "pending" ELSE "skipped"
  BY <1>1, Tables DEF NewMark
<1>4. {e \in 1..made' : mark'[e] # "skipped"}
        = IF pushing THEN {e \in 1..made : mark[e] # "skipped"} \cup {made'}
          ELSE {e \in 1..made : mark[e] # "skipped"}
  <2>1. 1..made' = (1..made) \cup {made'}
    BY <1>1
  <2> QED BY <1>1, <1>2, <1>3, <2>1
<1> QED BY <1>1, <1>4 DEF Evidence!Write

LEMMA ForgetMaps == ASSUME EvidenceInv, CommitCollapse PROVE Evidence!Forget
<1>1. /\ keeper.boundary \in 1..made /\ alive' = {e \in alive : e > keeper.boundary}
      /\ pushing => \A e \in alive : e <= keeper.boundary => mark[e] # "pending"
      /\ UNCHANGED <<made, mark, pushing, arrived>>
  BY DEF CommitCollapse, EvidenceInv, WalkSettled, outbox
<1>2. ASSUME pushing, NEW e \in (alive \ alive') \cap Queued PROVE e \in arrived.entries
  <2>1. e \in 1..made /\ e \in alive /\ mark[e] # "skipped"
    BY <1>2 DEF Queued
  <2>2. e <= keeper.boundary
    BY <1>1, <1>2, <2>1, Numbers DEF EvidenceInv
  <2>3. mark[e] = "sent"
    BY <1>1, <1>2, <2>1, <2>2, Tables, Numbers DEF EvidenceInv
  <2> QED BY <2>1, <2>3 DEF EvidenceInv, SentArrived
<1> QED BY <1>1, <1>2 DEF Evidence!Forget, Queued

\* The first arrival of an entry comes when everything older has arrived.
LEMMA ArriveMaps ==
    ASSUME EvidenceInv, NEW c \in Couriers, courier[c].todo # {}, courier[c].phase = "entries",
           arrived'.entries = arrived.entries \cup {Foremost(courier[c].todo)},
           UNCHANGED <<made, alive, mark, pushing>>
    PROVE  Evidence!Arrive \/ arrived'.entries = arrived.entries
<1> DEFINE x == Foremost(courier[c].todo)
<1>1. x \in courier[c].todo /\ \A y \in courier[c].todo : x <= y
  BY Tables, Least DEF Pass, Foremost
<1>2. courier[c].todo \subseteq Queued
  BY DEF EvidenceInv, PassesInOrder
<1>3. ASSUME NEW f \in alive \cap Queued, f < x PROVE f \in arrived.entries
  <2>1. f \notin courier[c].todo /\ ~ (x < f)
    BY <1>1, <1>2, <1>3, Numbers DEF EvidenceInv, Queued
  <2> HIDE DEF x
  <2> QED BY <1>1, <2>1 DEF EvidenceInv, PassesInOrder
<1>4. CASE x \in arrived.entries
  BY <1>4
<1>5. CASE x \notin arrived.entries
  <2>1. x \in Queued \ arrived.entries
    BY <1>1, <1>2, <1>5
  <2> HIDE DEF x
  <2> QED BY <1>3, <2>1 DEF Evidence!Arrive, Queued, x
<1> QED BY <1>4, <1>5

LEMMA NothingMaps ==
    ASSUME UNCHANGED <<made, alive, mark, pushing>>, arrived'.entries = arrived.entries
    PROVE  UNCHANGED Evidence!vars
BY DEF Evidence!vars

LEMMA DeliverMaps ==
    ASSUME EvidenceInv, NEW c \in Couriers, Deliver(c)
    PROVE  Evidence!Arrive \/ UNCHANGED Evidence!vars
<1>1. CASE StartPass(c) \/ NextOutbox(c) \/ AbortPass(c)
  BY <1>1, NothingMaps DEF StartPass, NextOutbox, AbortPass, rows
<1>2. CASE Send(c) \/ SendFails(c)
  <2>1. /\ courier[c].todo # {} /\ UNCHANGED <<made, alive, mark, pushing>>
        /\ \/ arrived' = arrived
           \/ arrived' = [arrived EXCEPT ![courier[c].phase] = @ \cup {Foremost(courier[c].todo)}]
    BY <1>2 DEF Send, SendFails, rows
  <2>2. \/ arrived'.entries = arrived.entries
        \/ courier[c].phase = "entries" /\ arrived'.entries = arrived.entries \cup {Foremost(courier[c].todo)}
    BY <2>1, Arrivals
  <2> QED BY <2>1, <2>2, ArriveMaps, NothingMaps
<1>3. CASE Acknowledge(c)
  <2> DEFINE x == Foremost(courier[c].todo)
  <2>1. /\ courier[c].sent
        /\ mark' = IF courier[c].phase = "entries" THEN [mark EXCEPT ![x] = "sent"] ELSE mark
        /\ UNCHANGED <<made, alive, pushing, arrived>>
    BY <1>3 DEF Acknowledge
  <2>2. courier[c].phase = "entries" => x \in Queued
    <3>1. courier[c].phase = "entries" => courier[c].todo # {} /\ courier[c].todo \subseteq Queued
      BY <2>1 DEF EvidenceInv, PassesInOrder
    <3> QED BY <3>1, Arrivals
  <2> HIDE DEF x
  <2>3. {e \in 1..made : mark'[e] # "skipped"} = {e \in 1..made : mark[e] # "skipped"}
    BY <2>1, <2>2, Tables, Numbers DEF EvidenceInv, Queued
  <2> QED BY <2>1, <2>3 DEF Evidence!vars
<1> QED BY <1>1, <1>2, <1>3 DEF Deliver

LEMMA StepMaps == EvidenceInv /\ [Next]_vars => [Evidence!Next]_(Evidence!vars)
<1> SUFFICES ASSUME EvidenceInv, [Next]_vars PROVE [Evidence!Next]_(Evidence!vars)
  OBVIOUS
<1>1. ASSUME NEW w \in Writers, BeginRecord(w) \/ CommitRecord(w) \/ RecordFails(w)
      PROVE  [Evidence!Next]_(Evidence!vars)
  <2>1. CASE BeginRecord(w) \/ RecordFails(w)
    BY <2>1, NothingMaps DEF BeginRecord, RecordFails, rows, outbox
  <2>2. CASE CommitRecord(w)
    BY <2>2, WriteMaps DEF Evidence!Next
  <2> QED BY <1>1, <2>1, <2>2
<1>2. CASE BeginAnchor \/ CommitAnchor \/ BeginCollapse \/ \E e \in Entry : Age(e)
  BY <1>2, NothingMaps DEF BeginAnchor, CommitAnchor, BeginCollapse, Age, rows, outbox
<1>3. CASE CommitCollapse
  BY <1>3, ForgetMaps DEF Evidence!Next
<1>4. ASSUME NEW c \in Couriers, Deliver(c) PROVE [Evidence!Next]_(Evidence!vars)
  BY <1>4, DeliverMaps DEF Evidence!Next
<1>5. CASE Restart
  <2>1. pushing' \in BOOLEAN /\ UNCHANGED <<made, alive, mark, arrived>>
    BY <1>5 DEF Restart, rows
  <2> QED BY <2>1 DEF Evidence!Next, Evidence!Configure
<1>6. ASSUME NEW k \in 0..MaxEntries, LoseTail(k) PROVE [Evidence!Next]_(Evidence!vars)
  <2>1. /\ alive' = {e \in alive : e <= k} /\ UNCHANGED <<made, mark, pushing, arrived>>
        /\ k \in 0..made
    BY <1>6, Numbers DEF LoseTail, outbox, EvidenceInv
  <2> QED BY <2>1 DEF Evidence!Next, Evidence!Lose
<1>7. CASE UNCHANGED vars
  BY <1>7, NothingMaps DEF vars
<1> QED BY <1>1, <1>2, <1>3, <1>4, <1>5, <1>6, <1>7 DEF Next

LEMMA StartMaps == Init => Evidence!Init
BY DEF Init, Evidence!Init

----------------------------------------------------------------------------
(* A loss is noticed. *)

\* The chain that survives lies behind the newest seal, and so does what was lost
\* as long as there is no other seal.
LossInv ==
    /\ LastBoundary \in 0..made
    /\ \A e \in alive : e > LastBoundary
    /\ lost.seals <= Len(seals)
    /\ lost.entries \in SUBSET (1..made) /\ lost.entries \cap alive = {}
    /\ Len(seals) = lost.seals => \A e \in lost.entries : e > LastBoundary

LEMMA SealsSame ==
    ASSUME EvidenceInv, LossInv, seals' = seals, lost' = lost, made' \in Nat, made <= made',
           \A e \in alive' : e \in alive \/ e = made + 1
    PROVE  LossInv'
<1>1. LastBoundary' = LastBoundary
  BY DEF LastBoundary
<1>2. made \in Nat
  BY Numbers DEF EvidenceInv
<1>3. lost.entries \cap alive' = {}
  BY <1>2 DEF LossInv
<1>4. LastBoundary \in 0..made' /\ \A e \in alive' : e > LastBoundary
  BY <1>2 DEF LossInv
<1>5. lost.entries \in SUBSET (1..made')
  BY <1>2 DEF LossInv
<1> QED BY <1>1, <1>3, <1>4, <1>5 DEF LossInv

\* An acknowledged seal names the boundary it named.
LEMMA BoundaryStays ==
    ASSUME EvidenceInv, NEW x, seals' = [seals EXCEPT ![x].delivered = TRUE]
    PROVE  LastBoundary' = LastBoundary /\ Len(seals') = Len(seals)
<1>1. seals \in Seq(SealRow) /\ DOMAIN seals = 1..Len(seals) /\ Len(seals) \in Nat
  BY Tables
<1>2. seals' = [seals EXCEPT ![x] = [seals[x] EXCEPT !.delivered = TRUE]]
  OBVIOUS
<1>3. seals' \in Seq(SealRow)
  <2>1. x \in DOMAIN seals => seals[x] \in SealRow
    BY <1>1
  <2>2. \A row \in SealRow : [row EXCEPT !.delivered = TRUE] \in SealRow
    BY DEF SealRow
  <2> QED BY <1>1, <1>2, <2>1, <2>2, Delivery
<1>4. DOMAIN seals' = DOMAIN seals
  BY <1>2
<1>5. Len(seals') = Len(seals)
  BY <1>1, <1>3, <1>4
<1>6. \A i \in DOMAIN seals : seals'[i].boundary = seals[i].boundary
  <2>1. \A i \in DOMAIN seals : seals[i] \in SealRow
    BY <1>1
  <2>2. \A row \in SealRow : [row EXCEPT !.delivered = TRUE].boundary = row.boundary
    BY DEF SealRow
  <2> QED BY <1>2, <2>1, <2>2
<1>7. seals' = <<>> <=> seals = <<>>
  BY <1>1, <1>3, <1>5
<1>8. CASE seals = <<>>
  BY <1>7, <1>8, <1>5 DEF LastBoundary
<1>9. CASE seals # <<>>
  <2>1. Len(seals) \in DOMAIN seals
    BY <1>1, <1>9
  <2> QED BY <1>5, <1>6, <1>7, <1>9, <2>1 DEF LastBoundary
<1> QED BY <1>5, <1>8, <1>9

LEMMA LossInvKept == EvidenceInv /\ LossInv /\ [Next]_vars => LossInv'
<1> SUFFICES ASSUME EvidenceInv, LossInv, [Next]_vars PROVE LossInv'
  OBVIOUS
<1>0. made \in Nat /\ alive \in SUBSET (1..made)
  BY Numbers DEF EvidenceInv
<1>1. ASSUME NEW w \in Writers, BeginRecord(w) \/ CommitRecord(w) \/ RecordFails(w) PROVE LossInv'
  <2>1. CASE BeginRecord(w) \/ RecordFails(w)
    BY <1>0, <2>1, SealsSame DEF BeginRecord, RecordFails, rows
  <2>2. CASE CommitRecord(w)
    BY <1>0, <2>2, SealsSame DEF CommitRecord
  <2> QED BY <1>1, <2>1, <2>2
<1>2. CASE BeginAnchor \/ CommitAnchor \/ BeginCollapse \/ Restart \/ \E e \in Entry : Age(e)
  BY <1>0, <1>2, SealsSame DEF BeginAnchor, CommitAnchor, BeginCollapse, Restart, Age, rows
<1>3. CASE CommitCollapse
  <2> DEFINE new == [boundary |-> keeper.boundary, count |-> keeper.count, delivered |-> ~pushing]
  <2>1. /\ seals' = Append(seals, new) /\ alive' = {e \in alive : e > keeper.boundary}
        /\ UNCHANGED <<made, lost>> /\ keeper.boundary \in 1..made
    BY <1>3 DEF CommitCollapse, EvidenceInv, WalkSettled
  <2>2. Len(seals') = Len(seals) + 1 /\ seals'[Len(seals')] = new /\ seals' # <<>> /\ Len(seals) \in Nat
    <3>1. seals \in Seq(SealRow)
      BY Tables
    <3> HIDE DEF new
    <3> QED BY <2>1, <3>1
  <2>3. LastBoundary' = keeper.boundary
    BY <2>2 DEF LastBoundary
  <2>4. lost.seals \in Nat
    BY DEF EvidenceInv, TypeOK
  <2>5. Len(seals') # lost.seals /\ lost.seals <= Len(seals')
    BY <2>2, <2>4 DEF LossInv
  <2> QED BY <1>0, <2>1, <2>3, <2>5 DEF LossInv
<1>4. ASSUME NEW c \in Couriers, Deliver(c) PROVE LossInv'
  <2>1. CASE StartPass(c) \/ NextOutbox(c) \/ Send(c) \/ SendFails(c) \/ AbortPass(c)
    BY <1>0, <2>1, SealsSame DEF StartPass, NextOutbox, Send, SendFails, AbortPass, rows
  <2>2. CASE Acknowledge(c)
    <3>1. /\ UNCHANGED <<made, alive, lost>>
          /\ seals' = seals \/ seals' = [seals EXCEPT ![Foremost(courier[c].todo)].delivered = TRUE]
      BY <2>2 DEF Acknowledge
    <3>2. LastBoundary' = LastBoundary /\ Len(seals') = Len(seals)
      BY <3>1, BoundaryStays DEF LastBoundary
    <3> QED BY <3>1, <3>2 DEF LossInv
  <2> QED BY <1>4, <2>1, <2>2 DEF Deliver
<1>5. ASSUME NEW k \in 0..MaxEntries, LoseTail(k) PROVE LossInv'
  <2>1. /\ alive' = {e \in alive : e <= k} /\ UNCHANGED <<made, seals>>
        /\ lost' = [entries |-> {e \in alive : e > k}, anchors |-> Len(anchors), seals |-> Len(seals)]
    BY <1>5 DEF LoseTail
  <2>2. lost'.entries = {e \in alive : e > k} /\ lost'.seals = Len(seals)
    BY <2>1
  <2>3. Len(seals) \in Nat /\ LastBoundary' = LastBoundary
    BY <2>1, Tables DEF LastBoundary
  <2>4. lost'.entries \in SUBSET (1..made)
    BY <1>0, <2>2
  <2>5. lost'.entries \cap alive' = {}
    <3>1. \A e \in alive : ~(e > k /\ e <= k)
      BY <1>0
    <3> QED BY <2>1, <2>2, <3>1
  <2> QED BY <2>1, <2>2, <2>3, <2>4, <2>5 DEF LossInv
<1>6. CASE UNCHANGED vars
  BY <1>0, <1>6, SealsSame DEF vars
<1> QED BY <1>1, <1>2, <1>3, <1>4, <1>5, <1>6 DEF Next

LEMMA LossInvStarts == Init => LossInv
<1> SUFFICES ASSUME Init PROVE LossInv
  OBVIOUS
<1>1. LastBoundary = 0 /\ made = 0 /\ alive = {} /\ lost.entries = {} /\ lost.seals = 0 /\ Len(seals) = 0
  BY DEF Init, LastBoundary, Genesis, NoLoss
<1> QED BY <1>1 DEF LossInv

----------------------------------------------------------------------------
(* An intact log verifies. *)

\* Where the i-th seal begins.
SealedBefore(i) == IF i = 1 THEN 0 ELSE seals[i - 1].boundary

\* A log that has lost nothing: what is there follows the newest seal without a
\* gap, the seals count what they removed, and nobody remembers another end.
Intact ==
    /\ LastBoundary \in 0..made
    /\ alive = (LastBoundary + 1)..made
    /\ \A e \in 1..made : prev[e] = e - 1
    /\ \A w \in Writers : writer[w] # Free => writer[w] = made
    /\ \A v, w \in Writers : writer[v] # Free /\ writer[w] # Free => v = w
    /\ anchorer \in 0..made
    /\ keeper # NoWalk =>
          keeper.boundary \in (LastBoundary + 1)..made /\ keeper.count = keeper.boundary - LastBoundary
    /\ \A i \in DOMAIN anchors : anchors[i].last \in 1..made /\ anchors[i].count <= made
    /\ \A i \in DOMAIN seals : seals[i].count = seals[i].boundary - SealedBefore(i)

IntactInv == lost = NoLoss => Intact

\* The seals account for everything up to the newest.
LEMMA SealsAddUp == EvidenceInv /\ Intact => TotalSealed = LastBoundary
<1> SUFFICES ASSUME EvidenceInv, Intact PROVE TotalSealed = LastBoundary
  OBVIOUS
<1> DEFINE n == Len(seals)
           f == [i \in 0..n |-> IF i = 0 THEN 0 ELSE seals[i].boundary]
           g == CHOOSE h : h = [i \in 0..n |-> IF i = 0 THEN 0 ELSE h[i - 1] + seals[i].count]
<1>1. n \in Nat /\ DOMAIN seals = 1..n
  BY Tables
<1>2. \A i \in 1..n : seals[i].boundary \in Nat /\ seals[i].count \in Nat
  <2>1. \A i \in 1..n : seals[i] \in SealRow
    BY <1>1, Tables
  <2>2. \A row \in SealRow : row.boundary \in Nat /\ row.count \in Nat
    BY Numbers DEF SealRow, EvidenceInv
  <2> QED BY <2>1, <2>2
<1>3. \A i \in 1..n : seals[i].count = seals[i].boundary - f[i - 1]
  <2> SUFFICES ASSUME NEW i \in 1..n PROVE seals[i].count = seals[i].boundary - f[i - 1]
    OBVIOUS
  <2>1. f[i - 1] = SealedBefore(i)
    BY <1>1 DEF SealedBefore
  <2> QED BY <1>1, <2>1 DEF Intact
<1>4. \A i \in 0..n : f[i] = IF i = 0 THEN 0 ELSE f[i - 1] + seals[i].count
  <2>1. f[0] = 0
    BY <1>1
  <2>2. ASSUME NEW i \in 1..n PROVE f[i] = f[i - 1] + seals[i].count
    <3>1. f[i] = seals[i].boundary /\ f[i - 1] \in Nat
      BY <1>1, <1>2
    <3> HIDE DEF f
    <3> QED BY <1>2, <1>3, <3>1
  <2> HIDE DEF f
  <2> QED BY <1>1, <2>1, <2>2
<1>5. f = [i \in 0..n |-> IF i = 0 THEN 0 ELSE f[i - 1] + seals[i].count]
  <2>1. f = [i \in 0..n |-> f[i]]
    OBVIOUS
  <2> HIDE DEF f
  <2> QED BY <1>4, <2>1
<1>6. g = [i \in 0..n |-> IF i = 0 THEN 0 ELSE g[i - 1] + seals[i].count]
  <2> HIDE DEF f
  <2> QED BY <1>5
\* The equation has one solution: the least place where two differ follows one where they agree.
<1>7. g[n] = f[n]
  <2> DEFINE D == {i \in 0..n : g[i] # f[i]}
  <2> HIDE DEF f, g
  <2>1. CASE D = {}
    BY <1>1, <2>1
  <2>2. CASE D # {}
    <3>1. D \in SUBSET Nat
      BY <1>1
    <3> DEFINE m == MinOf(D)
    <3>2. m \in D /\ \A y \in D : m <= y
      <4> HIDE DEF D
      <4> QED BY <2>2, <3>1, Least
    <3> HIDE DEF m
    <3>3. m \in 0..n /\ g[m] # f[m]
      BY <3>2
    <3>4. CASE m = 0
      BY <1>1, <1>4, <1>6, <3>3, <3>4
    <3>5. CASE m # 0
      <4>1. m - 1 \in 0..n /\ m - 1 < m
        BY <1>1, <3>3, <3>5
      <4>2. m - 1 \notin D
        BY <1>1, <3>2, <3>3, <4>1
      <4>3. g[m - 1] = f[m - 1]
        BY <4>1, <4>2
      <4>4. g[m] = g[m - 1] + seals[m].count /\ f[m] = f[m - 1] + seals[m].count
        BY <1>4, <1>6, <3>3, <3>5
      <4> QED BY <3>3, <4>3, <4>4
    <3> QED BY <3>4, <3>5
  <2> QED BY <2>1, <2>2
<1>8. TotalSealed = g[n]
  BY DEF TotalSealed
<1>9. f[n] = LastBoundary
  <2>1. seals = <<>> <=> n = 0
    BY Tables
  <2> QED BY <1>1, <2>1 DEF LastBoundary, Genesis
<1> HIDE DEF f, g
<1> QED BY <1>7, <1>8, <1>9

LEMMA IntactVerifies == EvidenceInv /\ Intact => Verifies
<1> SUFFICES ASSUME EvidenceInv, Intact PROVE Verifies
  OBVIOUS
<1>1. made \in Nat /\ LastBoundary \in 0..made
  BY Numbers DEF EvidenceInv, Intact
<1>2. Linked(LastBoundary)
  <2> SUFFICES ASSUME NEW e \in alive
               PROVE  prev[e] = IF Before(e) = {} THEN LastBoundary ELSE MaxOf(Before(e))
    BY DEF Linked
  <2>1. e \in (LastBoundary + 1)..made /\ prev[e] = e - 1
    BY <1>1 DEF Intact
  <2>2. Before(e) = (LastBoundary + 1)..(e - 1)
    BY <1>1, <2>1 DEF Before, Intact
  <2>3. CASE e = LastBoundary + 1
    BY <1>1, <2>1, <2>2, <2>3
  <2>4. CASE e # LastBoundary + 1
    <3>1. e - 1 \in Before(e) /\ Before(e) \in SUBSET (1..made)
      BY <1>1, <2>1, <2>2, <2>4
    <3>2. MaxOf(Before(e)) \in Before(e) /\ \A y \in Before(e) : y <= MaxOf(Before(e))
      BY <1>1, <3>1, Greatest
    <3>3. MaxOf(Before(e)) \in (LastBoundary + 1)..(e - 1) /\ e - 1 <= MaxOf(Before(e))
      BY <2>2, <3>1, <3>2
    <3>4. MaxOf(Before(e)) = e - 1
      BY <1>1, <2>1, <3>3
    <3> QED BY <2>1, <3>1, <3>4
  <2> QED BY <2>3, <2>4
<1>3. ASSUME anchors # <<>>
      PROVE  Covered(anchors[Len(anchors)], alive, LastBoundary, Cardinality(alive) + TotalSealed)
  <2> DEFINE anchor == anchors[Len(anchors)]
  <2>1. Len(anchors) \in DOMAIN anchors
    BY <1>3, Tables
  <2>2. anchor.last \in 1..made /\ anchor.count <= made
    BY <2>1 DEF Intact
  <2>3. Cardinality(alive) = made - LastBoundary
    <3>1. Cardinality((LastBoundary + 1)..made) = made - LastBoundary
      <4>1. LastBoundary + 1 \in Int /\ made \in Int
        BY <1>1
      <4>2. Cardinality((LastBoundary + 1)..made)
              = IF LastBoundary + 1 > made THEN 0 ELSE made - (LastBoundary + 1) + 1
        BY <4>1, FS_Interval
      <4> QED BY <1>1, <4>2
    <3> QED BY <3>1 DEF Intact
  <2>4. Cardinality(alive) + TotalSealed = made
    BY <1>1, <2>3, SealsAddUp
  <2>5. anchor.last \notin alive => LastBoundary # Genesis /\ anchor.last <= LastBoundary
    <3> HIDE DEF anchor
    <3> QED BY <1>1, <2>2 DEF Intact, Genesis
  <2>6. anchor.count \in Nat
    <3>1. anchor \in AnchorRow
      BY <2>1, Tables
    <3> HIDE DEF anchor
    <3> QED BY <3>1 DEF AnchorRow
  <2> HIDE DEF anchor
  <2>7. Covered(anchor, alive, LastBoundary, Cardinality(alive) + TotalSealed)
    BY <1>1, <2>2, <2>4, <2>5, <2>6 DEF Covered
  <2> QED BY <2>7 DEF anchor
<1> QED BY <1>2, <1>3 DEF Verifies

\* The rows stay, and so do what checkpoints and seals say.
LEMMA IntactStays ==
    ASSUME EvidenceInv, Intact, UNCHANGED <<made, alive, prev>>, LastBoundary' = LastBoundary,
           \A w \in Writers : writer'[w] # Free => writer'[w] = made,
           \A v, w \in Writers : writer'[v] # Free /\ writer'[w] # Free => v = w,
           anchorer' \in 0..made,
           keeper' # NoWalk =>
              keeper'.boundary \in (LastBoundary + 1)..made /\ keeper'.count = keeper'.boundary - LastBoundary,
           \A i \in DOMAIN anchors' : anchors'[i].last \in 1..made /\ anchors'[i].count <= made,
           DOMAIN seals' = DOMAIN seals,
           \A i \in DOMAIN seals : seals'[i].count = seals[i].count /\ seals'[i].boundary = seals[i].boundary
    PROVE  Intact'
<1>1. DOMAIN seals = 1..Len(seals) /\ Len(seals) \in Nat
  BY Tables
<1>2. \A i \in DOMAIN seals : i # 1 => i - 1 \in DOMAIN seals
  BY <1>1
<1>3. \A i \in DOMAIN seals : SealedBefore(i)' = SealedBefore(i)
  BY <1>2 DEF SealedBefore
<1> QED BY <1>3 DEF Intact

LEMMA IntactRecord ==
    ASSUME EvidenceInv, Intact, NEW w \in Writers, BeginRecord(w) \/ CommitRecord(w) \/ RecordFails(w)
    PROVE  Intact'
<1>0. writer \in [Writers -> 0..MaxEntries \cup {Free}] /\ made \in Nat /\ LastBoundary \in 0..made
  BY Numbers DEF EvidenceInv, TypeOK, Intact
<1>1. CASE BeginRecord(w)
  <2>1. writer' = [writer EXCEPT ![w] = ChainEnd] /\ \A v \in Writers : writer[v] = Free
    BY <1>1 DEF BeginRecord, LockFree
  <2>2. ChainEnd = made
    <3>1. CASE alive = {}
      <4>1. ~(made \in (LastBoundary + 1)..made)
        BY <3>1 DEF Intact
      <4> QED BY <1>0, <3>1, <4>1 DEF ChainEnd
    <3>2. CASE alive # {}
      <4>1. alive \in SUBSET (1..made)
        BY Numbers DEF EvidenceInv
      <4>2. MaxOf(alive) \in alive /\ \A y \in alive : y <= MaxOf(alive)
        BY <1>0, <3>2, <4>1, Greatest
      <4>3. made \in alive
        BY <1>0, <3>2 DEF Intact
      <4>4. MaxOf(alive) \in 1..made /\ made <= MaxOf(alive)
        BY <4>1, <4>2, <4>3
      <4>5. MaxOf(alive) = made
        BY <1>0, <4>4
      <4> QED BY <3>2, <4>5 DEF ChainEnd
    <3> QED BY <3>1, <3>2
  <2>3. UNCHANGED <<rows, anchors, seals, anchorer, keeper>>
    BY <1>1 DEF BeginRecord
  <2>4. LastBoundary' = LastBoundary
    BY <2>3 DEF LastBoundary
  <2>5. \A v \in Writers : writer'[v] # Free => v = w /\ writer'[v] = made
    BY <1>0, <2>1, <2>2
  <2> QED BY <2>3, <2>4, <2>5, IntactStays DEF rows, Intact
<1>2. CASE RecordFails(w)
  <2>1. UNCHANGED <<rows, anchors, seals, anchorer, keeper>> /\ writer' = [writer EXCEPT ![w] = Free]
    BY <1>2 DEF RecordFails
  <2>2. LastBoundary' = LastBoundary
    BY <2>1 DEF LastBoundary
  <2>3. \A v \in Writers : writer'[v] # Free => writer'[v] = writer[v]
    BY <1>0, <2>1
  <2> QED BY <2>1, <2>2, <2>3, IntactStays DEF rows, Intact
<1>3. CASE CommitRecord(w)
  <2>1. /\ writer[w] # Free /\ made' = made + 1 /\ alive' = alive \cup {made + 1} /\ made + 1 \in Entry
        /\ prev' = [prev EXCEPT ![made + 1] = writer[w]] /\ writer' = [writer EXCEPT ![w] = Free]
        /\ UNCHANGED <<anchors, seals, anchorer, keeper>>
    BY <1>3, Numbers DEF CommitRecord, EvidenceInv, Entry
  <2>2. LastBoundary' = LastBoundary
    BY <2>1 DEF LastBoundary
  <2>3. alive' = (LastBoundary + 1)..made'
    <3>1. (LastBoundary + 1)..(made + 1) = ((LastBoundary + 1)..made) \cup {made + 1}
      BY <1>0
    <3> QED BY <2>1, <3>1 DEF Intact
  <2>4. \A e \in 1..made' : prev'[e] = e - 1
    <3>1. prev \in [Entry -> 0..MaxEntries] /\ 1..made \in SUBSET Entry /\ writer[w] = made
      BY <2>1, Numbers DEF EvidenceInv, TypeOK, Intact
    <3>2. prev'[made + 1] = made
      BY <2>1, <3>1
    <3>3. \A e \in 1..made : prev'[e] = e - 1
      BY <1>0, <2>1, <3>1 DEF Intact
    <3> QED BY <1>0, <2>1, <3>2, <3>3
  <2>5. \A v \in Writers : writer'[v] = Free
    BY <1>0, <2>1 DEF Intact
  <2>6. /\ anchorer' \in 0..made' /\ LastBoundary \in 0..made'
        /\ keeper' # NoWalk =>
              keeper'.boundary \in (LastBoundary + 1)..made' /\ keeper'.count = keeper'.boundary - LastBoundary
    BY <1>0, <2>1 DEF Intact
  <2>7. \A i \in DOMAIN anchors : anchors[i].last \in 1..made' /\ anchors[i].count <= made'
    <3>1. \A i \in DOMAIN anchors : anchors[i].count \in Nat
      <4>1. \A i \in DOMAIN anchors : anchors[i] \in AnchorRow
        BY Tables
      <4> QED BY <4>1 DEF AnchorRow
    <3>2. \A i \in DOMAIN anchors : anchors[i].last \in 1..made /\ anchors[i].count <= made
      BY DEF Intact
    <3> QED BY <1>0, <2>1, <3>1, <3>2
  <2>8. \A i \in DOMAIN seals' : seals'[i].count = seals'[i].boundary - SealedBefore(i)'
    BY <2>1 DEF Intact, SealedBefore
  <2> QED BY <2>1, <2>2, <2>3, <2>4, <2>5, <2>6, <2>7, <2>8 DEF Intact
<1> QED BY <1>1, <1>2, <1>3

LEMMA IntactAnchor ==
    ASSUME EvidenceInv, Intact, BeginAnchor \/ CommitAnchor \/ \E e \in Entry : Age(e)
    PROVE  Intact'
<1>0. made \in Nat /\ alive \in SUBSET (1..made)
  BY Numbers DEF EvidenceInv
<1>1. UNCHANGED <<rows, seals, writer, keeper>>
  BY DEF BeginAnchor, CommitAnchor, Age
<1>2. LastBoundary' = LastBoundary
  BY <1>1 DEF LastBoundary
<1>3. anchorer' \in 0..made
  <2>1. CASE BeginAnchor
    <3>1. anchorer' = MaxOf(alive) /\ alive # {}
      BY <2>1 DEF BeginAnchor
    <3>2. MaxOf(alive) \in alive
      BY <1>0, <3>1, Greatest
    <3>3. MaxOf(alive) \in 1..made
      BY <1>0, <3>2
    <3> QED BY <1>0, <3>1, <3>3
  <2>2. CASE CommitAnchor
    BY <1>0, <2>2 DEF CommitAnchor, Genesis
  <2>3. CASE \E e \in Entry : Age(e)
    BY <2>3 DEF Age, Intact
  <2> QED BY <2>1, <2>2, <2>3
<1>4. \A i \in DOMAIN anchors' : anchors'[i].last \in 1..made /\ anchors'[i].count <= made
  <2>1. CASE BeginAnchor \/ \E e \in Entry : Age(e)
    BY <2>1 DEF BeginAnchor, Age, Intact
  <2>2. CASE CommitAnchor
    <3> DEFINE new == [last |-> anchorer, count |-> Cardinality(alive), delivered |-> ~pushing]
    <3>1. anchors' = Append(anchors, new) /\ anchorer \in 1..made
      BY <1>0, <2>2 DEF CommitAnchor, Genesis, Intact
    <3>2. Cardinality(alive) <= made
      <4>1. IsFiniteSet(1..made) /\ Cardinality(1..made) = made
        BY <1>0, FS_Interval
      <4> QED BY <1>0, <4>1, FS_Subset
    <3>3. new.last \in 1..made /\ new.count <= made
      BY <3>1, <3>2
    <3>4. anchors \in Seq(AnchorRow)
      BY Tables
    <3> HIDE DEF new
    <3>5. \A i \in DOMAIN anchors' : anchors'[i] = new \/ (i \in DOMAIN anchors /\ anchors'[i] = anchors[i])
      BY <3>1, <3>4
    <3> QED BY <3>3, <3>5 DEF Intact
  <2> QED BY <2>1, <2>2
<1> QED BY <1>1, <1>2, <1>3, <1>4, IntactStays DEF rows, Intact

LEMMA IntactCollapse == ASSUME EvidenceInv, Intact, BeginCollapse \/ CommitCollapse PROVE Intact'
<1>0. made \in Nat /\ alive \in SUBSET (1..made) /\ LastBoundary \in 0..made
  BY Numbers DEF EvidenceInv, Intact
<1>1. CASE BeginCollapse
  <2>1. /\ Collapsible # {} /\ UNCHANGED <<rows, anchors, seals, writer, anchorer>>
        /\ keeper' = [boundary |-> MaxOf(Collapsible), count |-> Cardinality(Collapsible)]
    BY <1>1 DEF BeginCollapse
  <2>2. LastBoundary' = LastBoundary
    BY <2>1 DEF LastBoundary
  <2> DEFINE b == MaxOf(Collapsible)
  <2>3. Collapsible \in SUBSET alive
    BY DEF Collapsible
  <2>4. b \in Collapsible /\ \A y \in Collapsible : y <= b
    BY <1>0, <2>1, <2>3, Greatest
  <2> HIDE DEF b
  <2>5. b \in alive
    BY <2>3, <2>4
  <2>6. b \in (LastBoundary + 1)..made
    BY <2>5 DEF Intact
  \* The walked rows are a prefix of those that are there.
  <2>7. Collapsible = (LastBoundary + 1)..b
    <3>1. ASSUME NEW e \in (LastBoundary + 1)..b PROVE e \in Collapsible
      <4>1. e \in alive /\ e <= b
        BY <1>0, <2>6, <3>1 DEF Intact
      <4>2. \A f \in alive : f <= e => f <= b
        BY <1>0, <2>6, <4>1
      <4> QED BY <2>4, <4>1, <4>2 DEF Collapsible
    <3>2. ASSUME NEW e \in Collapsible PROVE e \in (LastBoundary + 1)..b
      <4>1. e \in (LastBoundary + 1)..made /\ e <= b
        BY <2>3, <2>4, <3>2 DEF Intact
      <4> QED BY <1>0, <2>6, <4>1
    <3> QED BY <3>1, <3>2
  <2>8. Cardinality(Collapsible) = b - LastBoundary
    <3>1. LastBoundary + 1 \in Int /\ b \in Int /\ ~(LastBoundary + 1 > b)
      BY <1>0, <2>6
    <3>2. Cardinality((LastBoundary + 1)..b) = b - (LastBoundary + 1) + 1
      BY <3>1, FS_Interval
    <3> QED BY <1>0, <2>7, <3>1, <3>2
  <2>9. keeper'.boundary = b /\ keeper'.count = b - LastBoundary
    BY <2>1, <2>8 DEF b
  <2> QED BY <1>0, <2>1, <2>2, <2>6, <2>9, IntactStays DEF rows, Intact
<1>2. CASE CommitCollapse
  <2> DEFINE new == [boundary |-> keeper.boundary, count |-> keeper.count, delivered |-> ~pushing]
             b == keeper.boundary
  <2>1. /\ seals' = Append(seals, new) /\ alive' = {e \in alive : e > b} /\ keeper' = NoWalk
        /\ UNCHANGED <<made, prev, anchors, writer, anchorer>>
        /\ b \in (LastBoundary + 1)..made /\ new.boundary = b /\ new.count = b - LastBoundary
    BY <1>2 DEF CommitCollapse, Intact
  <2> HIDE DEF new, b
  <2>2. seals \in Seq(SealRow) /\ DOMAIN seals = 1..Len(seals) /\ Len(seals) \in Nat
    BY Tables
  <2>3. /\ Len(seals') = Len(seals) + 1 /\ seals'[Len(seals) + 1] = new /\ seals' # <<>>
        /\ DOMAIN seals' = 1..(Len(seals) + 1) /\ \A i \in DOMAIN seals : seals'[i] = seals[i]
    BY <2>1, <2>2
  <2>4. LastBoundary' = b
    BY <2>1, <2>2, <2>3 DEF LastBoundary
  <2>5. alive' = (b + 1)..made
    BY <1>0, <2>1 DEF Intact
  <2>6. ASSUME NEW i \in DOMAIN seals' PROVE seals'[i].count = seals'[i].boundary - SealedBefore(i)'
    <3>1. CASE i \in DOMAIN seals
      <4>1. i # 1 => i - 1 \in DOMAIN seals
        BY <2>2, <3>1
      <4>2. SealedBefore(i)' = SealedBefore(i)
        BY <2>3, <4>1 DEF SealedBefore
      <4> QED BY <2>3, <3>1, <4>2 DEF Intact
    <3>2. CASE i \notin DOMAIN seals
      <4>1. i = Len(seals) + 1
        BY <2>2, <2>3, <2>6, <3>2
      <4>2. SealedBefore(i)' = LastBoundary
        <5>1. CASE seals = <<>>
          BY <2>2, <4>1, <5>1 DEF SealedBefore, LastBoundary, Genesis
        <5>2. CASE seals # <<>>
          <6>1. i # 1 /\ i - 1 = Len(seals) /\ Len(seals) \in DOMAIN seals
            BY <2>2, <4>1, <5>2
          <6> QED BY <2>3, <5>2, <6>1 DEF SealedBefore, LastBoundary
        <5> QED BY <5>1, <5>2
      <4> QED BY <2>1, <2>3, <4>1, <4>2
    <3> QED BY <3>1, <3>2
  <2>7. b \in 0..made
    BY <1>0, <2>1
  <2> QED BY <1>0, <2>1, <2>4, <2>5, <2>6, <2>7 DEF Intact
<1> QED BY <1>1, <1>2

LEMMA IntactDeliver == ASSUME EvidenceInv, Intact, NEW c \in Couriers, Deliver(c) PROVE Intact'
<1>1. UNCHANGED <<made, alive, prev, writer, anchorer, keeper>>
  BY DEF Deliver, StartPass, NextOutbox, Send, SendFails, Acknowledge, AbortPass, rows
<1> DEFINE x == Foremost(courier[c].todo)
<1>2. /\ anchors' = anchors \/ anchors' = [anchors EXCEPT ![x].delivered = TRUE]
      /\ seals' = seals \/ seals' = [seals EXCEPT ![x].delivered = TRUE]
  BY DEF Deliver, StartPass, NextOutbox, Send, SendFails, Acknowledge, AbortPass
<1> HIDE DEF x
<1>3. LastBoundary' = LastBoundary
  BY <1>2, BoundaryStays DEF LastBoundary
<1>4. \A i \in DOMAIN anchors' : anchors'[i].last \in 1..made /\ anchors'[i].count <= made
  <2>1. CASE anchors' = anchors
    BY <2>1 DEF Intact
  <2>2. CASE anchors' = [anchors EXCEPT ![x].delivered = TRUE]
    <3>1. DOMAIN anchors' = DOMAIN anchors /\ \A i \in DOMAIN anchors : anchors[i] \in AnchorRow
      BY <2>2, Tables
    <3>2. \A i \in DOMAIN anchors :
             anchors'[i] = anchors[i] \/ anchors'[i] = [anchors[i] EXCEPT !.delivered = TRUE]
      BY <2>2
    <3>3. \A row \in AnchorRow : /\ [row EXCEPT !.delivered = TRUE].last = row.last
                                 /\ [row EXCEPT !.delivered = TRUE].count = row.count
      BY DEF AnchorRow
    <3>4. \A i \in DOMAIN anchors : anchors'[i].last = anchors[i].last /\ anchors'[i].count = anchors[i].count
      BY <3>1, <3>2, <3>3
    <3> QED BY <3>1, <3>4 DEF Intact
  <2> QED BY <1>2, <2>1, <2>2
<1>5. /\ DOMAIN seals' = DOMAIN seals
      /\ \A i \in DOMAIN seals : seals'[i].count = seals[i].count /\ seals'[i].boundary = seals[i].boundary
  <2>1. CASE seals' = seals
    BY <2>1
  <2>2. CASE seals' = [seals EXCEPT ![x].delivered = TRUE]
    <3>1. DOMAIN seals' = DOMAIN seals /\ \A i \in DOMAIN seals : seals[i] \in SealRow
      BY <2>2, Tables
    <3>2. \A i \in DOMAIN seals : seals'[i] = seals[i] \/ seals'[i] = [seals[i] EXCEPT !.delivered = TRUE]
      BY <2>2
    <3>3. \A row \in SealRow : /\ [row EXCEPT !.delivered = TRUE].boundary = row.boundary
                               /\ [row EXCEPT !.delivered = TRUE].count = row.count
      BY DEF SealRow
    <3> QED BY <3>1, <3>2, <3>3
  <2> QED BY <1>2, <2>1, <2>2
<1> QED BY <1>1, <1>3, <1>4, <1>5, IntactStays DEF Intact

LEMMA IntactRestart == ASSUME EvidenceInv, Intact, Restart PROVE Intact'
<1>1. /\ UNCHANGED <<rows, anchors, seals>> /\ writer' = [w \in Writers |-> Free]
      /\ anchorer' = 0 /\ keeper' = NoWalk
  BY DEF Restart, Genesis
<1>2. LastBoundary' = LastBoundary
  BY <1>1 DEF LastBoundary
<1>3. made \in Nat
  BY Numbers DEF EvidenceInv
<1> QED BY <1>1, <1>2, <1>3, IntactStays DEF rows, Intact

LEMMA IntactKept == EvidenceInv /\ IntactInv /\ [Next]_vars => IntactInv'
<1> SUFFICES ASSUME EvidenceInv, IntactInv, [Next]_vars, lost' = NoLoss PROVE Intact'
  BY DEF IntactInv
<1>1. ASSUME NEW k \in 0..MaxEntries, LoseTail(k) PROVE FALSE
  <2>1. lost'.entries = {e \in alive : e > k} /\ {e \in alive : e > k} # {}
    BY <1>1 DEF LoseTail
  <2> QED BY <2>1 DEF NoLoss
<1>2. CASE UNCHANGED vars
  <2>1. Intact
    BY <1>2 DEF vars, IntactInv
  <2>2. LastBoundary' = LastBoundary
    BY <1>2 DEF vars, LastBoundary
  <2> QED BY <1>2, <2>1, <2>2, IntactStays DEF vars, Intact
<1>3. ASSUME NEW w \in Writers, BeginRecord(w) \/ CommitRecord(w) \/ RecordFails(w) PROVE Intact'
  <2>1. Intact
    BY <1>3 DEF IntactInv, BeginRecord, CommitRecord, RecordFails
  <2> QED BY <1>3, <2>1, IntactRecord
<1>4. CASE BeginAnchor \/ CommitAnchor \/ \E e \in Entry : Age(e)
  <2>1. Intact
    BY <1>4 DEF IntactInv, BeginAnchor, CommitAnchor, Age
  <2> QED BY <1>4, <2>1, IntactAnchor
<1>5. CASE BeginCollapse \/ CommitCollapse
  <2>1. Intact
    BY <1>5 DEF IntactInv, BeginCollapse, CommitCollapse
  <2> QED BY <1>5, <2>1, IntactCollapse
<1>6. ASSUME NEW c \in Couriers, Deliver(c) PROVE Intact'
  <2>1. Intact
    BY <1>6 DEF IntactInv, Deliver, StartPass, NextOutbox, Send, SendFails, Acknowledge, AbortPass
  <2> QED BY <1>6, <2>1, IntactDeliver
<1>7. CASE Restart
  <2>1. Intact
    BY <1>7 DEF IntactInv, Restart
  <2> QED BY <1>7, <2>1, IntactRestart
<1> QED BY <1>1, <1>2, <1>3, <1>4, <1>5, <1>6, <1>7 DEF Next

LEMMA IntactStarts == Init => IntactInv
<1> SUFFICES ASSUME Init PROVE Intact
  BY DEF IntactInv
<1>1. /\ LastBoundary = 0 /\ made = 0 /\ alive = {} /\ anchorer = 0 /\ keeper = NoWalk
      /\ anchors = <<>> /\ seals = <<>> /\ \A w \in Writers : writer[w] = Free
  BY DEF Init, LastBoundary, Genesis
<1>2. DOMAIN anchors = {} /\ DOMAIN seals = {}
  BY <1>1
<1> QED BY <1>1, <1>2 DEF Intact

----------------------------------------------------------------------------
\* The log's tables, its checkpoints, its seals and the delivery keep their shape,
\* whatever overlaps, fails or is lost.
THEOREM TypeCorrect == Spec => []TypeOK
<1>1. EvidenceInv => TypeOK
  BY DEF EvidenceInv
<1> QED BY <1>1, Invariant, PTL

\* Entries reach the SIEM for the first time in the order they were written, and
\* retention never removes one that a configured SIEM still waits for, however many
\* passes run at once, and through restarts, failed sends and lost rows.
THEOREM LogIsEvidence == Spec => EvidenceSpec
BY Invariant, StartMaps, StepMaps, PTL DEF Spec, EvidenceSpec, Evidence!Spec

\* Cutting off the newest entries is caught: the anchored entry is neither in the
\* table nor behind a seal, whatever is recorded after it, and its number is never
\* given to another entry.
THEOREM LossIsNoticed == Spec => []LossNoticed
<1>1. EvidenceInv /\ LossInv => LossNoticed
  <2> SUFFICES ASSUME EvidenceInv, LossInv, Len(seals) = lost.seals, anchors # <<>>,
                      anchors[Len(anchors)].last \in lost.entries
               PROVE  ~Verifies
    BY DEF LossNoticed
  <2> DEFINE last == anchors[Len(anchors)].last
  <2>1. last \notin alive /\ last > LastBoundary /\ last \in Nat /\ LastBoundary \in Nat
    BY Numbers DEF LossInv, EvidenceInv
  <2>2. ~(last <= LastBoundary)
    BY <2>1
  <2> QED BY <2>1, <2>2 DEF Verifies, Covered
<1>2. EvidenceInv /\ LossInv /\ [Next]_vars => (EvidenceInv /\ LossInv)'
  BY InvariantKept, LossInvKept
<1> QED BY <1>1, <1>2, InvariantStarts, LossInvStarts, PTL DEF Spec

\* A log that nobody touched verifies at any moment: between the walk of a
\* retention pass and its seal, between the two statements of a checkpoint, after
\* a crash, and with the seals of any number of passes to account for.
THEOREM LogStaysVerifiable == Spec => []LogVerifies
<1>1. EvidenceInv /\ IntactInv => LogVerifies
  BY IntactVerifies DEF IntactInv, LogVerifies
<1>2. EvidenceInv /\ IntactInv /\ [Next]_vars => (EvidenceInv /\ IntactInv)'
  BY InvariantKept, IntactKept
<1> QED BY <1>1, <1>2, InvariantStarts, IntactStarts, PTL DEF Spec

=============================================================================
