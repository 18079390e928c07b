----------------------------- MODULE AuditChain -----------------------------
(***************************************************************************)
(* The audit log: a hash chain of entries, checkpoints that anchor its     *)
(* end, retention that removes its start behind seals, delivery to a SIEM, *)
(* and what a verification finds.                                          *)
(*                                                                         *)
(* Entries are known by the order they were written in.  The hash of an    *)
(* entry covers its content and the hash before it, so it is as good as    *)
(* that number; ids ascend with it and are never used twice (PostgreSQL).  *)
(* Each action is one statement or one transaction: recording is           *)
(* serialised by a lock, everything else interleaves at commits.           *)
(***************************************************************************)
EXTENDS Integers, FiniteSets, Sequences

CONSTANTS
    MaxEntries,    \* bound on the entries ever written
    MaxAnchors,    \* bound on the checkpoints ever written
    Writers,       \* requests that record at the same time
    Couriers,      \* delivery passes that may run at the same time
    Batch          \* how many entries one pass takes at most

ASSUME AuditAssumption ==
    /\ MaxEntries \in Nat /\ MaxAnchors \in Nat
    /\ Batch \in Nat \ {0}

Genesis == 0
Free == -1

Entry == 1..MaxEntries

VARIABLES
    made,       \* entries written so far
    alive,      \* rows of audit_events
    prev,       \* prev_hash
    mark,       \* siem_status, kept for entries that are gone
    expired,    \* entries past the retention period
    anchors,    \* rows of audit_checkpoints
    seals,      \* rows of audit_retention_seals
    pushing,    \* push_enabled(): is a SIEM configured
    writer,     \* per request the predecessor it has read under the lock
    anchorer,   \* the checkpoint being made: the entry it will name
    keeper,     \* the retention pass: the prefix it has walked
    courier,    \* the delivery passes: what they have fetched, where they are
    arrived,    \* what has reached the SIEM
    lost        \* fault: entries that vanished from the end of the table

rows    == <<made, alive, prev, mark>>
outbox  == <<courier, arrived>>
vars    == <<made, alive, prev, mark, expired, anchors, seals, pushing, writer,
             anchorer, keeper, courier, arrived, lost>>

MaxOf(S) == CHOOSE x \in S : \A y \in S : y <= x
MinOf(S) == CHOOSE x \in S : \A y \in S : x <= y

NoWalk  == [boundary |-> Genesis, count |-> 0]
NoPass  == [phase |-> "idle", todo |-> {}, sent |-> FALSE, fresh |-> TRUE]
NoLoss  == [entries |-> {}, anchors |-> 0, seals |-> 0]

Init ==
    /\ made = 0 /\ alive = {} /\ expired = {}
    /\ prev = [e \in Entry |-> Genesis]
    /\ mark = [e \in Entry |-> "skipped"]
    /\ anchors = <<>> /\ seals = <<>>
    /\ pushing \in BOOLEAN
    /\ writer = [w \in Writers |-> Free]
    /\ anchorer = Genesis
    /\ keeper = NoWalk
    /\ courier = [c \in Couriers |-> NoPass]
    /\ arrived = [entries |-> {}, anchors |-> {}, seals |-> {}]
    /\ lost = NoLoss

\* latest_seal(): where the surviving chain begins.
LastBoundary == IF seals = <<>> THEN Genesis ELSE seals[Len(seals)].boundary

----------------------------------------------------------------------------
(* Recording. *)

\* Slip: an empty table means that the chain begins.
ChainEndOrGenesis == IF alive = {} THEN Genesis ELSE MaxOf(alive)

\* The last entry, or the boundary of the newest seal when retention has taken
\* the whole chain, or the beginning.
ChainEnd == IF alive = {} THEN LastBoundary ELSE MaxOf(alive)

\* The write lock of the process and the advisory lock of the database, held
\* until the transaction ends.
LockFree == \A w \in Writers : writer[w] = Free

BeginRecord(w) ==
    /\ LockFree /\ writer[w] = Free
    /\ made < MaxEntries
    /\ writer' = [writer EXCEPT ![w] = ChainEnd]
    /\ UNCHANGED <<rows, expired, anchors, seals, pushing, anchorer, keeper, outbox, lost>>

\* Slip: a status the delivery does not ask for.
MarkMisspelt == IF pushing THEN "queued" ELSE "skipped"

\* siem_status of a new entry.
NewMark == IF pushing THEN "pending" ELSE "skipped"

CommitRecord(w) ==
    /\ writer[w] # Free
    /\ made < MaxEntries
    /\ made' = made + 1
    /\ alive' = alive \cup {made + 1}
    /\ prev' = [prev EXCEPT ![made + 1] = writer[w]]
    /\ mark' = [mark EXCEPT ![made + 1] = NewMark]
    /\ writer' = [writer EXCEPT ![w] = Free]
    /\ UNCHANGED <<expired, anchors, seals, pushing, anchorer, keeper, outbox, lost>>

\* A database error: swallowed, rolled back together with what the caller had
\* pending.
RecordFails(w) ==
    /\ writer[w] # Free
    /\ writer' = [writer EXCEPT ![w] = Free]
    /\ UNCHANGED <<rows, expired, anchors, seals, pushing, anchorer, keeper, outbox, lost>>

----------------------------------------------------------------------------
(* Checkpoints, from the hourly job or on demand. *)

BeginAnchor ==
    /\ anchorer = Genesis /\ alive # {}
    /\ Len(anchors) < MaxAnchors
    /\ anchors # <<>> => anchors[Len(anchors)].last # MaxOf(alive)
    /\ anchorer' = MaxOf(alive)
    /\ UNCHANGED <<rows, expired, anchors, seals, pushing, writer, keeper, outbox, lost>>

\* The rows are counted by a statement of its own.
CommitAnchor ==
    /\ anchorer # Genesis
    /\ anchors' = Append(anchors,
          [last |-> anchorer, count |-> Cardinality(alive), delivered |-> ~pushing])
    /\ anchorer' = Genesis
    /\ UNCHANGED <<rows, expired, seals, pushing, writer, keeper, outbox, lost>>

----------------------------------------------------------------------------
(* Retention. *)

\* Slip: what waits for delivery is removed with the rest.
ExpiredPrefix == {e \in alive : \A f \in alive : f <= e => f \in expired}

\* The walk from the oldest row: it stops at the first that is not expired, or
\* that a configured SIEM has not got yet.
Collapsible ==
    {e \in alive : \A f \in alive :
        f <= e => f \in expired /\ ~(pushing /\ mark[f] = "pending")}

BeginCollapse ==
    /\ keeper = NoWalk /\ Collapsible # {}
    /\ keeper' = [boundary |-> MaxOf(Collapsible), count |-> Cardinality(Collapsible)]
    /\ UNCHANGED <<rows, expired, anchors, seals, pushing, writer, anchorer, outbox, lost>>

\* The seal and the removal are one transaction; the rows are selected anew, by
\* the id of the boundary.
CommitCollapse ==
    /\ keeper # NoWalk
    /\ seals' = Append(seals,
          [boundary |-> keeper.boundary, count |-> keeper.count, delivered |-> ~pushing])
    /\ alive' = {e \in alive : e > keeper.boundary}
    /\ keeper' = NoWalk
    /\ UNCHANGED <<made, prev, mark, expired, anchors, pushing, writer, anchorer, outbox, lost>>

\* The retention period of an entry ends.
Age(e) ==
    /\ e \in alive \ expired
    /\ expired' = expired \cup {e}
    /\ UNCHANGED <<rows, anchors, seals, pushing, writer, anchorer, keeper, outbox, lost>>

----------------------------------------------------------------------------
(* Delivery.  A pass takes the three outboxes one after the other. *)

Waiting(phase) ==
    CASE phase = "entries" -> {e \in alive : mark[e] = "pending"}
      [] phase = "anchors" -> {i \in DOMAIN anchors : ~anchors[i].delivered}
      [] phase = "seals"   -> {i \in DOMAIN seals : ~seals[i].delivered}

\* The oldest of what waits, at most a batch of it.
Fetched(phase) == {x \in Waiting(phase) : Cardinality({y \in Waiting(phase) : y < x}) < Batch}

Fetch(c, phase) ==
    courier' = [courier EXCEPT ![c] =
        [phase |-> phase, todo |-> Fetched(phase), sent |-> FALSE, fresh |-> TRUE]]

StartPass(c) ==
    /\ pushing /\ courier[c].phase = "idle"
    /\ Waiting("entries") \cup Waiting("anchors") \cup Waiting("seals") # {}
    /\ Fetch(c, "entries")
    /\ UNCHANGED <<rows, expired, anchors, seals, pushing, writer, anchorer, keeper, arrived, lost>>

\* Done with an outbox, or stopped in it.
NextOutbox(c) ==
    /\ courier[c].phase # "idle" /\ courier[c].todo = {}
    /\ \/ courier[c].phase = "entries" /\ Fetch(c, "anchors")
       \/ courier[c].phase = "anchors" /\ Fetch(c, "seals")
       \/ courier[c].phase = "seals" /\ courier' = [courier EXCEPT ![c] = NoPass]
    /\ UNCHANGED <<rows, expired, anchors, seals, pushing, writer, anchorer, keeper, arrived, lost>>

Foremost(S) == MinOf(S)

\* Is the row there when its columns are read?  The first one is read with the
\* list, the others are read again after each commit.
Readable(c) ==
    courier[c].phase = "entries" => courier[c].fresh \/ Foremost(courier[c].todo) \in alive

\* Every target acknowledges.
Send(c) ==
    LET pass == courier[c]
    IN  /\ pass.todo # {} /\ ~pass.sent /\ Readable(c)
        /\ arrived' = [arrived EXCEPT ![pass.phase] = @ \cup {Foremost(pass.todo)}]
        /\ courier' = [courier EXCEPT ![c].sent = TRUE]
        /\ UNCHANGED <<rows, expired, anchors, seals, pushing, writer, anchorer, keeper, lost>>

\* A target is not reached, or one takes the item and does not say so, or only the
\* first of two takes it.  The attempt is counted and the outbox left.
SendFails(c) ==
    LET pass == courier[c]
    IN  /\ pass.todo # {} /\ ~pass.sent /\ Readable(c)
        /\ arrived' \in {arrived, [arrived EXCEPT ![pass.phase] = @ \cup {Foremost(pass.todo)}]}
        /\ courier' = [courier EXCEPT ![c].todo = {}]
        /\ UNCHANGED <<rows, expired, anchors, seals, pushing, writer, anchorer, keeper, lost>>

\* The commit after an acknowledged item.
Acknowledge(c) ==
    LET pass == courier[c]
        x == Foremost(pass.todo)
    IN  /\ pass.sent
        /\ pass.phase = "entries" => x \in alive
        /\ mark' = IF pass.phase = "entries" THEN [mark EXCEPT ![x] = "sent"] ELSE mark
        /\ anchors' = IF pass.phase = "anchors" THEN [anchors EXCEPT ![x].delivered = TRUE] ELSE anchors
        /\ seals' = IF pass.phase = "seals" THEN [seals EXCEPT ![x].delivered = TRUE] ELSE seals
        /\ courier' = [courier EXCEPT ![c].todo = @ \ {x}, ![c].sent = FALSE, ![c].fresh = FALSE]
        /\ UNCHANGED <<made, alive, prev, expired, pushing, writer, anchorer, keeper, arrived, lost>>

\* Slip: the exception ends the loop with the pass.
AbortEndsJob(c) ==
    /\ courier[c].phase = "entries" /\ courier[c].todo # {}
    /\ Foremost(courier[c].todo) \notin alive
    /\ courier[c].sent \/ ~courier[c].fresh
    /\ courier' = [courier EXCEPT ![c] = [NoPass EXCEPT !.phase = "ended"]]
    /\ UNCHANGED <<rows, expired, anchors, seals, pushing, writer, anchorer, keeper, arrived, lost>>

\* The row is gone when it is read or written: the pass ends with an exception, and
\* the next one begins anew.
AbortPass(c) ==
    /\ courier[c].phase = "entries" /\ courier[c].todo # {}
    /\ Foremost(courier[c].todo) \notin alive
    /\ courier[c].sent \/ ~courier[c].fresh
    /\ courier' = [courier EXCEPT ![c] = NoPass]
    /\ UNCHANGED <<rows, expired, anchors, seals, pushing, writer, anchorer, keeper, arrived, lost>>

----------------------------------------------------------------------------
(* Verification. *)

TotalSealed ==
    LET Sum[i \in 0..Len(seals)] == IF i = 0 THEN 0 ELSE Sum[i - 1] + seals[i].count
    IN  Sum[Len(seals)]

Before(e) == {f \in alive : f < e}

\* Every row links to the one before it, the first to where the chain begins.
Linked(from) ==
    \A e \in alive : prev[e] = IF Before(e) = {} THEN from ELSE MaxOf(Before(e))

\* Slip: entries are counted, the anchored one is not looked for.
CountedOnly(anchor, there, sealed, accounted) == accounted >= anchor.count

\* _check_against_checkpoint(): the anchored entry is there, or behind the seal,
\* and as many entries are accounted for as the checkpoint counted.
Covered(anchor, there, sealed, accounted) ==
    /\ anchor.last \notin there => sealed # Genesis /\ anchor.last <= sealed
    /\ accounted >= anchor.count

\* What verify_chain() answers when nothing happens meanwhile.
Verifies ==
    /\ Linked(LastBoundary)
    /\ anchors # <<>> =>
          Covered(anchors[Len(anchors)], alive, LastBoundary, Cardinality(alive) + TotalSealed)

----------------------------------------------------------------------------
(* The process and the table. *)

\* The process ends at any point and starts again, perhaps with another
\* configuration; what was not committed is gone.
Restart ==
    /\ pushing' \in BOOLEAN
    /\ writer' = [w \in Writers |-> Free]
    /\ anchorer' = Genesis
    /\ keeper' = NoWalk
    /\ courier' = [c \in Couriers |-> NoPass]
    /\ UNCHANGED <<rows, expired, anchors, seals, arrived, lost>>

\* The newest rows vanish, as from a table that was cut off.
LoseTail(k) ==
    /\ lost = NoLoss
    /\ {e \in alive : e > k} # {}
    /\ alive' = {e \in alive : e <= k}
    /\ lost' = [entries |-> {e \in alive : e > k}, anchors |-> Len(anchors), seals |-> Len(seals)]
    /\ UNCHANGED <<made, prev, mark, expired, anchors, seals, pushing, writer, anchorer, keeper, outbox>>

Deliver(c) ==
    StartPass(c) \/ NextOutbox(c) \/ Send(c) \/ SendFails(c) \/ Acknowledge(c) \/ AbortPass(c)

Next ==
    \/ \E w \in Writers : BeginRecord(w) \/ CommitRecord(w) \/ RecordFails(w)
    \/ BeginAnchor \/ CommitAnchor
    \/ BeginCollapse \/ CommitCollapse \/ \E e \in Entry : Age(e)
    \/ \E c \in Couriers : Deliver(c)
    \/ Restart
    \/ \E k \in 0..MaxEntries : LoseTail(k)

Spec == Init /\ [][Next]_vars

\* The delivery job is an endless loop that survives every exception.  That the
\* SIEM stays reachable means that a send of an entry which is tried again and
\* again succeeds at last, and is not cut off from its commit for ever.
SendEntry(c) == courier[c].phase = "entries" /\ Send(c)

FairSpec ==
    /\ Spec
    /\ \A c \in Couriers :
          /\ WF_vars(Deliver(c))
          /\ SF_vars(SendEntry(c)) /\ SF_vars(Acknowledge(c))

----------------------------------------------------------------------------
(* Properties. *)

TypeOK ==
    /\ made \in 0..MaxEntries
    /\ alive \subseteq 1..made /\ expired \subseteq 1..made
    /\ prev \in [Entry -> 0..MaxEntries]
    /\ mark \in [Entry -> {"pending", "sent", "skipped"}]
    /\ anchors \in Seq([last : Entry, count : Nat, delivered : BOOLEAN])
    /\ seals \in Seq([boundary : Entry, count : Nat \ {0}, delivered : BOOLEAN])
    /\ pushing \in BOOLEAN
    /\ writer \in [Writers -> 0..MaxEntries \cup {Free}]
    /\ anchorer \in 0..MaxEntries
    /\ keeper \in [boundary : 0..MaxEntries, count : Nat]
    /\ courier \in [Couriers ->
          [phase : {"idle", "entries", "anchors", "seals"}, todo : SUBSET Nat,
           sent : BOOLEAN, fresh : BOOLEAN]]
    /\ arrived \in [entries : SUBSET Entry, anchors : SUBSET Nat, seals : SUBSET Nat]
    /\ lost \in [entries : SUBSET Entry, anchors : Nat, seals : Nat]

\* A log that has lost nothing verifies at every moment: whatever recording,
\* anchoring and retention do to each other between their statements, no intact
\* log reads as cut off (test_a_legitimate_collapse_does_not_read_as_truncation).
LogVerifies == lost = NoLoss => Verifies

\* "Cutting off the newest entries is caught": once an anchored entry is lost
\* the log does not verify, whatever is recorded after it, until another
\* checkpoint or seal takes the place of the one that knew of it.
LossNoticed ==
    (/\ Len(anchors) = lost.anchors /\ Len(seals) = lost.seals
     /\ anchors # <<>>
     /\ anchors[Len(anchors)].last \in lost.entries) => ~Verifies

\* The log keeps what docs/AUDIT.md promises of it: order of arrival, and nothing
\* removed before it was delivered.
Evidence == INSTANCE EvidenceLog WITH
    written <- made, held <- alive, seen <- arrived.entries, configured <- pushing,
    queued <- {e \in 1..made : mark[e] # "skipped"}

EvidenceSpec == Evidence!Spec

\* "A crash or restart loses nothing": what waits for the SIEM reaches it, however
\* often a send fails or the process ends, as long as the SIEM stays configured.
Delivered ==
    \A e \in Entry :
        (e \in alive /\ mark[e] = "pending") ~>
            (e \in arrived.entries \/ e \notin alive \/ ~pushing)

=============================================================================
