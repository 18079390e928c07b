--------------------------- MODULE MatrixRequests ---------------------------
(***************************************************************************)
(* Change requests for zones, networks and matrix cells: filed as a batch, *)
(* approved by two change approvers, applied with the second approval.     *)
(*                                                                         *)
(* A decision runs in a database session.  It first reads one row of the   *)
(* request, then locks the rows and reads those that are still pending;    *)
(* the row it has read before keeps the values it had then, because the    *)
(* session's identity map is not refreshed.  From the lock to the commit a *)
(* decision is one step; between its first read and the lock others act.   *)
(***************************************************************************)
EXTENDS ZoneRegister

CONSTANTS
    Users, NoUser,
    Requestors,    \* accounts with the role architect or operations
    Architects, Approvers,
    Requests,      \* the requests this instance may see
    Offers,        \* the batches somebody may file; each names a cell, a zone or
                   \* a network once
    Sessions,      \* decisions that may run at the same time
    Start          \* the register as it is found

ASSUME RequestAssumption ==
    /\ NoUser \notin Users
    /\ Requestors \subseteq Users /\ Architects \subseteq Requestors
    /\ Approvers \subseteq Users
    /\ Start \in Registers
    /\ \A r \in Rules : Start.status[r] # "in_force"
    /\ Offers \subseteq Seq(Items)

VARIABLES
    register,      \* see ZoneRegister
    requests,      \* rows of zone_policy_changes, one record per batch
    session,       \* what each running decision has read
    votes          \* history: who really approved; no action reads it

vars == <<register, requests, session, votes>>

Unfiled == [state |-> "unfiled", by |-> NoUser, batch |-> <<>>, first |-> NoUser, decided |-> NoUser]

Idle == [user |-> NoUser, request |-> NoUser, first |-> NoUser]

Init ==
    /\ register = Start
    /\ requests = [q \in Requests |-> Unfiled]
    /\ session = [s \in Sessions |-> Idle]
    /\ votes = [q \in Requests |-> {}]

----------------------------------------------------------------------------
(* Filing a request. *)

Pending == {q \in Requests : requests[q].state = "pending"}

PendingItems == UNION {ToSet(requests[q].batch) : q \in Pending}

NetTypes == {"net_add", "net_update", "net_delete"}

\* _pending_net_conflict(): a waiting request leads to this CIDR or is about
\* this network.
NetConflict(cidr) ==
    \E item \in PendingItems :
        /\ item.type \in NetTypes
        /\ cidr \in {item.cidr} \cup (IF item.type = "net_update" THEN {item.to} ELSE {})

\* What _create_batch() refuses, item by item.  A zone the batch creates counts
\* as existing for the rest of it.  That a cell is about two zones is asked of the
\* names in the request, and a zone has two of them: the cell of a zone with itself
\* is not refused.
Fileable(batch) ==
    LET zones == register.zones \cup ZonesOf(batch, "zone_create")
        assigned(c) == register.network[c] # NoZone
    IN  /\ \A z \in ZonesOf(batch, "zone_create") : z \notin register.zones
        /\ \A z \in ZonesOf(batch, "zone_delete") : z \in register.zones /\ ~ZoneInUse(register, z)
        /\ \A item \in ItemsOf(batch, "net_add") :
              item.zone \in zones /\ ~assigned(item.cidr) /\ ~NetConflict(item.cidr)
        /\ \A item \in ItemsOf(batch, "net_delete") :
              assigned(item.cidr) /\ ~NetConflict(item.cidr)
        /\ \A item \in ItemsOf(batch, "net_update") :
              /\ item.zone \in zones
              /\ assigned(item.cidr) /\ ~NetConflict(item.cidr)
              /\ item.to # item.cidr => ~assigned(item.to)
              /\ item.to # item.cidr \/ item.zone # register.network[item.cidr]
        /\ \A item \in ItemsOf(batch, "policy") :
              /\ {item.from, item.to} \subseteq zones
              /\ register.policy[<<item.from, item.to>>] # item.policy
              /\ \A other \in PendingItems :
                    other.type = "policy" => <<other.from, other.to>> # <<item.from, item.to>>

FileRequest(u) ==
    /\ u \in Requestors
    /\ \E q \in Requests, batch \in Offers :
          /\ requests[q].state = "unfiled"
          /\ Fileable(batch)
          /\ requests' = [requests EXCEPT ![q] =
                [Unfiled EXCEPT !.state = "pending", !.by = u, !.batch = batch]]
    /\ UNCHANGED <<register, session, votes>>

----------------------------------------------------------------------------
(* Deciding a request. *)

\* The read of one row, before the lock.  A request that is decided by then, or
\* one's own, is refused.
OpenDecision(s, u) ==
    /\ u \in Approvers
    /\ session[s] = Idle
    /\ \E q \in Requests :
          /\ requests[q].state = "pending" /\ requests[q].by # u
          /\ session' = [session EXCEPT ![s] =
                [user |-> u, request |-> q, first |-> requests[q].first]]
    /\ UNCHANGED <<register, requests, votes>>

\* Any refusal, and any failure that rolls the session back.
EndDecision(s) ==
    /\ session[s] # Idle
    /\ session' = [session EXCEPT ![s] = Idle]
    /\ UNCHANGED <<register, requests, votes>>

\* Slip: the state is not asked again.
PendingAsRead(s) == TRUE

\* The rows are asked again under the lock.
StillPending(s) == requests[session[s].request].state = "pending"

MayDecide(s) ==
    /\ session[s] # Idle
    /\ StillPending(s)

\* No first approval in the row as it was read.
FirstApproval(s) ==
    LET q == session[s].request
        u == session[s].user
    IN  /\ MayDecide(s)
        /\ session[s].first = NoUser
        /\ requests' = [requests EXCEPT ![q].first = u]
        /\ votes' = [votes EXCEPT ![q] = @ \cup {u}]
        /\ session' = [session EXCEPT ![s] = Idle]
        /\ UNCHANGED register

\* Slip: the requestor is excluded, the first approver is not.
AnySecond(s) == session[s].first # NoUser

SecondOf(s) == session[s].first \notin {NoUser, session[s].user}

SecondApproval(s) ==
    LET q == session[s].request
        u == session[s].user
    IN  /\ MayDecide(s)
        /\ SecondOf(s)
        /\ Applicable(register, requests[q].batch)
        /\ register' = Apply(register, requests[q].batch)
        /\ requests' = [requests EXCEPT ![q].state = "approved", ![q].decided = u]
        /\ votes' = [votes EXCEPT ![q] = @ \cup {u}]
        /\ session' = [session EXCEPT ![s] = Idle]

RejectRequest(s) ==
    LET q == session[s].request
    IN  /\ MayDecide(s)
        /\ requests' = [requests EXCEPT ![q].state = "rejected", ![q].decided = session[s].user]
        /\ session' = [session EXCEPT ![s] = Idle]
        /\ UNCHANGED <<register, votes>>

----------------------------------------------------------------------------
(* What changes the register beside requests. *)

CreateZone(u) ==
    /\ u \in Architects
    /\ \E z \in Zones \ register.zones :
          register' = [register EXCEPT !.zones = @ \cup {z}]
    /\ UNCHANGED <<requests, session, votes>>

\* The checks of a creation or an edit: every address in a network, one zone to a
\* side, an admissible relation.
PassesChecks(r, pair) ==
    /\ \A a \in Source[r] \cup Destination[r] : \E c \in Cidrs : MostSpecific(register, a, c)
    /\ Admissible(register, r, pair)

\* An edit, or the restoration of a version: the rule passes the checks, its zones
\* are derived anew, a removal proposal is cleared.  An approval is withdrawn; a
\* deactivated rule comes back by a restoration only.
EditRule(r) ==
    LET pair == NewPair(register, r)
    IN  /\ PassesChecks(r, pair)
        /\ \E status \in {"open", register.status[r]} \ {"in_force"} :
              register' = [register EXCEPT
                  !.pair[r] = pair, !.removal = @ \ {r}, !.status[r] = status]
        /\ UNCHANGED <<requests, session, votes>>

\* A submission is no step here.  An approval asks the matrix for the zones the
\* rule has; a relation that is not permitted, or a removal proposal, turns it
\* into the approval of a removal.
ApproveRule(r) ==
    /\ register.status[r] = "open"
    /\ register' =
          IF Permitted(register, register.pair[r]) /\ r \notin register.removal
          THEN [register EXCEPT !.status[r] = "in_force"]
          ELSE [register EXCEPT !.status[r] = "deactivated", !.removal = @ \ {r}]
    /\ UNCHANGED <<requests, session, votes>>

----------------------------------------------------------------------------
Deciding(s) == FirstApproval(s) \/ SecondApproval(s) \/ RejectRequest(s) \/ EndDecision(s)

Next ==
    \/ \E u \in Users : FileRequest(u) \/ CreateZone(u)
    \/ \E s \in Sessions : Deciding(s) \/ \E u \in Users : OpenDecision(s, u)
    \/ \E r \in Rules : EditRule(r) \/ ApproveRule(r)

Spec == Init /\ [][Next]_vars

----------------------------------------------------------------------------
(* Properties. *)

\* The register and the rows hold what their columns can hold.
TypeOK ==
    /\ register \in Registers
    /\ requests \in [Requests ->
          [state   : {"unfiled", "pending", "approved", "rejected"},
           by      : Users \cup {NoUser},
           batch   : Offers \cup {<<>>},
           first   : Users \cup {NoUser},
           decided : Users \cup {NoUser}]]
    /\ session \in [Sessions ->
          [user    : Users \cup {NoUser},
           request : Requests \cup {NoUser},
           first   : Users \cup {NoUser}]]
    /\ votes \in [Requests -> SUBSET Users]

\* What is applied was approved by two change approvers, neither of whom is the
\* requestor, in whatever order their sessions read, lock and commit.
ApprovedByTwoOthers ==
    \A q \in Requests : requests[q].state = "approved" =>
        \E a, b \in votes[q] :
            a # b /\ {a, b} \subseteq Approvers \ {requests[q].by}

\* A decided request is never decided again: neither applied twice nor rejected
\* after it was applied.
DecidedOnce ==
    [][\A q \in Requests : requests[q].state \in {"approved", "rejected"} =>
            requests'[q] = requests[q]]_vars

\* No batch leaves a rule in force between zones whose relation is set to Block,
\* although its moves change the relations the cells of the same batch are about.
BlockLeavesNothingInForce ==
    \A r \in Rules :
        LET pair == register.pair[r]
        IN  register.status[r] = "in_force" /\ pair[1] # pair[2] =>
                register.policy[pair] # "block_all"

Applied(q) == requests[q].state # "approved" /\ requests'[q].state = "approved"

NetItems(q) == {item \in ToSet(requests[q].batch) : item.type \in NetTypes}

\* A batch whose network items only change zones leaves every rule with an
\* address in one of them on the zones its addresses have now.
RulesFollowMoves ==
    [][\A q \in Requests :
        Applied(q) /\ (\A item \in NetItems(q) : item.type = "net_update" /\ item.to = item.cidr) =>
            \A item \in NetItems(q) :
                register.network[item.cidr] # NoZone =>
                    \A r \in Touched(register, item.cidr) :
                        register'.pair[r] = NewPair(register', r)]_vars

=============================================================================
