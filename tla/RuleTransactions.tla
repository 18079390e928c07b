-------------------------- MODULE RuleTransactions --------------------------
(***************************************************************************)
(* The handlers of RuleRegister in overlapping sessions.                   *)
(*                                                                         *)
(* A handler reads the committed rows, decides on them and commits later;  *)
(* other sessions commit in between.  Nothing is locked.  A row is written *)
(* column by column, and every handler adds a version to every rule it     *)
(* writes: the pair (rule, version) is unique, so that the session that    *)
(* commits second fails as a whole.                                        *)
(*                                                                         *)
(* A decision on a campaign's item is flushed, and on a conflict rolled    *)
(* back, inside audit.record(); the effect on the rows is the same.        *)
(***************************************************************************)
EXTENDS RuleRegister

CONSTANTS
    Sessions,      \* requests and jobs that run at the same time
    Scopes         \* the rules of an application, a relation, a campaign's scope

ASSUME ScopeAssumption == Scopes \subseteq SUBSET Rules

VARIABLES
    session      \* what each session has read and is about to write

vars == <<register, session>>

Idle == [kind |-> "idle"]

Init == RegisterInit /\ session = [s \in Sessions |-> Idle]

----------------------------------------------------------------------------
(* Reading. *)

Within(new) == \A r \in DOMAIN new : new[r].version <= MaxVersion[r]

Begins(s, work) ==
    /\ session[s] = Idle
    /\ session' = [session EXCEPT ![s] = work]
    /\ UNCHANGED register

\* A session on the rules in new, with what it has read of them.
Work(kind, new) == [kind |-> kind, new |-> new, old |-> [r \in DOMAIN new |-> rows[r]]]

BeginRule(s, kind) ==
    \E r \in Rules : \E row \in After(kind, rows[r]) :
        LET new == [q \in {r} |-> row]
        IN  Within(new) /\ Begins(s, Work(kind, new))

StandingIn(scope) == {r \in scope : rows[r].status \in InForce}

BeginSweep(s, kind) ==
    \E scope \in Scopes :
        LET new == [r \in StandingIn(scope) |-> Swept(kind, rows[r])]
        IN  /\ StandingIn(scope) # {}
            /\ Within(new) /\ Begins(s, Work(kind, new))

BeginMove(s) ==
    \E a \in Addresses \ {address} :
        LET new == [r \in Naming |-> Moved(rows[r], a)]
        IN  Within(new) /\ Begins(s, [kind |-> "move", new |-> new, to |-> a,
                                      old |-> [r \in DOMAIN new |-> rows[r]]])

BeginCampaign(s) ==
    \E c \in Campaigns, scope \in Scopes :
        /\ campaign[c] = "absent"
        /\ StandingIn(scope) # {}
        /\ Begins(s, [kind |-> "start", campaign |-> c, rules |-> StandingIn(scope)])

\* _get_open_item() and the check that the rule is in force.
BeginDecision(s, d) ==
    \E c \in Campaigns, r \in Rules :
        /\ campaign[c] = "open" /\ item[c][r] = "open"
        /\ rows[r].status \in InForce
        /\ LET new == [q \in {r} |-> Recertified(d, rows[q])]
           IN  Within(new) /\ Begins(s, [kind |-> d, campaign |-> c, new |-> new,
                                         old |-> [q \in {r} |-> rows[q]]])

BeginClose(s) ==
    \E c \in Campaigns :
        campaign[c] = "open" /\ Begins(s, [kind |-> "close", campaign |-> c])

----------------------------------------------------------------------------
(* Writing. *)

\* Slip: two versions of a rule may carry the same number.
NeverTaken(s) == TRUE

\* No other session has written a version of any of the rules since they were
\* read: otherwise the pair (rule, version) exists already.
VersionsFree(s) ==
    \A r \in DOMAIN session[s].new : rows[r].version = session[s].old[r].version

\* A commit writes the columns the session has changed, in all of its rows.
Written(s) ==
    LET old == session[s].old
        new == session[s].new
    IN  [r \in Rules |->
            IF r \notin DOMAIN new THEN rows[r]
            ELSE [f \in DOMAIN rows[r] |-> IF new[r][f] # old[r][f] THEN new[r][f]
                                           ELSE rows[r][f]]]

Ends(s) == session' = [session EXCEPT ![s] = Idle]

CommitRules(s) ==
    /\ session[s].kind \in Kinds \cup Sweeps
    /\ VersionsFree(s)
    /\ rows' = Written(s)
    /\ Ends(s)
    /\ UNCHANGED <<address, campaign, item>>

CommitMove(s) ==
    /\ session[s].kind = "move"
    /\ VersionsFree(s)
    /\ rows' = Written(s)
    /\ address' = session[s].to
    /\ Ends(s)
    /\ UNCHANGED <<campaign, item>>

CommitCampaign(s) ==
    /\ session[s].kind = "start"
    /\ campaign[session[s].campaign] = "absent"
    /\ campaign' = [campaign EXCEPT ![session[s].campaign] = "open"]
    /\ item' = [item EXCEPT ![session[s].campaign] =
                    [r \in Rules |-> IF r \in session[s].rules THEN "open" ELSE "none"]]
    /\ Ends(s)
    /\ UNCHANGED <<rows, address>>

CommitDecision(s) ==
    /\ session[s].kind \in Decisions
    /\ VersionsFree(s)
    /\ rows' = Written(s)
    /\ item' = [item EXCEPT ![session[s].campaign] =
                    [r \in Rules |-> IF r \in DOMAIN session[s].new THEN session[s].kind ELSE @[r]]]
    /\ Ends(s)
    /\ UNCHANGED <<address, campaign>>

CommitClose(s) ==
    /\ session[s].kind = "close"
    /\ campaign' = [campaign EXCEPT ![session[s].campaign] = "closed"]
    /\ Ends(s)
    /\ UNCHANGED <<rows, address, item>>

\* The sessions that write rules.
Writing == Kinds \cup Sweeps \cup {"move"} \cup Decisions

\* The unique pair is taken: the transaction fails as a whole.
Conflict(s) ==
    /\ session[s].kind \in Writing
    /\ ~VersionsFree(s)
    /\ Ends(s)
    /\ UNCHANGED register

\* A check that refuses after the read, a lost connection, a restart.
Abandon(s) ==
    /\ session[s] # Idle
    /\ Ends(s)
    /\ UNCHANGED register

----------------------------------------------------------------------------
Next ==
    \E s \in Sessions :
        \/ \E kind \in Kinds : BeginRule(s, kind)
        \/ \E kind \in Sweeps : BeginSweep(s, kind)
        \/ BeginMove(s)
        \/ BeginCampaign(s)
        \/ \E d \in Decisions : BeginDecision(s, d)
        \/ BeginClose(s)
        \/ CommitRules(s) \/ CommitMove(s) \/ CommitCampaign(s)
        \/ CommitDecision(s) \/ CommitClose(s)
        \/ Conflict(s) \/ Abandon(s)

Spec == Init /\ [][Next]_vars

----------------------------------------------------------------------------
(* Properties. *)

\* Every row holds values its columns can hold, and every session writes such.
TypeOK ==
    /\ rows \in [Rules -> Row]
    /\ address \in Addresses
    /\ campaign \in [Campaigns -> {"absent", "open", "closed"}]
    /\ item \in [Campaigns -> [Rules -> Undecided \cup Decisions]]
    /\ \A s \in Sessions : session[s].kind \in Writing =>
          \A r \in DOMAIN session[s].new : session[s].new[r] \in Row

\* What stands in force is the content the approving session had before it: no
\* edit, address change or restored version slips between its read and its
\* commit.
InForceAsApproved ==
    \A r \in Rules : rows[r].status \in InForce => rows[r].vetted = rows[r].content

\* The address object moves in every rule that names it or in none: a step that
\* moves the object leaves no live rule behind on another address.
NamedMoveTogether ==
    [][address' # address =>
        \A r \in Named : rows'[r].status = "deleted" \/ rows'[r].address = address']_vars

\* "Refused rather than overwritten: who decided is the point of the record":
\* a decision on an item is never replaced, and with it the rule takes the
\* step the decision stands for.
DecisionStands ==
    [][\A c \in Campaigns, r \in Rules : item'[c][r] # item[c][r] =>
        \/ item[c][r] = "none"
        \/ /\ item[c][r] = "open"
           /\ rows[r].status \in InForce
           /\ rows'[r] = Recertified(item'[c][r], rows[r])]_vars

=============================================================================
