----------------------- MODULE RuleTransactionsProofs -----------------------
(***************************************************************************)
(* Overlapping sessions behave like the register's handlers one at a time: *)
(* the invariant of RuleTransactions, its safety properties and the        *)
(* refinement of SerialSpec, for any number of rules, sessions, campaigns  *)
(* and addresses.                                                          *)
(***************************************************************************)
EXTENDS RuleTransactions, TLAPS

(* What a session makes of one row. *)

\* The content of a row in force is the one that was approved.
Vetted(row) == row.status \in InForce => row.vetted = row.content

Makes(kind, to, old, new) ==
    \/ kind \in Kinds /\ new \in After(kind, old)
    \/ kind \in Sweeps /\ old.status \in InForce /\ new = Swept(kind, old)
    \/ kind = "move" /\ to \in Addresses /\ old.status # "deleted" /\ new = Moved(old, to)
    \/ kind \in Decisions /\ old.status \in InForce /\ new = Recertified(kind, old)

Steps(old, new) ==
    /\ new \in Row
    /\ new.version = old.version + 1
    /\ old.status # "deleted"
    /\ Vetted(old) => Vetted(new)

LEMMA BumpedFields ==
    ASSUME NEW old \in Row, NEW st \in Status
    PROVE  /\ Bumped(old, st) \in Row
           /\ Bumped(old, st).version = old.version + 1
           /\ Bumped(old, st).status = st
           /\ Bumped(old, st).content = old.content
           /\ Bumped(old, st).vetted = old.vetted
           /\ Bumped(old, st).address = old.address
<1> DEFINE v == old.version + 1
<1>1. v \in Nat
  BY DEF Row
<1>2. Bumped(old, st) = [old EXCEPT !.version = v, !.status = st]
  BY DEF Bumped
<1> HIDE DEF v
<1>3. [old EXCEPT !.version = v, !.status = st] \in Row
  BY <1>1 DEF Row
<1>4. /\ [old EXCEPT !.version = v, !.status = st].version = v
      /\ [old EXCEPT !.version = v, !.status = st].status = st
      /\ [old EXCEPT !.version = v, !.status = st].content = old.content
      /\ [old EXCEPT !.version = v, !.status = st].vetted = old.vetted
      /\ [old EXCEPT !.version = v, !.status = st].address = old.address
  BY DEF Row
<1> QED BY <1>2, <1>3, <1>4 DEF v

LEMMA VettedFields ==
    ASSUME NEW row \in Row, NEW c \in Nat
    PROVE  /\ [row EXCEPT !.vetted = c] \in Row
           /\ [row EXCEPT !.vetted = c].version = row.version
           /\ [row EXCEPT !.vetted = c].content = row.content
           /\ [row EXCEPT !.vetted = c].vetted = c
BY DEF Row

LEMMA BumpedSteps ==
    ASSUME NEW old \in Row, old.status # "deleted", NEW st \in Status,
           st \in InForce => old.status \in InForce
    PROVE  Steps(old, Bumped(old, st))
BY BumpedFields DEF Steps, Vetted

LEMMA RewrittenSteps ==
    ASSUME NEW old \in Row, old.status # "deleted", NEW st \in Status \ InForce,
           NEW a \in Addresses
    PROVE  /\ Steps(old, Rewritten(old, st, a))
           /\ Rewritten(old, st, a).address = a
<1>1. old.version + 1 \in Nat
  BY DEF Row
<1>2. Bumped(old, st) \in Row /\ Bumped(old, st).version = old.version + 1 /\ Bumped(old, st).status = st
  BY BumpedFields
<1>3. /\ Rewritten(old, st, a) \in Row
      /\ Rewritten(old, st, a).version = old.version + 1
      /\ Rewritten(old, st, a).status = st
      /\ Rewritten(old, st, a).address = a
  <2> DEFINE row == Bumped(old, st)
             c   == old.version + 1
  <2>1. Rewritten(old, st, a) = [row EXCEPT !.content = c, !.address = a]
    BY DEF Rewritten
  <2>2. row \in Row /\ row.version = c /\ row.status = st /\ c \in Nat
    BY <1>1, <1>2
  <2> HIDE DEF row, c
  <2>3. /\ [row EXCEPT !.content = c, !.address = a] \in Row
        /\ [row EXCEPT !.content = c, !.address = a].version = row.version
        /\ [row EXCEPT !.content = c, !.address = a].status = row.status
        /\ [row EXCEPT !.content = c, !.address = a].address = a
    BY <2>2 DEF Row
  <2> QED BY <2>1, <2>2, <2>3 DEF c
<1> QED BY <1>3 DEF Steps, Vetted

LEMMA ApprovedSteps ==
    ASSUME NEW old \in Row, old.status # "deleted"
    PROVE  Steps(old, [Bumped(old, "approved") EXCEPT !.vetted = old.content])
<1>1. /\ Bumped(old, "approved") \in Row
      /\ Bumped(old, "approved").version = old.version + 1
      /\ Bumped(old, "approved").content = old.content
  BY BumpedFields DEF Status, InForce
<1>2. old.content \in Nat
  BY DEF Row
<1> QED BY <1>1, <1>2, VettedFields DEF Steps, Vetted

LEMMA ResetOpen ==
    ASSUME NEW st \in Status \ {"deleted"}
    PROVE  Reset(st) \in Status \ InForce
BY DEF Reset, Status, InForce

\* Whatever a handler makes of a row is a row, one version on, and content that
\* comes into force or stays there is what was approved.
LEMMA EveryHandlerSteps ==
    ASSUME NEW kind, NEW to, NEW old \in Row, NEW new, Makes(kind, to, old, new)
    PROVE  Steps(old, new)
<1>1. CASE kind \in Kinds /\ new \in After(kind, old)
  <2>0. old.status # "deleted" /\ old.status \in Status
    BY <1>1 DEF After, Row
  <2>1. CASE kind = "edit"
    <3>1. new \in Edited(old)
      BY <1>1, <2>0, <2>1 DEF After
    <3>2. PICK st \in {Reset(old.status), "draft"}, a \in Addresses : new = Rewritten(old, st, a)
      BY <3>1 DEF Edited
    <3>3. st \in Status \ InForce
      BY <2>0, ResetOpen DEF Status, InForce
    <3> QED BY <2>0, <3>2, <3>3, RewrittenSteps
  <2>2. CASE kind = "submit"
    <3>1. new = Bumped(old, "in_review")
      BY <1>1, <2>0, <2>2 DEF After
    <3> QED BY <2>0, <3>1, BumpedSteps DEF Status, InForce
  <2>3. CASE kind = "approve"
    <3>1. new \in Approved(old)
      BY <1>1, <2>0, <2>3 DEF After
    <3>2. CASE new = [Bumped(old, "approved") EXCEPT !.vetted = old.content]
      BY <2>0, <3>2, ApprovedSteps
    <3>3. CASE new = Bumped(old, "deactivated")
      BY <2>0, <3>3, BumpedSteps DEF Status, InForce
    <3> QED BY <3>1, <3>2, <3>3 DEF Approved
  <2>4. CASE kind = "reject"
    <3>1. new = Bumped(old, "rejected")
      BY <1>1, <2>0, <2>4 DEF After
    <3> QED BY <2>0, <3>1, BumpedSteps DEF Status, InForce
  <2>5. CASE kind \in {"deactivate", "delete"}
    <3>1. new = Bumped(old, "deactivated") \/ new = Bumped(old, "deleted")
      BY <1>1, <2>0, <2>5 DEF After
    <3> QED BY <2>0, <3>1, BumpedSteps DEF Status, InForce
  <2>6. CASE kind = "report"
    <3>1. new \in Reported(old)
      BY <1>1, <2>0, <2>6 DEF After
    <3>2. PICK st \in Status : /\ new = Bumped(old, st)
                               /\ st \in InForce => old.status \in InForce
      BY <2>0, <3>1 DEF Reported, Status
    <3> QED BY <2>0, <3>2, BumpedSteps
  <2>7. CASE kind = "note"
    <3>1. new = Bumped(old, old.status)
      BY <1>1, <2>0, <2>7 DEF After
    <3> QED BY <2>0, <3>1, BumpedSteps
  <2> QED BY <1>1, <2>1, <2>2, <2>3, <2>4, <2>5, <2>6, <2>7 DEF Kinds
<1>2. CASE kind \in Sweeps /\ old.status \in InForce /\ new = Swept(kind, old)
  <2>1. new = Bumped(old, "deactivated") \/ new = Bumped(old, "in_review")
    BY <1>2 DEF Swept
  <2> QED BY <1>2, <2>1, BumpedSteps DEF Status, InForce
<1>3. CASE kind = "move" /\ to \in Addresses /\ old.status # "deleted" /\ new = Moved(old, to)
  <2>1. Reset(old.status) \in Status \ InForce
    BY <1>3, ResetOpen DEF Row
  <2> QED BY <1>3, <2>1, RewrittenSteps DEF Moved
<1>4. CASE kind \in Decisions /\ old.status \in InForce /\ new = Recertified(kind, old)
  <2>1. new \in {Bumped(old, old.status), Bumped(old, "in_review"), Bumped(old, "deactivated")}
    BY <1>4 DEF Recertified, Decisions
  <2> QED BY <1>4, <2>1, BumpedSteps DEF Status, InForce
<1> QED BY <1>1, <1>2, <1>3, <1>4 DEF Makes

----------------------------------------------------------------------------
(* What a session has read and is about to write, and what has happened     *)
(* since.                                                                  *)

\* A row a session writes: as it was read, or written by another session since.
Since(r, old) ==
    /\ old.version <= rows[r].version
    /\ rows[r].version = old.version => rows[r] = old

OnRows(s) ==
    /\ DOMAIN session[s].new \subseteq Rules
    /\ \A r \in DOMAIN session[s].new :
          /\ session[s].new[r] \in Row /\ session[s].old[r] \in Row
          /\ Makes(session[s].kind, session[s].to, session[s].old[r], session[s].new[r])
          /\ Since(r, session[s].old[r])

\* Every rule that names the object and is not moved is deleted.
MovesAll(s) ==
    /\ session[s].to \in Addresses
    /\ DOMAIN session[s].new \subseteq Named
    /\ \A r \in Named \ DOMAIN session[s].new : rows[r].status = "deleted"

\* An item that is being decided is open, or its rule has been written since.
Decides(s) ==
    /\ session[s].campaign \in Campaigns
    /\ campaign[session[s].campaign] # "absent"
    /\ \A r \in DOMAIN session[s].new :
          rows[r].version = session[s].old[r].version => item[session[s].campaign][r] = "open"

WorkOK(s) ==
    /\ session[s].kind \in Writing => OnRows(s)
    /\ session[s].kind \in Kinds \cup Decisions => \E r \in Rules : DOMAIN session[s].new = {r}
    /\ session[s].kind \in Sweeps => DOMAIN session[s].new # {}
    /\ session[s].kind = "move" => MovesAll(s)
    /\ session[s].kind \in Decisions => Decides(s)
    /\ session[s].kind = "start" =>
          /\ session[s].campaign \in Campaigns
          /\ session[s].rules \in SUBSET Rules /\ session[s].rules # {}
    /\ session[s].kind = "close" =>
          /\ session[s].campaign \in Campaigns
          /\ campaign[session[s].campaign] # "absent"

RegisterOK ==
    /\ rows \in [Rules -> Row]
    /\ address \in Addresses
    /\ campaign \in [Campaigns -> {"absent", "open", "closed"}]
    /\ item \in [Campaigns -> [Rules -> Undecided \cup Decisions]]
    /\ \A r \in Rules : Vetted(rows[r])
    /\ \A c \in Campaigns, r \in Rules : campaign[c] = "absent" => item[c][r] = "none"

SerialInv ==
    /\ RegisterOK
    /\ session = [s \in Sessions |-> session[s]]
    /\ \A s \in Sessions : WorkOK(s)

----------------------------------------------------------------------------
(* Reading: a session that begins. *)

\* What other sessions have read stays true while no row is written.
LEMMA IdleKeepsWork ==
    ASSUME UNCHANGED register, NEW t, UNCHANGED session[t], WorkOK(t)
    PROVE  WorkOK(t)'
BY DEF WorkOK, OnRows, MovesAll, Decides, Since, register

LEMMA BeginKeeps ==
    ASSUME SerialInv, NEW s \in Sessions, NEW w, Begins(s, w), WorkOK(s)'
    PROVE  SerialInv'
<1>1. UNCHANGED register /\ session' = [session EXCEPT ![s] = w]
  BY DEF Begins
<1>2. RegisterOK'
  BY <1>1 DEF SerialInv, RegisterOK, register
<1>3. session' = [t \in Sessions |-> session'[t]]
  BY <1>1 DEF SerialInv
<1>4. ASSUME NEW t \in Sessions, t # s PROVE WorkOK(t)'
  BY <1>1, <1>4, IdleKeepsWork DEF SerialInv
<1> QED BY <1>2, <1>3, <1>4 DEF SerialInv

\* A session on rules it has just read.
LEMMA FreshRows ==
    ASSUME SerialInv, NEW s \in Sessions, UNCHANGED register,
           NEW D \in SUBSET Rules, DOMAIN session[s].new' = D,
           \A r \in D : /\ session[s].old'[r] = rows[r]
                        /\ Makes(session[s].kind', session[s].to', rows[r], session[s].new'[r])
    PROVE  OnRows(s)'
<1> SUFFICES ASSUME NEW r \in D
             PROVE  /\ session[s].new'[r] \in Row /\ session[s].old'[r] \in Row
                    /\ Makes(session[s].kind', session[s].to', session[s].old'[r], session[s].new'[r])
                    /\ Since(r, session[s].old[r])'
  BY DEF OnRows
<1>1. rows[r] \in Row
  BY DEF SerialInv, RegisterOK
<1>2. session[s].new'[r] \in Row
  BY <1>1, EveryHandlerSteps DEF Steps
<1>3. Since(r, session[s].old[r])'
  BY <1>1 DEF Since, Row, register
<1> QED BY <1>1, <1>2, <1>3

\* Every handler's reading is a session WorkOK allows.
LEMMA BeginRuleOK ==
    ASSUME SerialInv, NEW s \in Sessions, NEW kind \in Kinds, BeginRule(s, kind)
    PROVE  SerialInv'
<1>0. PICK r \in Rules : \E row \in After(kind, rows[r]) : Begins(s, Work(kind, [q \in {r} |-> row]))
  BY DEF BeginRule
<1>1. PICK row \in After(kind, rows[r]) : Begins(s, Work(kind, [q \in {r} |-> row]))
  BY <1>0
<1> DEFINE new == [q \in {r} |-> row]
<1>2. UNCHANGED register /\ session'[s] = Work(kind, new)
  BY <1>1 DEF Begins, SerialInv
<1>3. /\ session[s].kind' = kind /\ session[s].new' = new
      /\ session[s].old' = [q \in DOMAIN new |-> rows[q]]
  BY <1>2 DEF Work
<1>4. DOMAIN session[s].new' = {r} /\ session[s].new'[r] = row /\ session[s].old'[r] = rows[r]
  BY <1>3
<1>5. Makes(kind, session[s].to', rows[r], row)
  BY <1>1 DEF Makes
<1>6. OnRows(s)'
  BY <1>2, <1>3, <1>4, <1>5, FreshRows
<1>7. kind \notin Sweeps \cup Decisions \cup {"move", "start", "close"}
  BY DEF Kinds, Sweeps, Decisions
<1>8. WorkOK(s)'
  BY <1>3, <1>4, <1>6, <1>7 DEF WorkOK
<1> QED BY <1>1, <1>8, BeginKeeps

LEMMA BeginSweepOK ==
    ASSUME SerialInv, NEW s \in Sessions, NEW kind \in Sweeps, BeginSweep(s, kind)
    PROVE  SerialInv'
<1>1. PICK scope \in Scopes :
        /\ StandingIn(scope) # {}
        /\ Begins(s, Work(kind, [r \in StandingIn(scope) |-> Swept(kind, rows[r])]))
  BY DEF BeginSweep
<1> DEFINE D   == StandingIn(scope)
           new == [r \in D |-> Swept(kind, rows[r])]
<1>2. D \subseteq Rules /\ D # {} /\ \A r \in D : rows[r].status \in InForce
  BY <1>1, ScopeAssumption DEF StandingIn, ScopeAssumption
<1>3. UNCHANGED register /\ session'[s] = Work(kind, new)
  BY <1>1 DEF Begins, SerialInv
<1> HIDE DEF D
<1>4. /\ session[s].kind' = kind /\ session[s].new' = new
      /\ session[s].old' = [q \in DOMAIN new |-> rows[q]]
  BY <1>3 DEF Work
<1>5. DOMAIN session[s].new' = D /\ \A r \in D : /\ session[s].new'[r] = Swept(kind, rows[r])
                                              /\ session[s].old'[r] = rows[r]
  BY <1>4
<1>6. \A r \in D : Makes(kind, session[s].to', rows[r], session[s].new'[r])
  BY <1>2, <1>5 DEF Makes
<1>7. OnRows(s)'
  BY <1>2, <1>3, <1>4, <1>5, <1>6, FreshRows
<1>8. kind \notin Kinds \cup Decisions \cup {"move", "start", "close"}
  BY DEF Kinds, Sweeps, Decisions
<1>9. WorkOK(s)'
  BY <1>2, <1>4, <1>5, <1>7, <1>8 DEF WorkOK
<1> QED BY <1>1, <1>9, BeginKeeps

LEMMA BeginMoveOK ==
    ASSUME SerialInv, NEW s \in Sessions, BeginMove(s)
    PROVE  SerialInv'
<1>1. PICK a \in Addresses \ {address} :
        Begins(s, [kind |-> "move", new |-> [r \in Naming |-> Moved(rows[r], a)], to |-> a,
                   old |-> [r \in DOMAIN [q \in Naming |-> Moved(rows[q], a)] |-> rows[r]]])
  BY DEF BeginMove
<1>2. /\ Naming \subseteq Rules /\ Naming \subseteq Named
      /\ \A r \in Naming : rows[r].status # "deleted"
      /\ \A r \in Named \ Naming : rows[r].status = "deleted"
  BY RegisterAssumption DEF RegisterAssumption, Naming, Live
<1> DEFINE D   == Naming
           new == [r \in D |-> Moved(rows[r], a)]
<1>3. /\ UNCHANGED register
      /\ session'[s] = [kind |-> "move", new |-> new, to |-> a, old |-> [r \in DOMAIN new |-> rows[r]]]
  BY <1>1 DEF Begins, SerialInv
<1>a. UNCHANGED rows
  BY <1>3 DEF register
<1>b. /\ D \subseteq Rules /\ D \subseteq Named
      /\ \A r \in D : rows[r].status # "deleted"
      /\ \A r \in Named \ D : rows[r].status = "deleted"
  BY <1>2
<1> HIDE DEF D
<1>4. /\ session[s].kind' = "move" /\ session[s].new' = new /\ session[s].to' = a
      /\ session[s].old' = [q \in DOMAIN new |-> rows[q]]
  BY <1>3
<1>5. DOMAIN session[s].new' = D /\ \A r \in D : /\ session[s].new'[r] = Moved(rows[r], a)
                                              /\ session[s].old'[r] = rows[r]
  BY <1>4
<1>6. \A r \in D : Makes("move", a, rows[r], session[s].new'[r])
  BY <1>b, <1>5 DEF Makes
<1>7. OnRows(s)'
  BY <1>b, <1>3, <1>4, <1>5, <1>6, FreshRows
<1>8. MovesAll(s)'
  BY <1>a, <1>b, <1>4, <1>5 DEF MovesAll
<1>9. "move" \notin Kinds \cup Decisions \cup Sweeps
  BY DEF Kinds, Sweeps, Decisions
<1>10. WorkOK(s)'
  BY <1>4, <1>7, <1>8, <1>9 DEF WorkOK
<1> QED BY <1>1, <1>10, BeginKeeps

LEMMA BeginDecisionOK ==
    ASSUME SerialInv, NEW s \in Sessions, NEW d \in Decisions, BeginDecision(s, d)
    PROVE  SerialInv'
<1>1. PICK c \in Campaigns, r \in Rules :
        /\ campaign[c] = "open" /\ item[c][r] = "open"
        /\ rows[r].status \in InForce
        /\ Begins(s, [kind |-> d, campaign |-> c, new |-> [q \in {r} |-> Recertified(d, rows[q])],
                      old |-> [q \in {r} |-> rows[q]]])
  BY DEF BeginDecision
<1> DEFINE new == [q \in {r} |-> Recertified(d, rows[q])]
<1>2. /\ UNCHANGED register
      /\ session'[s] = [kind |-> d, campaign |-> c, new |-> new, old |-> [q \in {r} |-> rows[q]]]
  BY <1>1 DEF Begins, SerialInv
<1>3. /\ session[s].kind' = d /\ session[s].campaign' = c /\ session[s].new' = new
      /\ session[s].old' = [q \in {r} |-> rows[q]]
  BY <1>2
<1>4. /\ DOMAIN session[s].new' = {r} /\ session[s].new'[r] = Recertified(d, rows[r])
      /\ session[s].old'[r] = rows[r]
  BY <1>3
<1>5. Makes(d, session[s].to', rows[r], session[s].new'[r])
  BY <1>1, <1>4 DEF Makes
<1>6. OnRows(s)'
  BY <1>2, <1>3, <1>4, <1>5, FreshRows
<1>7. Decides(s)'
  BY <1>1, <1>2, <1>3, <1>4 DEF Decides, register
<1>8. d \notin Kinds \cup Sweeps \cup {"move", "start", "close"}
  BY DEF Kinds, Sweeps, Decisions
<1>9. WorkOK(s)'
  BY <1>3, <1>4, <1>6, <1>7, <1>8 DEF WorkOK
<1> QED BY <1>1, <1>9, BeginKeeps

LEMMA BeginCampaignOK ==
    ASSUME SerialInv, NEW s \in Sessions, BeginCampaign(s) \/ BeginClose(s)
    PROVE  SerialInv'
<1>1. {"start", "close"} \cap (Writing \cup {"move"}) = {}
  BY DEF Writing, Kinds, Sweeps, Decisions
<1>2. CASE BeginCampaign(s)
  <2>1. PICK c \in Campaigns, scope \in Scopes :
          /\ StandingIn(scope) # {}
          /\ Begins(s, [kind |-> "start", campaign |-> c, rules |-> StandingIn(scope)])
    BY <1>2 DEF BeginCampaign
  <2>2. StandingIn(scope) \in SUBSET Rules
    BY ScopeAssumption DEF StandingIn, ScopeAssumption
  <2>3. session'[s] = [kind |-> "start", campaign |-> c, rules |-> StandingIn(scope)]
    BY <2>1 DEF Begins, SerialInv
  <2>4. WorkOK(s)'
    BY <1>1, <2>1, <2>2, <2>3 DEF WorkOK, Writing
  <2> QED BY <2>1, <2>4, BeginKeeps
<1>3. CASE BeginClose(s)
  <2>1. PICK c \in Campaigns : /\ campaign[c] = "open"
                               /\ Begins(s, [kind |-> "close", campaign |-> c])
    BY <1>3 DEF BeginClose
  <2>2. session'[s] = [kind |-> "close", campaign |-> c] /\ UNCHANGED campaign
    BY <2>1 DEF Begins, SerialInv, register
  <2>3. WorkOK(s)'
    BY <1>1, <2>1, <2>2 DEF WorkOK, Writing
  <2> QED BY <2>1, <2>3, BeginKeeps
<1> QED BY <1>2, <1>3

----------------------------------------------------------------------------
(* Writing: a session that commits. *)

\* Columns written over the row that was read give the row as intended.
LEMMA WholeRow ==
    ASSUME NEW old \in Row, NEW new \in Row
    PROVE  [f \in DOMAIN old |-> IF new[f] # old[f] THEN new[f] ELSE old[f]] = new
<1>1. DOMAIN old = DOMAIN new /\ new = [f \in DOMAIN new |-> new[f]]
  BY DEF Row
<1>2. \A f \in DOMAIN old : (IF new[f] # old[f] THEN new[f] ELSE old[f]) = new[f]
  OBVIOUS
<1> QED BY <1>1, <1>2

\* A session whose versions are free writes what its handler makes of the
\* committed rows, and no other rule.
LEMMA WritesAsRead ==
    ASSUME SerialInv, NEW s \in Sessions, session[s].kind \in Writing,
           VersionsFree(s), rows' = Written(s)
    PROVE  /\ rows' = [r \in Rules |-> rows'[r]]
           /\ \A r \in DOMAIN session[s].new :
                 /\ rows'[r] = session[s].new[r]
                 /\ Makes(session[s].kind, session[s].to, rows[r], rows'[r])
                 /\ rows[r] = session[s].old[r]
           /\ \A r \in Rules \ DOMAIN session[s].new : rows'[r] = rows[r]
<1>1. OnRows(s)
  BY DEF SerialInv, WorkOK
<1>2. rows' = [r \in Rules |-> rows'[r]]
  BY DEF Written
<1>3. ASSUME NEW r \in DOMAIN session[s].new
      PROVE  /\ rows'[r] = session[s].new[r]
             /\ Makes(session[s].kind, session[s].to, rows[r], rows'[r])
             /\ rows[r] = session[s].old[r]
  <2> DEFINE old == session[s].old[r]
             new == session[s].new[r]
  <2>1. r \in Rules /\ new \in Row /\ old \in Row /\ rows[r] = old
    BY <1>1 DEF OnRows, Since, VersionsFree
  <2>2. rows'[r] = [f \in DOMAIN rows[r] |-> IF new[f] # old[f] THEN new[f] ELSE rows[r][f]]
    BY <2>1 DEF Written
  <2>3. Makes(session[s].kind, session[s].to, old, new)
    BY <1>1 DEF OnRows
  <2> HIDE DEF old, new
  <2>4. rows'[r] = new
    BY <2>1, <2>2, WholeRow
  <2> QED BY <2>1, <2>3, <2>4 DEF old, new
<1>4. \A r \in Rules \ DOMAIN session[s].new : rows'[r] = rows[r]
  BY DEF Written
<1> QED BY <1>2, <1>3, <1>4

\* What a commit does to a rule: nothing, or a handler's step.
LEMMA EveryRowSteps ==
    ASSUME SerialInv, NEW s \in Sessions, session[s].kind \in Writing,
           VersionsFree(s), rows' = Written(s)
    PROVE  /\ rows' \in [Rules -> Row]
           /\ \A r \in Rules : rows'[r] = rows[r] \/ Steps(rows[r], rows'[r])
<1>1. \A r \in Rules : rows'[r] = rows[r] \/ Makes(session[s].kind, session[s].to, rows[r], rows'[r])
  BY WritesAsRead
<1>2. \A r \in Rules : rows[r] \in Row
  BY DEF SerialInv, RegisterOK
<1>3. \A r \in Rules : rows'[r] = rows[r] \/ Steps(rows[r], rows'[r])
  BY <1>1, <1>2, EveryHandlerSteps
<1>4. \A r \in Rules : rows'[r] \in Row
  BY <1>2, <1>3 DEF Steps
<1> QED BY <1>3, <1>4, WritesAsRead

\* A commit leaves true what the other sessions have read: a row they hold is
\* as they read it or a version further, a deleted rule stays deleted, and an
\* item that is being decided changes only together with its rule.
LEMMA CommitKeepsWork ==
    ASSUME SerialInv, NEW t \in Sessions, UNCHANGED session[t],
           rows' \in [Rules -> Row],
           \A r \in Rules : rows'[r] = rows[r] \/ Steps(rows[r], rows'[r]),
           \A c \in Campaigns : campaign[c] # "absent" => campaign'[c] # "absent",
           \A c \in Campaigns, r \in Rules :
              item'[c][r] = item[c][r] \/ campaign[c] = "absent" \/ Steps(rows[r], rows'[r])
    PROVE  WorkOK(t)'
<1>1. \A r \in Rules : rows[r] \in Row /\ rows[r].version \in Nat /\ rows'[r].version \in Nat
  BY DEF SerialInv, RegisterOK, Row
<1>2. ASSUME session[t].kind \in Writing PROVE OnRows(t)'
  <2>1. OnRows(t)
    BY <1>2 DEF SerialInv, WorkOK
  <2>2. ASSUME NEW r \in Rules, NEW old \in Row, Since(r, old)
        PROVE  /\ old.version <= rows'[r].version
               /\ rows'[r].version = old.version => rows'[r] = old
    <3>1. old.version \in Nat
      BY DEF Row
    <3> QED BY <1>1, <2>2, <3>1 DEF Since, Steps
  <2> QED BY <2>1, <2>2 DEF OnRows, Since
<1>3. ASSUME session[t].kind = "move" PROVE MovesAll(t)'
  <2>1. MovesAll(t)
    BY <1>3 DEF SerialInv, WorkOK
  <2> QED BY <2>1, RegisterAssumption DEF MovesAll, Steps, RegisterAssumption
<1>4. ASSUME session[t].kind \in Decisions PROVE Decides(t)'
  <2>1. Decides(t) /\ OnRows(t)
    BY <1>4 DEF SerialInv, WorkOK, Writing
  <2>2. ASSUME NEW r \in DOMAIN session[t].new, rows'[r].version = session[t].old[r].version
        PROVE  item'[session[t].campaign][r] = "open"
    <3>1. r \in Rules /\ session[t].old[r].version \in Nat /\ Since(r, session[t].old[r])
      BY <2>1 DEF OnRows, Row
    <3>2. ~Steps(rows[r], rows'[r]) /\ rows[r].version = session[t].old[r].version
      BY <1>1, <2>2, <3>1 DEF Steps, Since
    <3>3. item[session[t].campaign][r] = "open"
      BY <2>1, <3>2 DEF Decides
    <3> QED BY <2>1, <3>1, <3>2, <3>3 DEF Decides
  <2> QED BY <2>1, <2>2 DEF Decides
<1>5. WorkOK(t)
  BY DEF SerialInv
<1>6. /\ session[t].kind \in Kinds \cup Decisions => \E r \in Rules : DOMAIN session[t].new = {r}
      /\ session[t].kind \in Sweeps => DOMAIN session[t].new # {}
      /\ session[t].kind = "start" =>
            /\ session[t].campaign \in Campaigns
            /\ session[t].rules \in SUBSET Rules /\ session[t].rules # {}
      /\ session[t].kind = "close" =>
            /\ session[t].campaign \in Campaigns
            /\ campaign'[session[t].campaign] # "absent"
  BY <1>5 DEF WorkOK
<1> QED BY <1>2, <1>3, <1>4, <1>6 DEF WorkOK

\* The session that has ended holds nothing, the others what they held.
LEMMA EndKeeps ==
    ASSUME SerialInv, NEW s \in Sessions, Ends(s), RegisterOK',
           \A r \in Rules : rows'[r] = rows[r] \/ Steps(rows[r], rows'[r]),
           \A c \in Campaigns : campaign[c] # "absent" => campaign'[c] # "absent",
           \A c \in Campaigns, r \in Rules :
              item'[c][r] = item[c][r] \/ campaign[c] = "absent" \/ Steps(rows[r], rows'[r])
    PROVE  SerialInv'
<1>1. session' = [t \in Sessions |-> session'[t]]
  BY DEF Ends, SerialInv
<1>2. session'[s] = Idle
  BY DEF Ends, SerialInv
<1>3. "idle" \notin Writing \cup Kinds \cup Decisions \cup Sweeps \cup {"move", "start", "close"}
  BY DEF Writing, Kinds, Sweeps, Decisions
<1>4. WorkOK(s)'
  BY <1>2, <1>3 DEF WorkOK, Idle
<1>5. ASSUME NEW t \in Sessions, t # s PROVE WorkOK(t)'
  <2>1. UNCHANGED session[t] /\ rows' \in [Rules -> Row]
    BY <1>5 DEF Ends, SerialInv, RegisterOK
  <2> QED BY <2>1, CommitKeepsWork
<1> QED BY <1>1, <1>4, <1>5 DEF SerialInv

\* Every row that is written keeps what InForceAsApproved asks of it.
LEMMA VettedStays ==
    ASSUME RegisterOK, \A r \in Rules : rows'[r] = rows[r] \/ Steps(rows[r], rows'[r])
    PROVE  \A r \in Rules : Vetted(rows'[r])
BY DEF RegisterOK, Steps

LEMMA CommitRulesOK ==
    ASSUME SerialInv, NEW s \in Sessions, CommitRules(s)
    PROVE  SerialInv' /\ Handled
<1>1. session[s].kind \in Writing
  BY DEF CommitRules, Writing
<1>2. /\ rows' \in [Rules -> Row]
      /\ \A r \in Rules : rows'[r] = rows[r] \/ Steps(rows[r], rows'[r])
  BY <1>1, EveryRowSteps DEF CommitRules
<1>3. SerialInv'
  <2>1. UNCHANGED <<address, campaign, item>> /\ Ends(s)
    BY DEF CommitRules
  <2>2. RegisterOK'
    BY <1>2, <2>1, VettedStays DEF SerialInv, RegisterOK
  <2> QED BY <1>2, <2>1, <2>2, EndKeeps
<1>4. /\ rows' = [r \in Rules |-> rows'[r]]
      /\ \A r \in DOMAIN session[s].new : Makes(session[s].kind, session[s].to, rows[r], rows'[r])
      /\ \A r \in Rules \ DOMAIN session[s].new : rows'[r] = rows[r]
  BY <1>1, WritesAsRead DEF CommitRules
<1>5. WorkOK(s) /\ rows = [r \in Rules |-> rows[r]]
  BY DEF SerialInv, RegisterOK
<1>6. CASE session[s].kind \in Kinds
  <2>1. PICK r \in Rules : DOMAIN session[s].new = {r}
    BY <1>5, <1>6 DEF WorkOK
  <2>2. rows' = [rows EXCEPT ![r] = rows'[r]]
    BY <1>4, <1>5, <2>1
  <2>3. rows'[r] \in After(session[s].kind, rows[r])
    BY <1>4, <1>6, <2>1 DEF Makes, Kinds, Sweeps, Decisions
  <2>4. HandleRule(session[s].kind, r)
    BY <2>2, <2>3 DEF HandleRule, CommitRules
  <2> QED BY <1>3, <1>6, <2>4 DEF Handled
<1>7. CASE session[s].kind \in Sweeps
  <2> DEFINE S == DOMAIN session[s].new
             kind == session[s].kind
  <2>1. S # {} /\ S \subseteq Rules
    BY <1>1, <1>5, <1>7 DEF WorkOK, OnRows
  <2>2. \A r \in S : rows[r].status \in InForce /\ rows'[r] = Swept(kind, rows[r])
    BY <1>4, <1>7 DEF Makes, Kinds, Sweeps, Decisions
  <2>3. rows' = [r \in Rules |-> IF r \in S THEN Swept(kind, rows[r]) ELSE rows[r]]
    <3> HIDE DEF S, kind
    <3>1. \A r \in Rules : rows'[r] = IF r \in S THEN Swept(kind, rows[r]) ELSE rows[r]
      BY <1>4, <2>2 DEF S
    <3> QED BY <1>4, <3>1
  <2>4. Sweep(kind, S)
    BY <2>1, <2>2, <2>3 DEF Sweep, CommitRules
  <2> QED BY <1>3, <1>7, <2>1, <2>4 DEF Handled
<1> QED BY <1>6, <1>7 DEF CommitRules

LEMMA CommitMoveOK ==
    ASSUME SerialInv, NEW s \in Sessions, CommitMove(s)
    PROVE  /\ SerialInv' /\ Handled
           /\ \A r \in Named : rows'[r].status = "deleted" \/ rows'[r].address = address'
<1> DEFINE a == session[s].to
           D == DOMAIN session[s].new
<1>1. session[s].kind = "move" /\ session[s].kind \in Writing
  BY DEF CommitMove, Writing
<1>2. /\ rows' \in [Rules -> Row]
      /\ \A r \in Rules : rows'[r] = rows[r] \/ Steps(rows[r], rows'[r])
  BY <1>1, EveryRowSteps DEF CommitMove
<1>3. MovesAll(s) /\ D \subseteq Rules
  BY <1>1 DEF SerialInv, WorkOK, OnRows
<1>4. SerialInv'
  <2>1. /\ UNCHANGED <<campaign, item>> /\ Ends(s)
        /\ address' \in Addresses
    BY <1>3 DEF CommitMove, MovesAll
  <2>2. RegisterOK'
    BY <1>2, <2>1, VettedStays DEF SerialInv, RegisterOK
  <2> QED BY <1>2, <2>1, <2>2, EndKeeps
<1>5. /\ rows' = [r \in Rules |-> rows'[r]]
      /\ \A r \in D : Makes(session[s].kind, a, rows[r], rows'[r])
      /\ \A r \in Rules \ D : rows'[r] = rows[r]
  BY <1>1, WritesAsRead DEF CommitMove
<1>6. \A r \in D : rows[r].status # "deleted" /\ rows'[r] = Moved(rows[r], a)
  BY <1>1, <1>5 DEF Makes, Kinds, Sweeps, Decisions
<1>7. D = Naming
  BY <1>3, <1>6 DEF MovesAll, Naming, Live
<1>8. rows' = [r \in Rules |-> IF r \in Naming THEN Moved(rows[r], a) ELSE rows[r]]
  <2>1. \A r \in Rules : rows'[r] = IF r \in Naming THEN Moved(rows[r], a) ELSE rows[r]
    BY <1>5, <1>6, <1>7
  <2> QED BY <1>5, <2>1
<1>9. a \in Addresses /\ MoveAddress(a)
  BY <1>3, <1>8 DEF MovesAll, MoveAddress, CommitMove
<1>10. ASSUME NEW r \in Named PROVE rows'[r].status = "deleted" \/ rows'[r].address = address'
  <2>1. CASE r \in D
    <3>1. rows[r] \in Row /\ rows[r].status \in Status \ {"deleted"}
      BY <1>3, <1>6, <2>1 DEF SerialInv, RegisterOK, Row
    <3>2. Moved(rows[r], a).address = a
      BY <1>9, <3>1, ResetOpen, RewrittenSteps DEF Moved
    <3> QED BY <1>6, <2>1, <3>2 DEF CommitMove
  <2>2. CASE r \notin D
    BY <1>3, <1>5, <2>2, RegisterAssumption DEF MovesAll, RegisterAssumption
  <2> QED BY <2>1, <2>2
<1> QED BY <1>4, <1>9, <1>10 DEF Handled

LEMMA CommitCampaignOK ==
    ASSUME SerialInv, NEW s \in Sessions, CommitCampaign(s)
    PROVE  SerialInv' /\ Handled
<1> DEFINE c == session[s].campaign
           S == session[s].rules
<1>1. /\ c \in Campaigns /\ S \in SUBSET Rules /\ S # {}
      /\ campaign[c] = "absent"
  BY DEF SerialInv, WorkOK, CommitCampaign
<1>2. StartCampaign(c, S)
  BY <1>1 DEF StartCampaign, CommitCampaign
<1>3. /\ campaign' \in [Campaigns -> {"absent", "open", "closed"}]
      /\ item' \in [Campaigns -> [Rules -> Undecided \cup Decisions]]
  <2>1. [r \in Rules |-> IF r \in S THEN "open" ELSE "none"] \in [Rules -> Undecided \cup Decisions]
    BY DEF Undecided
  <2> HIDE DEF S, c
  <2> QED BY <1>2, <2>1 DEF StartCampaign, SerialInv, RegisterOK
<1>4. /\ campaign'[c] = "open"
      /\ \A d \in Campaigns : d # c => campaign'[d] = campaign[d] /\ item'[d] = item[d]
  BY <1>1, <1>2 DEF StartCampaign, SerialInv, RegisterOK
<1>5. UNCHANGED <<rows, address>> /\ Ends(s)
  BY DEF CommitCampaign
<1>6. RegisterOK'
  <2>1. \A d \in Campaigns, r \in Rules : campaign'[d] = "absent" => item'[d][r] = "none"
    BY <1>4 DEF SerialInv, RegisterOK
  <2> QED BY <1>3, <1>5, <2>1 DEF SerialInv, RegisterOK
<1>7. SerialInv'
  BY <1>1, <1>4, <1>5, <1>6, EndKeeps
<1> QED BY <1>1, <1>2, <1>7 DEF Handled

LEMMA CommitDecisionOK ==
    ASSUME SerialInv, NEW s \in Sessions, CommitDecision(s)
    PROVE  /\ SerialInv'
           /\ \E c \in Campaigns, r \in Rules, d \in Decisions : DecideItem(c, r, d)
<1> DEFINE c == session[s].campaign
           d == session[s].kind
<1>1. d \in Decisions /\ d \in Writing
  BY DEF CommitDecision, Writing
<1>2. /\ rows' \in [Rules -> Row]
      /\ \A q \in Rules : rows'[q] = rows[q] \/ Steps(rows[q], rows'[q])
  BY <1>1, EveryRowSteps DEF CommitDecision
<1>3. PICK r \in Rules : DOMAIN session[s].new = {r}
  BY <1>1 DEF SerialInv, WorkOK
<1>4. /\ rows' = [q \in Rules |-> rows'[q]]
      /\ Makes(d, session[s].to, rows[r], rows'[r])
      /\ rows[r] = session[s].old[r]
      /\ \A q \in Rules \ {r} : rows'[q] = rows[q]
  BY <1>1, <1>3, WritesAsRead DEF CommitDecision
<1>5. rows[r].status \in InForce /\ rows'[r] = Recertified(d, rows[r])
  BY <1>1, <1>4 DEF Makes, Kinds, Sweeps, Decisions
<1>6. Steps(rows[r], rows'[r])
  BY <1>4, EveryHandlerSteps DEF SerialInv, RegisterOK
<1>7. c \in Campaigns /\ campaign[c] # "absent" /\ item[c][r] = "open"
  BY <1>1, <1>3, <1>4 DEF SerialInv, WorkOK, Decides
<1>8. rows' = [rows EXCEPT ![r] = Recertified(d, @)]
  <2>1. rows = [q \in Rules |-> rows[q]]
    BY DEF SerialInv, RegisterOK
  <2> QED BY <1>4, <1>5, <2>1
<1>9. item' = [item EXCEPT ![c][r] = d]
  <2>1. item[c] = [q \in Rules |-> item[c][q]] /\ item = [e \in Campaigns |-> item[e]]
    BY <1>7 DEF SerialInv, RegisterOK
  <2>2. item' = [item EXCEPT ![c] = [q \in Rules |-> IF q \in {r} THEN d ELSE item[c][q]]]
    BY <1>3 DEF CommitDecision
  <2>3. [q \in Rules |-> IF q \in {r} THEN d ELSE item[c][q]] = [item[c] EXCEPT ![r] = d]
    BY <2>1
  <2> HIDE DEF c, d
  <2> QED BY <2>2, <2>3
<1>10. DecideItem(c, r, d)
  BY <1>5, <1>7, <1>8, <1>9 DEF DecideItem, CommitDecision
<1>11. UNCHANGED <<address, campaign>> /\ Ends(s)
  BY DEF CommitDecision
<1>12. /\ item' \in [Campaigns -> [Rules -> Undecided \cup Decisions]]
       /\ \A e \in Campaigns, q \in Rules : item'[e][q] = item[e][q] \/ (e = c /\ q = r)
  <2> HIDE DEF c, d
  <2> QED BY <1>1, <1>7, <1>9 DEF SerialInv, RegisterOK
<1>13. RegisterOK'
  <2>1. \A e \in Campaigns, q \in Rules : campaign'[e] = "absent" => item'[e][q] = "none"
    BY <1>7, <1>11, <1>12 DEF SerialInv, RegisterOK
  <2> QED BY <1>2, <1>11, <1>12, <2>1, VettedStays DEF SerialInv, RegisterOK
<1>14. SerialInv'
  BY <1>2, <1>6, <1>11, <1>12, <1>13, EndKeeps
<1> QED BY <1>1, <1>7, <1>10, <1>14

LEMMA CommitCloseOK ==
    ASSUME SerialInv, NEW s \in Sessions, CommitClose(s)
    PROVE  SerialInv' /\ (Handled \/ UNCHANGED register)
<1> DEFINE c == session[s].campaign
<1>1. c \in Campaigns /\ campaign[c] \in {"open", "closed"}
  BY DEF SerialInv, WorkOK, CommitClose, RegisterOK
<1>2. /\ campaign' = [campaign EXCEPT ![c] = "closed"]
      /\ UNCHANGED <<rows, address, item>> /\ Ends(s)
  BY DEF CommitClose
<1>3. /\ campaign' \in [Campaigns -> {"absent", "open", "closed"}]
      /\ \A d \in Campaigns : campaign'[d] = campaign[d] \/ (d = c /\ campaign'[d] = "closed")
  <2> HIDE DEF c
  <2> QED BY <1>2 DEF SerialInv, RegisterOK
<1>4. RegisterOK'
  BY <1>1, <1>2, <1>3 DEF SerialInv, RegisterOK
<1>5. SerialInv'
  BY <1>2, <1>3, <1>4, EndKeeps
<1>6. CASE campaign[c] = "open"
  BY <1>1, <1>2, <1>5, <1>6 DEF Handled, CloseCampaign
<1>7. CASE campaign[c] = "closed"
  <2>1. campaign' = campaign
    <3> HIDE DEF c
    <3> QED BY <1>1, <1>2, <1>7 DEF SerialInv, RegisterOK
  <2> QED BY <1>2, <1>5, <2>1 DEF register
<1> QED BY <1>1, <1>6, <1>7

\* A session that fails or is given up leaves the register alone.
LEMMA EndedOK ==
    ASSUME SerialInv, NEW s \in Sessions, Conflict(s) \/ Abandon(s)
    PROVE  SerialInv' /\ UNCHANGED register
<1>1. UNCHANGED register /\ Ends(s)
  BY DEF Conflict, Abandon
<1>2. RegisterOK'
  BY <1>1 DEF SerialInv, RegisterOK, register
<1> QED BY <1>1, <1>2, EndKeeps DEF register

----------------------------------------------------------------------------
(* The theorems. *)

LEMMA InitEstablishes == Init => SerialInv
<1> SUFFICES ASSUME Init PROVE SerialInv
  OBVIOUS
<1>1. \A r \in Rules : rows[r] \in Row /\ Vetted(rows[r])
  <2> SUFFICES ASSUME NEW r \in Rules PROVE rows[r] \in Row /\ Vetted(rows[r])
    OBVIOUS
  <2>1. PICK st \in {"in_review", "active"} :
          rows[r] = [version |-> 0, status |-> st, content |-> 0, vetted |-> 0, address |-> address]
    BY DEF Init, RegisterInit
  <2>2. st \in Status /\ address \in Addresses
    BY DEF Status, InForce, Init, RegisterInit
  <2> QED BY <2>1, <2>2 DEF Row, Vetted
<1>2. rows \in [Rules -> Row]
  BY <1>1 DEF Init, RegisterInit
<1>3. RegisterOK
  BY <1>1, <1>2 DEF Init, RegisterInit, RegisterOK, Undecided
<1>4. "idle" \notin Writing \cup Kinds \cup Decisions \cup Sweeps \cup {"move", "start", "close"}
  BY DEF Writing, Kinds, Sweeps, Decisions
<1>5. \A s \in Sessions : WorkOK(s)
  BY <1>4 DEF Init, WorkOK, Idle
<1> QED BY <1>3, <1>5 DEF SerialInv, Init

\* A step of a session is a handler's step or leaves the register alone.
LEMMA EveryStep ==
    ASSUME SerialInv, Next
    PROVE  /\ SerialInv' /\ (Handled \/ UNCHANGED register)
           /\ address' # address =>
                 \A r \in Named : rows'[r].status = "deleted" \/ rows'[r].address = address'
<1>1. PICK s \in Sessions :
        \/ \E kind \in Kinds : BeginRule(s, kind)
        \/ \E kind \in Sweeps : BeginSweep(s, kind)
        \/ BeginMove(s)
        \/ BeginCampaign(s)
        \/ \E d \in Decisions : BeginDecision(s, d)
        \/ BeginClose(s)
        \/ CommitRules(s) \/ CommitMove(s) \/ CommitCampaign(s)
        \/ CommitDecision(s) \/ CommitClose(s)
        \/ Conflict(s) \/ Abandon(s)
  BY DEF Next
<1>2. CASE \E kind \in Kinds : BeginRule(s, kind)
  BY <1>2, BeginRuleOK DEF BeginRule, Begins, register
<1>3. CASE \E kind \in Sweeps : BeginSweep(s, kind)
  BY <1>3, BeginSweepOK DEF BeginSweep, Begins, register
<1>4. CASE BeginMove(s)
  BY <1>4, BeginMoveOK DEF BeginMove, Begins, register
<1>5. CASE BeginCampaign(s) \/ BeginClose(s)
  BY <1>5, BeginCampaignOK DEF BeginCampaign, BeginClose, Begins, register
<1>6. CASE \E d \in Decisions : BeginDecision(s, d)
  BY <1>6, BeginDecisionOK DEF BeginDecision, Begins, register
<1>7. CASE CommitRules(s)
  BY <1>7, CommitRulesOK DEF CommitRules
<1>8. CASE CommitMove(s)
  BY <1>8, CommitMoveOK
<1>9. CASE CommitCampaign(s)
  BY <1>9, CommitCampaignOK DEF CommitCampaign
<1>10. CASE CommitDecision(s)
  BY <1>10, CommitDecisionOK DEF CommitDecision, Handled
<1>11. CASE CommitClose(s)
  BY <1>11, CommitCloseOK DEF CommitClose
<1>12. CASE Conflict(s) \/ Abandon(s)
  BY <1>12, EndedOK DEF register
<1> QED BY <1>1, <1>2, <1>3, <1>4, <1>5, <1>6, <1>7, <1>8, <1>9, <1>10, <1>11, <1>12

\* The invariant: what a session has read is what the row still holds, or the
\* row has gone a version further.
THEOREM SerialInvariant == Spec => []SerialInv
<1>1. SerialInv /\ UNCHANGED vars => SerialInv'
  BY DEF SerialInv, RegisterOK, WorkOK, OnRows, MovesAll, Decides, Since, vars, register
<1>2. SerialInv /\ [Next]_vars => SerialInv'
  BY <1>1, EveryStep
<1> QED BY InitEstablishes, <1>2, PTL DEF Spec

\* Every row, and every row a session is about to write, holds what its columns
\* can hold.
THEOREM TypeCorrect == Spec => []TypeOK
<1>1. SerialInv => TypeOK
  BY DEF SerialInv, RegisterOK, WorkOK, OnRows, TypeOK
<1> QED BY SerialInvariant, <1>1, PTL

\* What stands in force is what the approving session saw.
THEOREM ApprovedContentStands == Spec => []InForceAsApproved
<1>1. SerialInv => InForceAsApproved
  BY DEF SerialInv, RegisterOK, Vetted, InForceAsApproved
<1> QED BY SerialInvariant, <1>1, PTL

\* Overlapping sessions behave like the handlers one at a time.
THEOREM SessionsAreSerial == Spec => SerialSpec
<1>1. Init => RegisterInit
  BY DEF Init
<1>2. SerialInv /\ [Next]_vars => [RegisterNext]_register
  <2> SUFFICES ASSUME SerialInv, [Next]_vars PROVE [RegisterNext]_register
    OBVIOUS
  <2>1. CASE Next
    BY <2>1, EveryStep DEF RegisterNext
  <2>2. CASE UNCHANGED vars
    BY <2>2 DEF vars
  <2> QED BY <2>1, <2>2
<1> QED BY SerialInvariant, <1>1, <1>2, PTL DEF Spec, SerialSpec

\* An address object moves in every live rule that names it, in one step.
THEOREM NamedRulesMoveTogether == Spec => NamedMoveTogether
<1>1. SerialInv /\ [Next]_vars =>
        [address' # address =>
            \A r \in Named : rows'[r].status = "deleted" \/ rows'[r].address = address']_vars
  BY EveryStep
<1> QED BY SerialInvariant, <1>1, PTL DEF Spec, NamedMoveTogether

\* A decision is never replaced, and its rule takes the step it stands for.
THEOREM DecisionsStand == Spec => DecisionStands
<1> DEFINE Stands(c, r) ==
        item'[c][r] # item[c][r] =>
            \/ item[c][r] = "none"
            \/ /\ item[c][r] = "open"
               /\ rows[r].status \in InForce
               /\ rows'[r] = Recertified(item'[c][r], rows[r])
<1>1. ASSUME SerialInv, Handled, NEW c \in Campaigns, NEW r \in Rules
      PROVE  Stands(c, r)
  <2>1. ASSUME item' = item PROVE Stands(c, r)
    BY <2>1
  <2>2. ASSUME NEW e \in Campaigns, NEW S, StartCampaign(e, S) PROVE Stands(c, r)
    <3>1. CASE c = e
      <4>1. item[c][r] = "none"
        BY <1>1, <2>2, <3>1 DEF StartCampaign, SerialInv, RegisterOK
      <4> QED BY <4>1
    <3>2. CASE c # e
      BY <1>1, <2>2, <3>2 DEF StartCampaign, SerialInv, RegisterOK
    <3> QED BY <3>1, <3>2
  <2>3. ASSUME NEW e \in Campaigns, NEW q \in Rules, NEW d \in Decisions, DecideItem(e, q, d)
        PROVE  Stands(c, r)
    <3>1. CASE c = e /\ r = q
      <4> HIDE DEF Stands
      <4>1. item'[c][r] = d
        BY <1>1, <2>3, <3>1 DEF DecideItem, SerialInv, RegisterOK
      <4>2. rows'[r] = Recertified(d, rows[r])
        BY <1>1, <2>3, <3>1 DEF DecideItem, SerialInv, RegisterOK
      <4>3. item[c][r] = "open" /\ rows[r].status \in InForce
        BY <2>3, <3>1 DEF DecideItem
      <4> QED BY <4>1, <4>2, <4>3 DEF Stands
    <3>2. CASE c # e \/ r # q
      <4>1. item'[c][r] = item[c][r]
        BY <1>1, <2>3, <3>2 DEF DecideItem, SerialInv, RegisterOK
      <4> QED BY <4>1
    <3> QED BY <3>1, <3>2
  <2> HIDE DEF Stands
  <2> QED BY <1>1, <2>1, <2>2, <2>3 DEF Handled, HandleRule, Sweep, MoveAddress, CloseCampaign
<1>2. ASSUME SerialInv, [Next]_vars, NEW c \in Campaigns, NEW r \in Rules
      PROVE  Stands(c, r)
  <2>1. CASE Next
    <3>1. Handled \/ item' = item
      BY <1>2, <2>1, EveryStep DEF register
    <3> QED BY <1>1, <1>2, <3>1
  <2>2. CASE UNCHANGED vars
    BY <2>2 DEF vars, register
  <2> QED BY <1>2, <2>1, <2>2
<1>3. SerialInv /\ [Next]_vars => [\A c \in Campaigns, r \in Rules : Stands(c, r)]_vars
  BY <1>2
<1> QED BY SerialInvariant, <1>3, PTL DEF Spec, DecisionStands

=============================================================================
