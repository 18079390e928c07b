# Permitra in TLA+

Permitra keeps an organisation's firewall rules: they are requested, reviewed,
approved by a second person, rolled out on firewalls and fabrics, recertified,
and taken back. This directory models what happens to a rule, who may do it, and
what the rest of the system promises around it: the communication matrix that
decides what is admissible, the inventory rules refer to, the audit log that
records every step, the sign-in that says who acts, and the devices that enforce
the result. TLC checks the models on small instances; TLAPS proves the central
claims for every value of the constants.

Run one check with `tlc -workers 2 -config lifecycle.cfg MCRuleLifecycle.tla`, one proof
with `tlapm ReviewHistoryProofs.tla`. `PROJECT.json` ties every definition to the
lines it models, every property to a plausible mistake that breaks it, and every
known hazard to the properties that look at it. A definition commented as a *slip*
is such a mistake; no action uses it.

## The system

A FastAPI application (`backend/app`) over one relational database. Endpoints are
synchronous and run in a thread pool, each with a session of its own
(`autoflush=False`, READ COMMITTED on PostgreSQL); a handler ends in one commit,
with few exceptions. `login()` is the one asynchronous handler: it runs on the event loop, one at a
time. Background jobs (`main.py`) run in threads beside them:
validity once a day, emergency windows every 15 minutes, SIEM delivery every
10 seconds with a backoff, audit checkpoints and retention every hour, the re-encryption
once at every start. There is one backend process by design (`DEPLOYMENT.md:46`).
Components share state through the database only. There are no messages between them, but one
component's decision changes another's rows: a matrix decision sends rules back into
review, a moved network changes their zones, a renamed address or a redefined group rewrites
their content.

| component | state it keeps | operations | reaches into | hard behaviour | correct when |
|---|---|---|---|---|---|
| Rule lifecycle (`rules_router`, `expiry`, `models`) | `Rule`, its status, parties, components with rollout state, removal proposal, two deadlines; `RuleVersion` snapshots | create, edit, restore, submit, approve, reject, deactivate, delete, report rollout, extend, ticket number, two jobs | zone checks, notifications | long legal sequences; two people and a job on the same rule | what is in force is admissible, approved, and rolled out as it says |
| Separation of duties (`accounts_involved`) | none: folded out of the versions | asked by every approval | versions of every other component | versions with and without a status, decisions inside and outside the review, handovers | nobody approves what they shaped |
| Requestor handover | `pending_requestor`, `handover_proposed_by` | propose, confirm, cancel | accounts | a proposal outlives a decision | the old and the new requestor both stay barred |
| Emergency change | `emergency_approval_due` | declare, decide, run out | zone checks | the clock against an edit or a decision | a change nobody approves is taken back |
| Application retirement | removal proposals | one call for all rules of an application | rules | a proposal over rejections and resubmissions | no rule returns to force with a proposal on it |
| Zone matrix (`zones_router`) | `ZonePolicy`, `ZonePolicyChange` batches | request, first and second approval, reject, direct settings | rules in force | two approvers at once, batches of several kinds applied in order, state read before the lock | two other accounts approved what is applied; a Block leaves nothing in force |
| Network registry (`zones_router`, `zone_check`) | `ZoneNetwork` | add, move, delete through batches; reassessment | rules' zones | which rules a move reaches | a rule's zones are those of its addresses |
| Segments (`segments`, `segments_router`) | segments, their cells, the zone's default | create, change, delete, decide cells and default | rules inside the zone | three ways to become inadmissible, each found by another query | what is in force is admitted by the segment matrix |
| Groups and workloads (`groups`, `objects_router`, `rule_recheck`, `workloads_router`, `netbox_router`) | groups, inventory | define, redefine, enter, import | content of many rules | all rules or none; which groups a change reaches | a rule has the addresses its groups have |
| Address objects (`objects_router`) | names for addresses | move, rename | content of many rules | all rules or none | the object and its rules move together |
| Recertification (`recert_router`) | campaigns, items | create, confirm, rework, retire, close | rules | two reviewers decide one item; a rule changes under an open item | an item is decided once, and about the rule as it stands |
| Audit (`audit`, `main`) | hash chain, checkpoints, seals, delivery state | record, deliver, checkpoint, collapse, verify | the SIEM | crash between delivery and commit; retention against delivery | the chain verifies, and nothing is removed before it was delivered |
| Sign-in (`auth`, `auth_router`, `totp`, `users_router`) | password, failure counter, lock, second factor, passkeys, one-time links, the moment sessions are valid from | login, second factor, reset, change, administration | every endpoint | requests that overlap write one row | a failure counts, a code works once, a revocation lasts |
| Key rotation (`key_rotation`, `crypto`) | keys of two settings, sealed columns | re-encrypt at start | second factors | a pass fails half-way, a key is dropped too early | every seed is readable |
| Exporters, drift (`exporters`, `config_blocks`, `config_semantics`, `drift`) | the configuration uploaded last | export, upload, compare | devices | three moments compared with each other, policies merged by name | a report in sync says what the device permits |
| Components, routing, paths (`component_resolution`, `routing`, path analysis) | components, links, address map | derive the components of a rule, analyse a connection | rollout | several equally short routes | every device on every route is asked |
| Conflicts, risk, reports, dashboard, coverage | none | read | - | none: sequential text and arithmetic | - |
| Notifications, mail, change management | none of the rule's | calls after the commit | outside services | failure is ignored by design | nothing of the rule depends on them |
| Migrations, wording, frontend, scripts, demo data | - | - | - | - | not part of the core logic |

## The modules

| module | what it is | models |
|---|---|---|
| `RuleLifecycle` | one rule, every handler and job that writes to it as one action | `rules_router.py`, `expiry.py`, and the parts of `zones_router.py`, `objects_router.py`, `rule_recheck.py`, `recert_router.py` and `users_router.py` that reach a rule |
| `ReviewHistory` | `RuleLifecycle` with two history variables: who really wrote since the content was opened, who approved it | nothing of its own; it says what separation of duties is about |
| `FourEyes` | abstract: content is opened, shaped, approved by somebody else, closed | what `docs/CONCEPTS.md` promises |
| `SinceDecision` | `RuleLifecycle` with the set by which the documentation defines separation of duties | `docs/CONCEPTS.md:47` and the docstring of `accounts_involved()` |
| `RuleRegister` | abstract: several rules, an address object and campaigns, every handler as one step | the read-to-write content of the handlers |
| `RuleTransactions` | the same handlers in sessions that read, and commit later | sessions, the unique pair of `RuleVersion`, `recert_router.py`, `objects_router.py` |
| `ZoneRegister` | zones, networks, matrix and what rules take from them as one record, and what an approved request does to it, as operators | `zone_check.py`, the second half of `_decide_change()` with everything it calls |
| `MatrixRequests` | requests, the sessions that decide them, the register they change | `_create_batch()` and `_decide_change()` of `zones_router.py` |
| `Groups` | the inventory, groups, selectors, most specific match | `groups.py` |
| `Segments` | segments of a zone and the matrix between them, as operators | `segments.py` |
| `Inventory` | rules that refer to groups, and every change of inventory, groups and segments that reaches them | `rule_recheck.py`, `objects_router.py`, `workloads_router.py`, `netbox_router.py`, `segments_router.py`, `component_resolution.py` |
| `SignIn` | one account with its login, requests, links, sessions and keys | `auth_router.py`, `auth.py`, `users_router.py`, `totp.py`, `crypto.py`, `key_rotation.py` |
| `EvidenceLog` | abstract: what is written arrives in order, nothing queued leaves before it arrived | `docs/AUDIT.md` |
| `AuditChain` | the log in its statements: recording, checkpoints, retention, delivery, restart, loss | `audit.py`, the delivery job of `main.py` |
| `DeviceConfig` | a rule as a configuration, and a configuration read back, as operators | two exporters, `config_blocks.py`, `config_semantics.py` |
| `Devices` | register, export, device, upload and the report that compares them | `drift.py`, the export and upload handlers |
| `PathAnalysis` | the search for all shortest routes as a loop, and the answer made of it | `routing.py`, the path analysis of `rules_router.py` |
| `*Proofs` | theorems about the module they are named after and the modules it extends | |
| `MC*` | the casts for TLC | |

The modules look at one rule from several sides. `RuleLifecycle` has its
whole workflow and lets the matrix give any verdict at any time; `MatrixRequests` computes the
verdict from networks, zones and cells for rules with three statuses; `Inventory` computes
addresses, zones and segment verdicts from groups; `RuleTransactions` drops all verdicts and asks only what overlapping
sessions do to the rows. `FourEyes`, `RuleRegister` and `EvidenceLog` are abstract specifications
that the detailed modules implement by a refinement mapping.

### From the code to `RuleLifecycle`

The variables are columns: `status`, `creator` (`created_by`), `requestor`, `pending`
(`pending_requestor`), `proposer` (`handover_proposed_by`), `comps` (names of the rule's
components), `impl` (`impl_status`), `removal` (`removal_reason` is set), `due`
(`emergency_approval_due`), `validity` (`valid_until`). Three more are what the rule
depends on: `relation` (what the zone matrix, the segments, the BSI check and the ping
baseline say of the rule's zones today), `accounts` (active accounts), and `history`,
the version list.

*Versions.* `accounts_involved()` walks the versions from oldest to newest and empties
its set at every transition from an open into a closed status. It therefore needs
two facts of the past only: the set it has collected, and whether the last status it
read was closed. `history` keeps these two, `Versioned` adds a version that carries a
status and a requestor, `AutoVersioned` one whose snapshot is only `{"auto": ...}`, as
expiry, address propagation and re-checks write them. `Involved` is the function's
result. When nothing is open any more the code falls back to the newest version;
`UnderReviewHasWriters` says that an approval never meets that fallback, so it is not
modelled.

*One action per handler.* An action has the whole handler: `SetImplStatus` includes
`_sync_active_status()` and the second version it writes; `ApproveRule` and `ApproveRemoval` are
the two ends of `_decide()` with the closing of the emergency window; `DeclareEmergency`
writes its two versions; `UpdateRule` passes the checks before it applies. A step that
several rules take together (retirement, a matrix decision, a propagated address) is what
it does to the rule followed here.

*Abstractions.* Rules do not read each other, so one is enough. Content is not
modelled: what matters of an edit is who wrote it, what it did to the status, and that the
new content was admissible when it was written. Addresses and zones become `relation`, with
four values because the code tells four apart: permitted; an explicit Block, which the
decision follows up at once; any other refusal, which it may leave for the next review;
and permitted but with a lapsed baseline, which only the approval asks. Deadlines are ahead or
reached. The roles of an account are a constant, its being active a variable for
the accounts in `Leavers`. Each handler is one transaction that sees the state it changes;
that this is what overlapping sessions amount to is `RuleTransactions`' theorem.

### From the code to `RuleTransactions`

`RuleRegister` says what a handler makes of a row: `After` for the handlers of one rule,
`Swept` for those of many (a retired application, a relation set to Block, the daily job),
`Moved` for an address object, `Recertified` for a campaign. A row has its version number,
its status, the version that wrote its content, the content an approval was given for, and
the address it carries. `RuleTransactions` splits each handler in two: it reads what is
committed and decides on it (`Begin...`), and commits later, column by column as SQLAlchemy does (`Written`).
Nothing is locked. Every handler that writes a rule adds a version, and the pair
(rule, version) is unique, so `VersionsFree` is the whole concurrency control: whoever commits
second fails as a whole (`Conflict`). A re-check that keeps the approval, `resync_groups()` after a change of the inventory, is
not among these handlers; what it does to a rule is in `RuleLifecycle` and `Inventory`. A decision on a campaign's item runs into the conflict
inside `audit.record()`, which flushes; the effect on the rows is the same, the answer to the client
is not (see below).

### From the code to `MatrixRequests`

*Requests.* The rows of one batch are locked, decided and written together, so
`requests` has one record per batch: its state, `requested_by`, the items in their order,
`first_approved_by` and `decided_by`. A network is known by its CIDR, although rows carry
its id: filing refuses a second pending request for a network or its CIDR, so
nobody renames it in between.

*Sessions.* `_decide_change()` begins with `db.get()`, which loads one row, and only then
locks the batch with a query. PostgreSQL makes the query wait and look at the rows again,
so rows that are decided by then are not returned: `StillPending`. But SQLAlchemy does
not overwrite a row its session already holds (no `populate_existing()`), and the row read
first is also the one whose `first_approved_by` is asked: `session[s].first` is the value of
`OpenDecision`, used in `FirstApproval` and `SecondOf`. From the lock to the commit a
decision is one step. What is refused for being one's own or already decided at the first read
would be refused at the lock as well; `EndDecision` stands for every refusal and
rollback.

*Applying.* `Apply` keeps the order of the code: zones, then network items one after
the other, each move with its own reassessment, then the cells, each Block taking the rules in
force with it. `Applicable` is what makes the code raise and roll everything back.
`Reassessed` is `_apply_reassessment()`: which rules, their new zones, and whether each
is still admissible against the matrix as it is at that moment.

*Abstractions.* A rule has its addresses, the pair of zones it was last given, and one of three statuses:
draft and under review are both *open*, because requests treat them alike. Who approves a rule
is the concern of `RuleLifecycle`, so `ApproveRule` names nobody. There is one routing
environment, no segments inside zones, and no `any`. Filing is one step.
The flag *temporary* and the zones' descriptive fields decide nothing and are left out.

### From the code to `Inventory`

An address entry is the set of hosts it covers, so that "most specific" is "fewest hosts".
`Groups` resolves static and selector groups; `Segments` finds the segment of an address list
and asks the matrix between segments; `Inventory` has the rules. A rule names groups and plain
entries on two sides (`Refs`) and stores what they expanded to (`members`, `source` and
`destination`), the zones derived from it, and the addresses in its newest snapshot.

`Resync` is `resync_groups()` with `rule_recheck`: it expands the groups of every rule that refers to one
of the given names, checks each as an edit would be checked (`Admissible`: assigned, one zone a side, mapped,
components of the right kind, the pair permitted), refuses the change if one does not pass (`AllPass`), and
applies it to all otherwise, with the status `Rechecked` gives. Which names are given
differs by handler and is where the difficulty is: the groups whose selector matched before *or* after, the groups that
list the workload, the group redefined, or every group after an import. The import commits the inventory
first (`ImportWorkloads`) and may stop before the rules (`ImportRefused`).

Three variables are bookkeeping that no guard reads. `left` has the rules a handler is known to leave behind
their groups: `create_workload()` does not look for static groups that already list the name, and an import has its two commits.
`restored` has the rules whose addresses come from an earlier day. `adrift` has the rules under which a segment's
boundary has moved without anybody asking, and those that a default turned to deny is known not to find: standing rules of the
zone whose side lies partly in one segment and partly in none (`PartlyOutside`), and standing rules when the first
segment brings a deny into force that was stored in a zone without segments (`DeniedUnasked`). The properties except exactly those rules,
so that everything else is checked; the observations below say what the exceptions are.

A cell of the segment matrix is decided about segments that the approval looks up again, so filing and approval are one step
(`SetCell`). A default is not: only its filing asks whether the zone has segments (`RequestDefault`, `requested`), and the approval
applies it whatever has become of them (`SetDefault`).

### From the code to `SignIn`

One account, because nothing of one account's sign-in reads another's. `account` is its row in `users`
with its passkey. A login reads the row (`LoginRead`), compares and then commits: a failure
(`LoginFails`), a refusal that counts nothing, or a pass, after which the session expires its rows and the token is
issued from a fresh read (`LoginIssues`). Every other request reads the row when it begins and writes at its commit the columns
that differ from what it read: `Written(row, new)`. That is SQLAlchemy's unit of work, and the reason
why a request that changes the second factor does not bring back an older failure counter. `lock` and `validFrom` are times;
the lock is reduced to running or over. A TOTP code is its 30-second step; a session is the second it was
issued in and the key it is signed with. `key` and `kept` are the two settings, `Restart` an operator's restart with
or without the re-encryption succeeding; `clean` is what the last pass reported. The guard of
`Restart` that a previous key stays until a pass was clean is what `docs/ADMINISTRATION.md:43-45` asks of the operator, so
`SeedsStayReadable` is a claim about the code under that instruction. `chosen`, `guesses` and `spent` are history variables.

### From the code to `AuditChain`

Entries are known by the order they were written in; a hash covers content and predecessor, so it is as good as
that number. Recording is two steps under a lock (`BeginRecord` reads the end of the chain, `CommitRecord` adds
the row, `RecordFails` is the exception that `record()` swallows). A checkpoint reads the last entry and counts the rows in
two statements; retention walks the expired prefix and removes it by the id of the boundary, with its seal, in
one transaction. A delivery pass takes entries, checkpoints and seals one after the other, each a batch, each item a send
and a commit (`Send`, `SendFails`, `Acknowledge`); a row that retention has removed meanwhile
ends the pass with an exception (`AbortPass`). `Restart` may come between any two steps and
forgets everything but the rows; `LoseTail` is the fault the checkpoints are for. `Verifies` is `verify_chain()` when
nothing happens meanwhile. `TotalSealed` sums the seals.

### From the code to `Devices`

`ExportedPolicy`, `Placed` and `Loaded` are the exporters and what the device makes of a file that is loaded on top of what is
there; `Blocks` is `config_blocks.scan`; `DevicePermission`, `ApprovedPermission` and `Widens` are `config_semantics`; `Missing`, `Stale`,
`Unknown`, `Unjustified`, `Widened` and `InSync` are `analyze_drift()`. The code compares lists; `Granted` and
`LetThrough` are the sets of connections they stand for, to judge the comparison by. Between the register and the device stand people:
`Export`, `Load`, the changes by hand and `Upload` happen at any time and in any order.

*Device and reader.* A Junos device has an address book per security zone, as the exporter fills it (`juniper.py:57-64`), and
`LetThrough` resolves a policy's names in the books of its own zones. The reader has one book for all (`config_semantics.py:275`): of
several definitions of a name the one that comes last in the text stands. A configuration is therefore a pair, what the device holds and
what the reader makes of its names (`Texts`), with any order of the text. A Check Point device has one book.

*Loading.* A file is loaded rule by rule in the order of the identifiers (`Entering`, `Loaded`). For a device
that holds a definition already the platforms differ: Junos lets the last one stand and merges policies of one name between the same
zones, Check Point keeps the first and puts a rule on top. The two readers differ as well: Junos collects all lines under a
name, Check Point takes the last.

*Ports and protocols.* A list of ports is a set of ranges, each alone between commas and spaces or joined to something by a slash. The
exporter takes all of them (`Ranges`), the reader those that stand alone, and every port when there is none (`Understood`,
`PortRanges`). All eight spellings of a protocol that validation accepts are in `Protocols`. The word `echo` as the port of a TCP service is not.

*Claims.* An identifier is found anywhere in the text of a policy: in the description or the exported name (`remark`), and in the
name that people gave the rule (`Cited`); the first one is the block's claim, all of them are claims of the configuration. Left out are
identifiers inside an alias or a zone's name, and comment lines: those of the Juniper export do not reach the device
(`juniper.py:84-88`), those of a Check Point script stand around the configuration.

*Rules.* A rule is in force on the component, out of force (deleted ones included), or tolerated: in force on other components only, or a declared
emergency change; such a rule is neither missing nor stale. It keeps its content while it is in force (`RuleLifecycle`). The run
has `Platform = "juniper"`; the Check Point branch of `DeviceConfig` is what the theorems speak of too, although its readers cut
different identifiers from an exported name (observations), so that they compare less of it.

### From the code to `PathAnalysis`

`Step` is one turn of the loop in `shortest_routes()`: one path is taken from the frontier, extended by its neighbours in order, and
the lengths seen are updated, with both caps and the early end. `Analyse` is the set-up before the loop, `Hops`, `RouteGaps` and `Possible`
what the endpoint makes of the routes. Links and rules change between analyses. `Walks` is the
reference definition: all walks of a length, by induction on the length.

## Runs

| run | instance | asks |
|---|---|---|
| `lifecycle` | an architect and an approver who is one too and may leave, two components, both clocks; fairness; 364 000 states | is what stands in force admissible, rolled out as its status says, and free of removal proposals; does every deadline take effect |
| `four_eyes` | three accounts holding every role, one of whom may leave; symmetry over the other two | separation of duties against what really happened, and the refinement of `FourEyes` |
| `transactions` | two sessions, two rules that name one address object with two addresses, one campaign, three versions in all; symmetry over sessions and addresses; 684 000 states | do overlapping sessions amount to handlers one after the other, and what follows for approvals, addresses, campaigns |
| `matrix_requests` | three approvers, one of whom also files; two requests out of six batches, two sessions, two rules, three networks, three zones; symmetry over requests, sessions and the two other approvers | who approved what is applied, whether it is applied once, and what the register looks like afterwards |
| `inventory` | two groups with two definitions each, a workload of operations' own and one of NetBox's, a rule between zones and one inside one; 21 000 states | do rules follow their groups, and stay admissible |
| `segments` | two segments, their cells and default, a request for the default that may wait, a moving workload, one rule whose source may lie partly outside; 54 000 states | is what is in force admitted by the segment matrix |
| `sign_in` | one account, two passwords, a login beside another request, two keys, two moments, five logins or requests; symmetry over passwords; 721 000 states | counting, one-time use, rotation, revocation |
| `audit` | two recorders, one delivery pass, two entries, one checkpoint, a batch of two, restarts at any point; fairness; 183 000 states | does the intact log verify at every moment, is a loss noticed, is order kept and everything delivered |
| `devices` | two rules from two zones with two contents each, among them an alias with other addresses in the other zone, two lists of ports with slashes, a second spelling of ICMP, a refusal and a name that cites the other rule; three policies typed by hand, two changes of the device; 395 000 states | what does a report in sync say of the connections, and is a clean rollout reported as one |
| `paths` | every link graph over five firewalls with seven possible links, five queries, three rules, three routes of three hops; 13 000 states | does the search find every shortest route, does the answer survive a failover |
| `former_requestor` | the three accounts of `four_eyes`, none leaves | *violated*: nobody approves what they requested since the last decision |
| `stale_restore` | the instance of `inventory` | *violated*: a restored rule has its groups' members of today |

`inventory`, `segments`, `paths` and `stale_restore` check for deadlock. The others may stop: a
deleted rule, a register with all requests decided, sessions that have used up the versions, an account
that is gone for good.

*Why these bounds are enough.*

- `lifecycle`: the properties of the rollout compare one component with
  the rest; two components give every combination of one finished and one unfinished. Operations
  reports *implemented* and *to change*; the other states a report may carry differ in
  nothing the properties see. Of the verdicts, *deny* is left to the proofs: it may stand in force like *lapsed*, and blocks an
  approval like *block*.
- Separation of duties involves at most three people at a time: one who shapes, one who takes over, one
  who approves. The history is a set and a flag, so sequences are not bounded at all: the
  runs explore handlers, edits and decisions of any length.
- `transactions`: a conflict is between two sessions on one rule; the second rule shows all or nothing. A session
  whose versions are used up ends in `Abandon`. The theorems have no bounds on sessions and rules.
- `matrix_requests`: the races are between two decisions of one request; a second request is
  needed only to act on the register in between, and every batch combines
  items whose order matters: a swap of two zones with a Block on the relation it leads to, a
  zone that comes with its network and its cell, a network inside another one, a zone with itself, deletions. Three approvers, because the
  question is whether two of them are different from each other and from the requestor.
- `inventory`: a selector group that one workload enters and leaves by its label, a static group that lists the workload, a group of plain
  networks of which one contains the other; the two rules share one group. `segments`: the rule's
  source may lie in a segment, in none, or in both, and its destination moves between two.
- `sign_in`: two failures lock, so one failure that is not counted is visible; two moments
  separate a session issued before a revocation from one issued after; two keys are one rotation. Five
  requests let a login be overtaken by a whole set-up of the second factor.
- `audit`: two entries are what order, a partial collapse and a batch need; one
  checkpoint can name either. Delivery of checkpoints and seals is in the model, but what
  the properties say is about entries.
- `devices`: two changes are enough to load an export and change it, to load it twice, and
  to load it over something typed by hand. The shared names and the shared alias are the
  cases where policies merge and objects are confused. Each reason that the two properties name is needed on this instance: without it TLC
  finds them violated; only `CutDifferently` is about Check Point. The theorems have no bounds on rules, contents and changes.
- `paths`: the smallest graph in which a node is reached a second time at the same depth, with an
  alternative route before and after it; all of its subgraphs occur.

*Fairness.* `RuleLifecycle!FairSpec` asks weak fairness of four steps: the two clocks and the two
jobs. Time passes; the jobs are endless loops that catch every exception, sleep and
select again everything that has run out (`main.py:123-159`), so a rule that stays selectable
is eventually selected. Nothing is assumed of people: no handler is fair, an approver
may never come. `AuditChain!FairSpec` asks weak fairness of the delivery pass, which is such a loop as well
(`main.py:205`), and strong fairness of the send of an entry and of the commit after it: that is what "the SIEM is reachable" and
"the process is not killed every time before it commits" mean. `Restart` and `SendFails`
remain possible without limit; only failing *for ever* is excluded. `EmergencyLeavesReview`,
`ExpiredRuleLeavesForce` and `Delivered` are the properties that need it.

### What the properties say

Rules:

- `RolloutMatchesStatus`: *active* and *implemented everywhere* coincide for rules in
  force, whoever touched rule, components or reports last. Every edit that changes the
  components resets or keeps the status by rules of its own; only together do they
  keep this.
- `InForceNotBlocked`: the decision that sets a cell to Block finds rules already in
  force, the approval finds cells already set. Neither is enough alone.
- `NoRemovalProposalInForce`: retirement, a failed reassessment and an inadmissible
  emergency change leave a proposal that survives rejection and resubmission and must turn the
  next approval into a removal.
- `OpenWindowIsUndecided`, `EmergencyLeavesReview`: the emergency window closes at every
  decision, and while the rule is under review it cannot stay open for ever.
- `ExpiredRuleLeavesForce`: both statuses in force expire.
- `UnderReviewHasWriters`: the open cycle always names somebody.
- `TwoPairsOfEyes`: whoever brought the rule into force neither created it nor wrote a
  version of the content, judged by who really wrote, not by what the versions show.
- `CycleCoversRevision`: the writers reconstructed from the versions cover everybody
  who wrote since the content was opened, although some versions carry no status and some
  decisions leave the rule in force.
- `FourEyesSpec`: every step of the lifecycle is a step of `FourEyes` or none.

Sessions:

- `SerialSpec`: every commit is, at the moment it happens, the step the handler would have made alone. A
  version number is read before anything is decided and must still be free, which is why it works without a lock.
- `InForceAsApproved`: what is in force is the content the approving session had before it. No edit, restored
  version or moved address slips between its read and its commit.
- `NamedMoveTogether`: an address object moves in every live rule that names it, or nowhere.
- `DecisionStands`: a decision of a campaign is never replaced, and the rule takes the step it stands for with it.

Matrix:

- `ApprovedByTwoOthers`: `votes` keeps who really approved, apart from the two columns
  that one session may overwrite for another. A session's idea of the first approver may be old but
  is never invented, and that is what two approvals hang on.
- `DecidedOnce`: sessions that wait for the lock find nothing to decide.
- `BlockLeavesNothingInForce`: moves give rules new relations, cells of the same batch
  close them, approvals and edits come between requests.
- `RulesFollowMoves`: after a batch of moves the zones of every rule under a moved
  network are those of its addresses, whatever other items of the batch moved.

Inventory:

- `RulesFollowGroups`: whatever sequence of inventory, group and rule changes came before, a
  rule has the addresses its groups have now. The step that breaks it first is a workload that loses
  the label its group selects by: the group to be visited no longer matches.
- `AddressesAdmissible`: no change of the inventory puts a side of a rule across two zones or off the map; the zones stored
  are those of the addresses.
- `StandingRulesAdmitted`: a Block, a default turned to deny and a segment that goes each find the rules they make inadmissible by
  a different query, and the default may be applied long after it was requested. It excepts the rules in `adrift`.
- `NoLeftoverCells`: a cell of a former segmentation does not come back with the next one. It says nothing of the default, which may
  (observations).

Sign-in:

- `FailuresAreCounted`: the counter is never behind the failures there were, whatever another request writes to the row between a login's
  read and its commit.
- `CodesStayBurnt`: no code signs in twice with the present factor, also when the factor is disabled and set up again.
- `SeedsStayReadable`: every stored seed can be read under a configured key.
- `RevokedSessionsEnd`: a deactivation, a new password and an administrator's reset end every session issued
  before that second, and `token_valid_from` never goes back.

Audit:

- `LogVerifies`: an intact log reads as intact between any two statements.
- `LossNoticed`: a lost anchored entry is noticed, although entries written afterwards make up the number; until a newer
  checkpoint or seal replaces the one that knew.
- `EvidenceSpec`: entries arrive in order, and nothing queued leaves the database before it has arrived while a SIEM is configured,
  through restarts, failed sends, retention and a second pass.
- `Delivered`: what waits reaches the SIEM.

Devices and paths:

- `InSyncIsApproved`: when the report says *in sync* and *checked*, no policy lets a connection through that no rule in force was approved
  for. The report compares names, networks one by one and port ranges; the property compares sets of connections on a device with a book
  per zone. It excepts the single policy that is `Mistakable`, for one of four reasons: the two readers cut its name differently; another
  policy is read under its name, with another action (Check Point: at all); one of its names has other addresses in the book
  of another zone (`Homonymous`); the rule it claims has a list of ports of which the reader understands none. For each of them the report can be wrong
  (observations).
- `RolloutReadsInSync`: what an empty device makes of the export has nothing missing or unjustified, and nothing stale or unknown but what
  a rule in force cites in its name. Each rule is one block that claims the identifier mentioned first in it, everything is checked, and a widening
  has one of three reasons: an alias that stands for different addresses (`Ambiguous`), a service that the export spells wider than the
  approval is read - `UDP/TCP`, `ICMPV6` and its combination, no port, or ports of which the reader drops some (`Respelt`) -, or a claim of another
  rule.
- `EveryShortestRoute`: the search with its pruning by depth returns exactly the shortest walks, each once.
- `PossibleSurvivesFailover`: *possible* is said only if one service is permitted on every component of every shortest route, and a route with
  an uncovered component is named.

### Where code and documentation disagree

`findings` in `PROJECT.json` quotes the lines.

1. *Former requestor* (`former_requestor`). A handover proposed before a decision and confirmed after it
   leaves no version of the new cycle that names the old requestor. The comment in
   `accounts_involved()` describes this case as handled.
2. *Stale restore* (`stale_restore`). `restore_version()` expands and checks the groups of today
   and then stores the addresses of the snapshot. The comment above it says that the restored rule is
   about the members of today.

`TwoPairsOfEyes` holds nevertheless, because it counts a rule's content as
opened by the first version written after the decision *in an open status*: the first finding is about
somebody who shaped the rule before that.

### Seen while modelling, stated by no property

These are what the code does. Nothing in the repository promises otherwise in so many words, or the
models describe them without a run of their own.

*Rules.*
- The emergency job writes a version without a status (`expiry.py:136`). The next version that carries
  *deactivated* is taken for the decision, and its writer is dropped from the cycle.
- The validity job leaves the rollout state alone (`expiry.py:76`), so that the removal is nobody's open work;
  deleting a rule leaves it *implemented*.
- Restoring a version takes an emergency change out of review with its window still set (`rules_router.py:1413`); the job selects
  what is under review (`expiry.py:121`).
- An edit clears a removal proposal, since it passes the checks; `submit` refuses a deactivated rule, although some texts say
  "submit it again".
- `update_address()` propagates by the name after a rename. Renaming or deleting a component loses
  its key in `impl_status`.
- A P-A-P level, a default in the settings or a new segment may make rules in force inadmissible; nobody visits them
  (`RelationDrifts`). Approvals ask the present verdict.

*Sessions.*
- An approval reads the matrix while a decision to Block reads the rules in force: both may commit. Only rules are protected by their version
  numbers, and the matrix has none. Rules that come into force during a sweep escape it in the same way (`Sweep` allows it).
- The second reviewer of a campaign's item is told *confirmed* although nothing was stored: `record()` swallows the conflict and
  rolls back (`audit.py:249`, `recert_router.py:243-295`).
- A campaign may be closed while a decision on it is under way, and may list a rule that has left force; deciding that one is refused.

*Matrix.*
- A zone answers to its ID and to its name, and the refusal of a cell within one zone compares what the request calls
  them (`zones_router.py:560`): named once each way the cell is filed and stored. No check asks it (`zone_check.py:121`);
  set to Block it sends the rules inside the zone back into review. The model files it too, and
  `BlockLeavesNothingInForce` speaks of two zones.
- Of two overlapping sessions of one approver, one opened before and one
  after somebody else's first approval, the first overwrites that approval and the second
  completes the request (`zones_router.py:1019`): two people approved, the history names one of them twice.
- A request that changes a network's CIDR reassesses the rules under the new one only (`zones_router.py:854`); an added
  or deleted network reassesses nothing.

*Inventory.*
- `create_workload()` does not look for static groups that already list the name (`left`). An import that is refused leaves the
  inventory moved and the rules not, until the next one.
- Boundaries of segments move with a group or a workload without a visit to rules of plain addresses; changing a segment's group asks
  the old boundary only (`adrift`).
- A default turned to deny does not find a rule with an address in no segment when its other addresses lie in one
  (`segments.py:165-170`): such a side resolves to the segment. The docstring says "every rule the deny would make inadmissible: one
  with an address in no segment" (`segments.py:157-159`).
- A deny that is requested while the zone has segments and approved after the last of them was deleted is stored in a zone
  without segments: only the filing asks for one (`zones_router.py:618`, `1173-1181`). The deletion resets the default so that it "must not
  resurface as "deny" on the next segment" (`segments_router.py:191-194`); here it does, and rules that came into force in between
  stay in force although the matrix no longer admits them (`DeniedUnasked`).
- A change of the inventory that only an unapproved edit needed is refused like any other: one inadmissible rule stops it for all.

*Sign-in.*
- A login with an old hash makes a new one of the password it was given (`auth_router.py:133`). When it overlaps with a change of
  password it may put the former password back. `RevokedSessionsEnd` holds, the change does not.
- Sessions name the account by its username; an account created anew under the name is told apart by `token_valid_from` only.
- An activation link issued before a deactivation still activates. Two overlapping requests for a link leave two that work.

*Audit.*
- `verify_chain()` (`audit.py:459-497`) reads head and tail in several statements; with retention or a checkpoint in between it may
  report a truncation that is none.
- Two retention passes at once could leave the newest seal with the older boundary, and SQLite may use an id again after the whole
  table was collapsed; one process and PostgreSQL are what `DEPLOYMENT.md` asks for.
- When the SIEM is switched off, entries that still wait for it are collapsed like others. A checkpoint made after a loss takes
  it for the present state.

*Devices and paths.*
- Policies whose lines precede any block, and Check Point policies whose exported name the two readers cut differently, are not compared
  (`drift.py:46-57`, `config_semantics.py:371-404`); lines below a policy whose name was seen before belong to the block above
  (`config_blocks.py:79-104`). Check Point's ICMP stays unverified.
- The export is wider than the rule for "TCP, any port", which becomes *any*. The reader drops the ports that a slash joins
  (`config_semantics.py:185-207`): "22/80,443" reads as 443, so that the export of the rule is reported as widened; "22/80" reads as every
  port, which hides that a policy opens all ports for a rule that lists two. UDP/TCP, ICMPV6 and ICMP/ICMPV6 are protocols of their own to
  it, which reports widenings that are none.
- The reader has one address book, a Junos device one per zone (`config_semantics.py:275`, `juniper.py:57-64`): of an alias
  with other addresses in two zones it takes the last for both, and the report may be in sync while one policy lets through what nobody approved.
- A rule whose name contains the identifier of another rule claims that one on Junos, where the name comes before the description (`config_blocks.py:104`);
  the identifier counts as being on the device as well (`drift.py:88`).
- The lines of all Junos policies under one name are merged and the last `then` stands (`config_semantics.py:289-301`), so that a permit
  hides below a deny of the same name between other zones, and the report is in sync.
- An alias with several addresses in one zone has one entry in its book; the last one loaded stands.
- Without a route the hop list falls back to the components of the tiers and the answer may be *possible* (`rules_router.py:671-776`), while
  `routing.py` says that no route is an answer.

## Proofs

Every theorem is for all values of the constants: any number of accounts, rules, sessions, threads and components, any
bounds. Each module of proofs about a specification says `Init => IInv`, `IInv /\ [Next]_vars => IInv'` with one step per action, and
`IInv => P`.

The first half of `ReviewHistoryProofs` is about `RuleLifecycle`. It proves `Spec => []P` for `TypeOK`, `RolloutMatchesStatus`, `InForceNotBlocked`,
`NoRemovalProposalInForce`, `OpenWindowIsUndecided` and `UnderReviewHasWriters`. The only assumption is
`LifecycleAssumption`: the two names that are not accounts are not, roles are held by accounts,
and the instance's inputs are among those the code accepts. `TypeOK` is inductive; each of the
others is inductive relative to it.

The second half proves `TwoPairsOfEyes`, `CycleCoversRevision` and `LifecycleImplementsFourEyes`.
`TwoPairsOfEyes` is not inductive: an approval compares the approver with the versions, and
the property speaks of who really wrote. `ReviewInv` strengthens it by
`CycleCoversRevision` (the versions know every writer of the open content), by the type of the
history variables, by the history variables being empty when the content is closed and non-empty
when it is not, and by the approver being none but the one of content in force. The
step of each handler then maps to `Open`, `Shape`, `Approve` or `Close` of `FourEyes`, or to
a stutter.

`RuleTransactionsProofs` proves `TypeOK`, `InForceAsApproved`, `NamedMoveTogether`, `DecisionStands` and the refinement
`SerialSpec`. The invariant `SerialInv` ties what a session remembers to the rows: a rule whose version number is
the one the session read has the very row it read, because versions only grow and every change of a row takes one.
Hence `VersionsFree` means that the write is about the present rows, `Written` equals what the session computed, and the commit is the
step of `RuleRegister`. The other properties follow from the steps of the register. For a campaign the invariant adds
that an undecided item is still undecided while its rule's version is the one that was read.

The first half of `MatrixRequestsProofs` is about what `Apply` of `ZoneRegister` makes of any register and any batch. `ApplySound`: the register keeps its shape and no rule is
left in force between zones set to Block (`Sound`), because a reassessment leaves in force what the matrix permits at that moment,
and cells come last and take what they close with them. `ApplyFollows`: a rule touched by one of several moves ends on the
zones its addresses have, because a later move either touches it again or is about networks its addresses are not in
(`HitsElsewhere`). That a batch is applied item by item is a recursive function; its existence (`StepsExist`) and what each item keeps
are shown by the least item for which it would fail. It rests on `RegisterAssumption`.

The second half proves all five properties of `MatrixRequests`. For `ApprovedByTwoOthers` and `DecidedOnce` the invariant
`ReqInv` says that votes come from approvers other than the requestor, that a running
decision is about a filed request of somebody else, and that a first approver, in the row or in
a session's memory, has really voted (`ReadsAreTrue`, `FirstIsVote`). The last is what
survives the stale read. `TypeOK` and `BlockLeavesNothingInForce` follow from `Sound` of the register, which every action
beside requests keeps as well; `RulesFollowMoves` is `ApplyFollows` for the one step that applies. It rests on
`RequestAssumption`: roles are held by accounts, nothing is in force at the start, requests are made of the items the code knows.

`SignInProofs` proves all five properties of `SignIn`. `SignInInv` says of every row a request remembers that its sessions ended no
later than they have by now, so that `Written` cannot take `validFrom` back (`RequestInv`); that a login which is checking has
read a counter no lower than the failures there were and a step no older than the codes spent, because logins are one at a time and
nobody else raises either (`LoginInv`); that the same holds of the row itself (`CountInv`); and that a seed's key is in the
ring, and is the current one when the last pass was clean (`SeedInv`). It rests on `SignInAssumption`.

`InventoryProofs` proves all four properties of `Inventory` and its type. `RulesFollowGroups` is kept because a group that
is neither among the affected ones nor lists the workload resolves to what it did (`ResolveKeeps`), so that the rules
`resync_groups()` does not look at are still about their groups; `AddressesAdmissible` because whatever it writes has passed the checks, and
what passes lies in the one zone that is written beside it. `StandingRulesAdmitted` needs two more invariants: the matrix has
cells only for segments that exist (`NoLeftoverCells`), or the first segment of a zone would bring an old Block into force, and a segment's
group exists (`SegmentsGrounded`), or creating a group would draw a boundary. What a first segment does under a deny that was left behind is no
part of the claim: the rules of the zone are in `adrift` from then on. A rule's verdict is then a function of
its zones, its place in the segments and the matrix (`Ruled`), and each handler leaves these alone, asks the very rules whose
verdict it changes, or moves the rule's place. It rests on `GroupsAssumption`, `SegmentsAssumption` and
`InventoryAssumption`: address entries are finite in number and non-empty, segments are numbered from 1.

`AuditChainProofs` proves the type of `AuditChain`, `LogVerifies`, `LossNoticed` and the refinement `EvidenceSpec`. For the refinement
`EvidenceInv` adds to the type that what is marked as sent has arrived (`SentArrived`), that whatever is older than
the rest of a running pass has arrived, although passes overlap (`PassesInOrder`), that an idle pass has nothing left to do
(`IdleRests`), and that a walked prefix holds nothing the SIEM waits for until its seal is committed (`WalkSettled`). `LossNoticed`
rests on lost rows lying behind the newest seal (`LossInv`). `LogVerifies` rests on `Intact`: what is there follows the newest
seal without a gap, each entry links to the number before it, the request that holds the lock has read the present end, and each
seal counts what lies between the boundary before it and its own. The seals then add up to the newest boundary; the recursive
sum is settled by its least counterexample (`SealsAddUp`). It rests on `AuditAssumption` alone.

`PathAnalysisProofs` proves the type of `PathAnalysis`, `EveryShortestRoute` and `PossibleSurvivesFailover`, for any network and
any bound on its paths. `PathInv` says what the search has at any moment. The frontier holds walks, shorter ones first and no two
more than one hop apart; a found path arrives, `best` is the length of the shortest found; the depth in `seen` is that of a walk; a walk is
met once. The part that carries the property is `NoneLost`: a shortest walk is found, or one of its beginnings is still on the
frontier. Each of the four ways to drop a walk - a component already on it, one seen at a lower depth, more hops than the best,
`MAX_HOPS` - would, dropping a beginning of a shortest walk, leave a shorter walk with the same end (`Spliced`, `NoShortcut`). When
the search is over the frontier is empty, or holds only what is longer than the best, so that nothing shortest is left there, unless
`MAX_ROUTES` cut the search off: what was found is then shortest but may not be all, and the endpoint does not say so. `PossibleSurvivesFailover` then follows because the verdict looks at each path found.
It rests on `PathAssumption`: finitely many components in some order, queries between two of them, and a depth that
stands for *never seen* beyond the bound on hops.

`DevicesProofs` proves the type of `Devices`, `InSyncIsApproved` and `RolloutReadsInSync`, for any rules, contents, policies typed by
hand and changes, and for both platforms. That a file is loaded rule by rule is a recursive function over the order of
the identifiers; its existence and its steps come from the least place where it would fail (`RuleByRule`). The rest is about the report
and holds in every state of the type; what depends on the history is the type alone: a configuration gives each name a meaning
that one of its books has (`Readable`). For `InSyncIsApproved`, each policy has a block
(`BlockOf`) whose claim is a rule in force (`ClaimOf`). Unless a name is homonymous, the reader's permission contains what each policy under the name
lets through by the books of its zones (`PermissionReads`). Networks inside approved networks are addresses inside approved
addresses (`NetworksSound`), the services that cover a service carry its connections (`FlowsSound`), and what the approval is read as is what the rule
says, unless none of its ports is understood (`SaidPlainly`). For `RolloutReadsInSync`, the invariant of the loading is `Carries(c, D)`: after the
rules in `D` the configuration holds exactly the policy each was exported as, under its own name, and an object for every name in
them, which is that of one of the entries with the name (`OneMore`, `RolloutCarries`). Hence one block each, which claims what is mentioned
first (`OneBlockEach`, `RuleMentions`), read alone
(`ReadAlone`), and what is exported of a service that is not `Respelt` is covered by what the approval is read as (`ExportCovered`). It rests on
`DeviceAssumption` and `DevicesAssumption`: identifiers are distinct strings other than the mark for no claim, each name has the sequence of
identifiers that stand in it, contents and policies have the shape the schemas and the exporters give them.

*Only model-checked.*
- Liveness (`ExpiredRuleLeavesForce`, `EmergencyLeavesReview`, `Delivered`) needs fairness.
- The two violated claims, which need a behaviour rather than a proof.

## Not modelled, and why

- *Rule against matrix in overlapping sessions*: the outcome is known (see above) and nothing in the repository excludes it.
- *The entry `any` in the network registry, several routing environments*, and two change requests filed at the
  same moment: two pending requests for one cell are decided one after the other and harm nothing but the promise of one at a time.
- *The two approvals of a request for segments*: they go through the same `_decide_change()` as `MatrixRequests`; `Inventory` has the moment
  at which the second one applies it, and for a default the filing before it.
- *Roles that change*: they change the set of people who may act, and every handler
  asks at the moment it runs. In `SignIn` a change of roles is a reason to end sessions.
- *Two or more accounts at sign-in, the limiter per address*: accounts share nothing; the limiter is a refusal that may
  come at any time.
- *API tokens*: created and revoked in one statement each.
- *Exporters without a reader* (ACI, host firewall, Aerleon, generic): text with nothing to compare it to. *Check Point* is
  translated and proved about, and not run.
- *The trend of coverage, conflicts, risk, reports, dashboard*: computations without state that decide nothing.
- *Prefixes of NetBox and their adoption; deletion of components; policy-based routing* beyond a flag.
- *Notifications, comments, wording, change-management tickets*: written after or beside
  the change; nothing reads them back.
- *What a cipher or a hash is; migrations, demo data, the web interface*: out of scope.

## What could come next

1. The verdict of the matrix inside `RuleTransactions`, with the decision that changes it as a third kind of session.
2. Two filings of one cell in `MatrixRequests`; `any` and a second routing environment in `ZoneRegister`.
3. `Devices` for Check Point, once its two readers agree on identifiers.
