------------------------ MODULE ReviewHistoryProofs ------------------------
(* The invariants of RuleLifecycle, and separation of duties: the lifecycle   *)
(* implements FourEyes.  For every value of the constants.                    *)
EXTENDS ReviewHistory, TLAPS

----------------------------------------------------------------------------
(* Facts about the operators the actions are built from. *)

\* A version turns a history into a history.
LEMMA VersionedType ==
    ASSUME NEW h \in Histories, NEW u \in Users \cup {System}, NEW st,
           NEW req \in Users \cup {NoUser}
    PROVE  /\ Versioned(h, u, st, req) \in Histories
           /\ AutoVersioned(h, u) \in Histories
  BY DEF Histories, Versioned, AutoVersioned

\* Removal and adjustment work stays within the closed set of rollout states.
LEMMA RolloutType ==
    ASSUME NEW f \in [Components -> ImplStatus], NEW cs, NEW spared
    PROVE  /\ ToRemove(f, cs, spared) \in [Components -> ImplStatus]
           /\ ToChange(f, cs) \in [Components -> ImplStatus]
  BY DEF ToRemove, ToChange, ImplStatus, ReportedStatus

----------------------------------------------------------------------------
(* Type correctness. *)

LEMMA InitTypeOK == Init => TypeOK
  <1> SUFFICES ASSUME Init PROVE TypeOK
    OBVIOUS
  <1>1. EmptyHistory \in Histories
    BY DEF EmptyHistory, Histories
  <1> QED
    BY <1>1 DEF Init, TypeOK, Status, ImplStatus, Window, ValidUntil, Verdict

\* What a creation assigns, on the normal path and on the emergency path.
LEMMA CreatedType ==
    ASSUME NEW u \in Users, NEW st, Created(u, st), TypeOK
    PROVE  /\ creator' \in Users \cup {NoUser} /\ requestor' \in Users \cup {NoUser}
           /\ comps' \in SUBSET Components /\ impl' \in [Components -> ImplStatus]
           /\ validity' \in ValidUntil
           /\ status' = st /\ UNCHANGED <<pending, proposer, accounts>>
  <1>1. Reports \cup {"none"} \subseteq ImplStatus
    BY LifecycleAssumption DEF LifecycleAssumption, ImplStatus
  <1>2. impl' \in [Components -> ImplStatus]
    BY <1>1 DEF Created
  <1> QED
    BY <1>2, LifecycleAssumption DEF Created, ComponentSets, LifecycleAssumption

LEMMA NextTypeOK == TypeOK /\ [Next]_vars => TypeOK'
  <1> SUFFICES ASSUME TypeOK, [Next]_vars PROVE TypeOK'
    OBVIOUS
  <1> USE DEF TypeOK, parties, rollout, clocks
  <1>1. ASSUME NEW u \in Users, CreateRule(u) PROVE TypeOK'
    BY <1>1, CreatedType, VersionedType DEF CreateRule, Status, Open, CycleClosed, InForce, Verdict
  <1>2. ASSUME NEW u \in Users, DeclareEmergency(u) PROVE TypeOK'
    BY <1>2, CreatedType, VersionedType, LifecycleAssumption DEF DeclareEmergency, Status, Open, CycleClosed, InForce, Window, LifecycleAssumption
  <1>3. ASSUME NEW u \in Users, UpdateRule(u) PROVE TypeOK'
    BY <1>3, VersionedType, LifecycleAssumption DEF UpdateRule, PassesChecks, ComponentSets, Reset, Status, Open, CycleClosed, InForce, Verdict, LifecycleAssumption
  <1>4. ASSUME NEW u \in Users, RestoreVersion(u) PROVE TypeOK'
    BY <1>4, VersionedType, LifecycleAssumption DEF RestoreVersion, PassesChecks, ComponentSets, Reset, Status, Open, CycleClosed, InForce, Verdict, LifecycleAssumption
  <1>5. ASSUME NEW u \in Users, PropagateAddress(u) PROVE TypeOK'
    BY <1>5, VersionedType DEF PropagateAddress, PassesChecks, ComponentSets, Reset, Status, Open, CycleClosed, InForce, Verdict
  <1>6. ASSUME NEW u \in Users, RecheckResets(u) PROVE TypeOK'
    BY <1>6, VersionedType DEF RecheckResets, PassesChecks, ComponentSets, Reset, Status, Open, CycleClosed, InForce, Verdict
  <1>7. ASSUME NEW u \in Users, RecheckKeeps(u) PROVE TypeOK'
    BY <1>7, VersionedType, RolloutType DEF RecheckKeeps, PassesChecks, ComponentSets, Reset, Status, Open, CycleClosed, InForce, Verdict
  <1>8. ASSUME NEW u \in Users, SubmitForReview(u) PROVE TypeOK'
    BY <1>8, VersionedType DEF SubmitForReview, Status, Open, CycleClosed, InForce
  <1>9. ASSUME NEW u \in Users, ApproveRule(u) PROVE TypeOK'
    BY <1>9, VersionedType, RolloutType DEF ApproveRule, Decision, MayApprove, Status, Open, CycleClosed, InForce, Window
  <1>10. ASSUME NEW u \in Users, ApproveRemoval(u) PROVE TypeOK'
    BY <1>10, VersionedType, RolloutType DEF ApproveRemoval, Decision, MayApprove, Status, Open, CycleClosed, InForce, Window
  <1>11. ASSUME NEW u \in Users, Reject(u) PROVE TypeOK'
    BY <1>11, VersionedType DEF Reject, Decision, Status, Open, CycleClosed, InForce, Window
  <1>12. ASSUME NEW u \in Users, Deactivate(u) PROVE TypeOK'
    BY <1>12, VersionedType, RolloutType DEF Deactivate, Decision, Status, Open, CycleClosed, InForce, Window
  <1>13. ASSUME NEW u \in Users, DeleteRule(u) PROVE TypeOK'
    BY <1>13, VersionedType DEF DeleteRule, Status, Open, CycleClosed, InForce
  <1>14. ASSUME NEW u \in Users, RetireApplication(u) PROVE TypeOK'
    BY <1>14, VersionedType DEF RetireApplication, Status, Open, CycleClosed, InForce
  <1>15. ASSUME NEW u \in Users, SetImplStatus(u) PROVE TypeOK'
    BY <1>15, VersionedType, LifecycleAssumption DEF SetImplStatus, Synced, Status, Open, CycleClosed, InForce, ImplStatus, LifecycleAssumption
  <1>16. ASSUME NEW u \in Users, ExtendValidity(u) PROVE TypeOK'
    BY <1>16, VersionedType, LifecycleAssumption DEF ExtendValidity, ValidUntil, LifecycleAssumption
  <1>17. ASSUME NEW u \in Users, SetChangeId(u) PROVE TypeOK'
    BY <1>17, VersionedType DEF SetChangeId
  <1>18. ASSUME NEW u \in Users, ProposeHandover(u) PROVE TypeOK'
    BY <1>18, VersionedType DEF ProposeHandover
  <1>19. ASSUME NEW u \in Users, ConfirmHandover(u) PROVE TypeOK'
    BY <1>19, VersionedType DEF ConfirmHandover
  <1>20. ASSUME NEW u \in Users, CancelHandover(u) PROVE TypeOK'
    BY <1>20, VersionedType DEF CancelHandover
  <1>21. ASSUME NEW u \in Users, ConfirmItem(u) PROVE TypeOK'
    BY <1>21, VersionedType, LifecycleAssumption DEF ConfirmItem, ValidUntil, LifecycleAssumption
  <1>22. ASSUME NEW u \in Users, ReworkItem(u) PROVE TypeOK'
    BY <1>22, VersionedType DEF ReworkItem, Status, Open, CycleClosed, InForce
  <1>23. ASSUME NEW u \in Users, RetireItem(u) PROVE TypeOK'
    BY <1>23, VersionedType, RolloutType DEF RetireItem, Status, Open, CycleClosed, InForce
  <1>24. ASSUME NEW u \in Users, BlockRelation(u) PROVE TypeOK'
    BY <1>24, VersionedType, LifecycleAssumption DEF BlockRelation, Status, Open, CycleClosed, InForce, LifecycleAssumption
  <1>25. ASSUME NEW u \in Users, MovedInadmissible(u) PROVE TypeOK'
    BY <1>25, VersionedType, LifecycleAssumption DEF MovedInadmissible, Status, Open, CycleClosed, InForce, LifecycleAssumption
  <1>26. ASSUME NEW u \in Users, MovedAdmissible(u) PROVE TypeOK'
    BY <1>26, VersionedType, LifecycleAssumption DEF MovedAdmissible, LifecycleAssumption
  <1>27. CASE ExpireRules
    BY <1>27, VersionedType DEF ExpireRules, Expired, Status, Open, CycleClosed, InForce
  <1>28. CASE ExpireEmergencyRules
    BY <1>28, VersionedType, RolloutType DEF ExpireEmergencyRules, EmergencyOverdue, Status, Open, CycleClosed, InForce, Window
  <1>29. CASE DayPasses
    BY <1>29 DEF DayPasses, ValidUntil
  <1>30. CASE WindowPasses
    BY <1>30 DEF WindowPasses, Window
  <1>31. CASE DecideRelation
    BY <1>31, LifecycleAssumption DEF DecideRelation, LifecycleAssumption
  <1>32. CASE RelationDrifts
    BY <1>32, LifecycleAssumption DEF RelationDrifts, LifecycleAssumption
  <1>33. CASE DisableAccount
    BY <1>33 DEF DisableAccount
  <1>34. CASE EnableAccount
    BY <1>34, LifecycleAssumption DEF EnableAccount, LifecycleAssumption
  <1>35. CASE UNCHANGED vars
    BY <1>35 DEF vars
  <1> QED
    BY <1>1, <1>2, <1>3, <1>4, <1>5, <1>6, <1>7, <1>8, <1>9, <1>10, <1>11, <1>12, <1>13, <1>14, <1>15, <1>16, <1>17, <1>18, <1>19, <1>20, <1>21, <1>22, <1>23, <1>24, <1>25, <1>26, <1>27, <1>28, <1>29, <1>30, <1>31, <1>32, <1>33, <1>34, <1>35
    DEF Next, Handler, Job, Environment

\* The variables of the rule keep to the values its columns can hold.
THEOREM TypeCorrect == Spec => []TypeOK
  BY InitTypeOK, NextTypeOK, PTL DEF Spec

----------------------------------------------------------------------------
(* The status follows the rollout. *)

\* Whatever was implemented is to be changed after an approval or a re-check, so
\* the rule is not implemented everywhere.
LEMMA ToChangeLeavesWork ==
    ASSUME NEW cs \in SUBSET Components, NEW f \in [Components -> ImplStatus]
    PROVE  ~FullyImplemented(cs, ToChange(f, cs))
  BY DEF FullyImplemented, ToChange

LEMMA RolloutStep == TypeOK /\ RolloutMatchesStatus /\ [Next]_vars => RolloutMatchesStatus'
  <1> SUFFICES ASSUME TypeOK, RolloutMatchesStatus, [Next]_vars PROVE RolloutMatchesStatus'
    OBVIOUS
  <1> USE DEF RolloutMatchesStatus
  \* A new rule is not in force, and these take the rule out of force.
  <1>1. ASSUME NEW u \in Users,
               CreateRule(u) \/ DeclareEmergency(u) \/ SubmitForReview(u) \/ Reject(u)
               \/ ApproveRemoval(u) \/ Deactivate(u) \/ DeleteRule(u) \/ RetireApplication(u)
               \/ ReworkItem(u) \/ RetireItem(u) \/ BlockRelation(u) \/ MovedInadmissible(u)
       PROVE  RolloutMatchesStatus'
    BY <1>1
      DEF CreateRule, Created, DeclareEmergency, SubmitForReview, Reject, Decision,
          ApproveRemoval, MayApprove, Deactivate, DeleteRule, RetireApplication,
          ReworkItem, RetireItem, BlockRelation, MovedInadmissible, InForce
  \* These keep status, components and rollout as they are.
  <1>2. ASSUME NEW u \in Users,
               ExtendValidity(u) \/ SetChangeId(u) \/ ProposeHandover(u) \/ ConfirmHandover(u)
               \/ CancelHandover(u) \/ ConfirmItem(u) \/ MovedAdmissible(u)
       PROVE  RolloutMatchesStatus'
    BY <1>2
      DEF ExtendValidity, SetChangeId, ProposeHandover, ConfirmHandover,
          CancelHandover, ConfirmItem, MovedAdmissible, parties, rollout, clocks
  \* An edit withdraws the approval.
  <1>3. ASSUME NEW u \in Users,
               UpdateRule(u) \/ RestoreVersion(u) \/ PropagateAddress(u) \/ RecheckResets(u)
       PROVE  RolloutMatchesStatus'
    BY <1>3
      DEF UpdateRule, PassesChecks, ComponentSets, Reset, RestoreVersion,
          PropagateAddress, RecheckResets, InForce, parties, rollout, clocks
  \* A re-check that keeps the approval leaves work on every component.
  <1>4. ASSUME NEW u \in Users,
               RecheckKeeps(u)
       PROVE  RolloutMatchesStatus'
    BY <1>4, ToChangeLeavesWork
      DEF RecheckKeeps, PassesChecks, ComponentSets, Reset, TypeOK, InForce
  \* So does an approval.
  <1>5. ASSUME NEW u \in Users,
               ApproveRule(u)
       PROVE  RolloutMatchesStatus'
    BY <1>5, ToChangeLeavesWork
      DEF ApproveRule, Decision, MayApprove, TypeOK
  \* A report moves the status with the rollout.
  <1>6. ASSUME NEW u \in Users,
               SetImplStatus(u)
       PROVE  RolloutMatchesStatus'
    BY <1>6
      DEF SetImplStatus, Synced, InForce
  \* The clock takes the rule out of service.
  <1>7. CASE ExpireRules \/ ExpireEmergencyRules
    BY <1>7
      DEF ExpireRules, Expired, ExpireEmergencyRules, EmergencyOverdue, InForce
  \* What happens around the rule.
  <1>8. CASE DayPasses \/ WindowPasses \/ DecideRelation \/ RelationDrifts
               \/ DisableAccount \/ EnableAccount
    BY <1>8
      DEF DayPasses, WindowPasses, DecideRelation, RelationDrifts, DisableAccount,
          EnableAccount, parties, rollout, clocks
  <1>9. CASE UNCHANGED vars
    BY <1>9 DEF vars, parties, rollout, clocks
  <1> QED
    BY <1>1, <1>2, <1>3, <1>4, <1>5, <1>6, <1>7, <1>8, <1>9
    DEF Next, Handler, Job, Environment

----------------------------------------------------------------------------
(* What stands in force is permitted, and nobody proposes its removal. *)

LEMMA NotBlockedStep == TypeOK /\ InForceNotBlocked /\ [Next]_vars => InForceNotBlocked'
  <1> SUFFICES ASSUME TypeOK, InForceNotBlocked, [Next]_vars PROVE InForceNotBlocked'
    OBVIOUS
  <1> USE DEF InForceNotBlocked
  \* Not in force afterwards.
  <1>1. ASSUME NEW u \in Users,
               CreateRule(u) \/ DeclareEmergency(u) \/ SubmitForReview(u) \/ Reject(u)
               \/ ApproveRemoval(u) \/ Deactivate(u) \/ DeleteRule(u) \/ RetireApplication(u)
               \/ ReworkItem(u) \/ RetireItem(u) \/ BlockRelation(u) \/ MovedInadmissible(u)
       PROVE  InForceNotBlocked'
    BY <1>1
      DEF CreateRule, Created, DeclareEmergency, SubmitForReview, Reject, Decision,
          ApproveRemoval, MayApprove, Deactivate, DeleteRule, RetireApplication,
          ReworkItem, RetireItem, BlockRelation, MovedInadmissible, InForce
  \* Nothing the invariant reads changes.
  <1>2. ASSUME NEW u \in Users,
               ExtendValidity(u) \/ SetChangeId(u) \/ ProposeHandover(u) \/ ConfirmHandover(u)
               \/ CancelHandover(u) \/ ConfirmItem(u)
       PROVE  InForceNotBlocked'
    BY <1>2
      DEF ExtendValidity, SetChangeId, ProposeHandover, ConfirmHandover,
          CancelHandover, ConfirmItem, parties, rollout, clocks
  \* The matrix is asked, and the rule only stays on a relation it does not block.
  <1>3. ASSUME NEW u \in Users,
               MovedAdmissible(u) \/ UpdateRule(u) \/ RestoreVersion(u) \/ PropagateAddress(u)
               \/ RecheckResets(u) \/ RecheckKeeps(u)
       PROVE  InForceNotBlocked'
    BY <1>3
      DEF MovedAdmissible, UpdateRule, PassesChecks, ComponentSets, Reset,
          RestoreVersion, PropagateAddress, RecheckResets, RecheckKeeps, parties,
          rollout, clocks
  \* An approval asks the matrix once more.
  <1>4. ASSUME NEW u \in Users,
               ApproveRule(u)
       PROVE  InForceNotBlocked'
    BY <1>4
      DEF ApproveRule, Decision, MayApprove, RemovalDue
  \* A report moves the rule within force only.
  <1>5. ASSUME NEW u \in Users,
               SetImplStatus(u)
       PROVE  InForceNotBlocked'
    BY <1>5
      DEF SetImplStatus, Synced, InForce
  \* The clock takes the rule out of service.
  <1>6. CASE ExpireRules \/ ExpireEmergencyRules
    BY <1>6
      DEF ExpireRules, Expired, ExpireEmergencyRules, EmergencyOverdue, InForce
  \* What happens around the rule.
  <1>7. CASE DayPasses \/ WindowPasses \/ DecideRelation \/ RelationDrifts
               \/ DisableAccount \/ EnableAccount
    BY <1>7
      DEF DayPasses, WindowPasses, DecideRelation, RelationDrifts, DisableAccount,
          EnableAccount, parties, rollout, clocks
  <1>8. CASE UNCHANGED vars
    BY <1>8 DEF vars, parties, rollout, clocks
  <1> QED
    BY <1>1, <1>2, <1>3, <1>4, <1>5, <1>6, <1>7, <1>8
    DEF Next, Handler, Job, Environment

LEMMA NoProposalStep == TypeOK /\ NoRemovalProposalInForce /\ [Next]_vars => NoRemovalProposalInForce'
  <1> SUFFICES ASSUME TypeOK, NoRemovalProposalInForce, [Next]_vars PROVE NoRemovalProposalInForce'
    OBVIOUS
  <1> USE DEF NoRemovalProposalInForce
  \* Not in force afterwards.
  <1>1. ASSUME NEW u \in Users,
               CreateRule(u) \/ DeclareEmergency(u) \/ SubmitForReview(u) \/ Reject(u)
               \/ ApproveRemoval(u) \/ Deactivate(u) \/ DeleteRule(u) \/ RetireApplication(u)
               \/ ReworkItem(u) \/ RetireItem(u) \/ BlockRelation(u) \/ MovedInadmissible(u)
       PROVE  NoRemovalProposalInForce'
    BY <1>1
      DEF CreateRule, Created, DeclareEmergency, SubmitForReview, Reject, Decision,
          ApproveRemoval, MayApprove, Deactivate, DeleteRule, RetireApplication,
          ReworkItem, RetireItem, BlockRelation, MovedInadmissible, InForce
  \* Nothing the invariant reads changes.
  <1>2. ASSUME NEW u \in Users,
               ExtendValidity(u) \/ SetChangeId(u) \/ ProposeHandover(u) \/ ConfirmHandover(u)
               \/ CancelHandover(u) \/ ConfirmItem(u)
       PROVE  NoRemovalProposalInForce'
    BY <1>2
      DEF ExtendValidity, SetChangeId, ProposeHandover, ConfirmHandover,
          CancelHandover, ConfirmItem, parties, rollout, clocks
  \* The proposal is withdrawn with the content it was about.
  <1>3. ASSUME NEW u \in Users,
               MovedAdmissible(u) \/ UpdateRule(u) \/ RestoreVersion(u) \/ PropagateAddress(u)
               \/ RecheckResets(u) \/ RecheckKeeps(u)
       PROVE  NoRemovalProposalInForce'
    BY <1>3
      DEF MovedAdmissible, UpdateRule, PassesChecks, ComponentSets, Reset,
          RestoreVersion, PropagateAddress, RecheckResets, RecheckKeeps, parties,
          rollout, clocks
  \* With a proposal standing, the approval is one of the removal.
  <1>4. ASSUME NEW u \in Users,
               ApproveRule(u)
       PROVE  NoRemovalProposalInForce'
    BY <1>4
      DEF ApproveRule, Decision, MayApprove, RemovalDue, TypeOK
  \* A report moves the rule within force only.
  <1>5. ASSUME NEW u \in Users,
               SetImplStatus(u)
       PROVE  NoRemovalProposalInForce'
    BY <1>5
      DEF SetImplStatus, Synced, InForce
  \* The clock takes the rule out of service.
  <1>6. CASE ExpireRules \/ ExpireEmergencyRules
    BY <1>6
      DEF ExpireRules, Expired, ExpireEmergencyRules, EmergencyOverdue, InForce
  \* What happens around the rule.
  <1>7. CASE DayPasses \/ WindowPasses \/ DecideRelation \/ RelationDrifts
               \/ DisableAccount \/ EnableAccount
    BY <1>7
      DEF DayPasses, WindowPasses, DecideRelation, RelationDrifts, DisableAccount,
          EnableAccount, parties, rollout, clocks
  <1>8. CASE UNCHANGED vars
    BY <1>8 DEF vars, parties, rollout, clocks
  <1> QED
    BY <1>1, <1>2, <1>3, <1>4, <1>5, <1>6, <1>7, <1>8
    DEF Next, Handler, Job, Environment

----------------------------------------------------------------------------
(* Emergency windows and the open review cycle. *)

LEMMA WindowStep == TypeOK /\ OpenWindowIsUndecided /\ [Next]_vars => OpenWindowIsUndecided'
  <1> SUFFICES ASSUME TypeOK, OpenWindowIsUndecided, [Next]_vars PROVE OpenWindowIsUndecided'
    OBVIOUS
  <1> USE DEF OpenWindowIsUndecided
  \* A new rule is open.
  <1>1. ASSUME NEW u \in Users,
               CreateRule(u) \/ DeclareEmergency(u)
       PROVE  OpenWindowIsUndecided'
    BY <1>1
      DEF CreateRule, Created, DeclareEmergency, Open, InForce
  \* Every decision closes the window.
  <1>2. ASSUME NEW u \in Users,
               ApproveRule(u) \/ ApproveRemoval(u) \/ Reject(u) \/ Deactivate(u)
               \/ DeleteRule(u)
       PROVE  OpenWindowIsUndecided'
    BY <1>2
      DEF ApproveRule, Decision, MayApprove, ApproveRemoval, Reject, Deactivate,
          DeleteRule, Open
  \* A rule that leaves force has none.
  <1>3. ASSUME NEW u \in Users,
               SubmitForReview(u) \/ RetireApplication(u) \/ ReworkItem(u) \/ RetireItem(u)
               \/ BlockRelation(u) \/ MovedInadmissible(u)
       PROVE  OpenWindowIsUndecided'
    BY <1>3
      DEF SubmitForReview, RetireApplication, ReworkItem, RetireItem,
          BlockRelation, MovedInadmissible, Open, InForce, parties, rollout, clocks
  \* Neither status nor window changes.
  <1>4. ASSUME NEW u \in Users,
               ExtendValidity(u) \/ SetChangeId(u) \/ ProposeHandover(u) \/ ConfirmHandover(u)
               \/ CancelHandover(u) \/ ConfirmItem(u) \/ MovedAdmissible(u)
       PROVE  OpenWindowIsUndecided'
    BY <1>4
      DEF ExtendValidity, SetChangeId, ProposeHandover, ConfirmHandover,
          CancelHandover, ConfirmItem, MovedAdmissible, parties, rollout, clocks
  \* An open rule stays open.
  <1>5. ASSUME NEW u \in Users,
               UpdateRule(u) \/ RestoreVersion(u) \/ PropagateAddress(u) \/ RecheckResets(u)
               \/ RecheckKeeps(u)
       PROVE  OpenWindowIsUndecided'
    BY <1>5
      DEF UpdateRule, PassesChecks, ComponentSets, Reset, RestoreVersion,
          PropagateAddress, RecheckResets, RecheckKeeps, Open, InForce, parties,
          rollout, clocks
  \* A report says nothing about a rule that is not in force.
  <1>6. ASSUME NEW u \in Users,
               SetImplStatus(u)
       PROVE  OpenWindowIsUndecided'
    BY <1>6
      DEF SetImplStatus, Synced, Open, parties, rollout, clocks
  \* The clock takes the rule out of service.
  <1>7. CASE ExpireRules \/ ExpireEmergencyRules
    BY <1>7
      DEF ExpireRules, Expired, ExpireEmergencyRules, EmergencyOverdue, Open,
          InForce, parties, rollout, clocks
  \* What happens around the rule.
  <1>8. CASE DayPasses \/ WindowPasses \/ DecideRelation \/ RelationDrifts
               \/ DisableAccount \/ EnableAccount
    BY <1>8
      DEF DayPasses, WindowPasses, DecideRelation, RelationDrifts, DisableAccount,
          EnableAccount, Open, parties, rollout, clocks
  <1>9. CASE UNCHANGED vars
    BY <1>9 DEF vars, parties, rollout, clocks
  <1> QED
    BY <1>1, <1>2, <1>3, <1>4, <1>5, <1>6, <1>7, <1>8, <1>9
    DEF Next, Handler, Job, Environment

\* A version that carries a status of the open cycle names its writer and leaves
\* the cycle open.
LEMMA OpenVersion ==
    ASSUME NEW h, NEW u \in Users, NEW req, NEW st, st \notin CycleClosed
    PROVE  /\ Versioned(h, u, st, req).writers \cap Users # {}
           /\ ~Versioned(h, u, st, req).closed
  BY DEF Versioned

LEMMA WritersStep == TypeOK /\ UnderReviewHasWriters /\ [Next]_vars => UnderReviewHasWriters'
  <1> SUFFICES ASSUME TypeOK, UnderReviewHasWriters, [Next]_vars PROVE UnderReviewHasWriters'
    OBVIOUS
  <1> USE DEF UnderReviewHasWriters
  \* A draft.
  <1>1. ASSUME NEW u \in Users,
               CreateRule(u)
       PROVE  UnderReviewHasWriters'
    BY <1>1
      DEF CreateRule, Created
  \* Every way into review writes a version that carries the status.
  <1>2. ASSUME NEW u \in Users,
               DeclareEmergency(u) \/ SubmitForReview(u) \/ RetireApplication(u) \/ ReworkItem(u)
               \/ BlockRelation(u) \/ MovedInadmissible(u)
       PROVE  UnderReviewHasWriters'
    BY <1>2, OpenVersion
      DEF DeclareEmergency, Created, SubmitForReview, RetireApplication,
          ReworkItem, BlockRelation, MovedInadmissible, CycleClosed, InForce
  \* Not under review afterwards.
  <1>3. ASSUME NEW u \in Users,
               ApproveRule(u) \/ ApproveRemoval(u) \/ Reject(u) \/ Deactivate(u)
               \/ DeleteRule(u) \/ RetireItem(u)
       PROVE  UnderReviewHasWriters'
    BY <1>3
      DEF ApproveRule, Decision, MayApprove, ApproveRemoval, Reject, Deactivate,
          DeleteRule, RetireItem
  \* A version in the open cycle adds a writer and closes nothing.
  <1>4. ASSUME NEW u \in Users,
               ExtendValidity(u) \/ SetChangeId(u) \/ ProposeHandover(u) \/ ConfirmHandover(u)
               \/ CancelHandover(u) \/ ConfirmItem(u) \/ MovedAdmissible(u) \/ SetImplStatus(u)
       PROVE  UnderReviewHasWriters'
    BY <1>4, OpenVersion
      DEF ExtendValidity, SetChangeId, ProposeHandover, ConfirmHandover,
          CancelHandover, ConfirmItem, MovedAdmissible, SetImplStatus, Synced,
          CycleClosed, InForce, parties, rollout, clocks
  \* An edit under review is such a version, too.
  <1>5. ASSUME NEW u \in Users,
               UpdateRule(u) \/ RestoreVersion(u)
       PROVE  UnderReviewHasWriters'
    BY <1>5, OpenVersion
      DEF UpdateRule, PassesChecks, ComponentSets, Reset, RestoreVersion,
          CycleClosed, InForce, parties, rollout, clocks
  \* A version without a status adds a writer and nothing else.
  <1>6. ASSUME NEW u \in Users,
               PropagateAddress(u) \/ RecheckResets(u) \/ RecheckKeeps(u)
       PROVE  UnderReviewHasWriters'
    BY <1>6
      DEF PropagateAddress, PassesChecks, ComponentSets, Reset, RecheckResets,
          RecheckKeeps, InForce, AutoVersioned, Histories, TypeOK, parties,
          rollout, clocks
  \* The clock takes the rule out of service.
  <1>7. CASE ExpireRules \/ ExpireEmergencyRules
    BY <1>7
      DEF ExpireRules, Expired, ExpireEmergencyRules, EmergencyOverdue
  \* What happens around the rule.
  <1>8. CASE DayPasses \/ WindowPasses \/ DecideRelation \/ RelationDrifts
               \/ DisableAccount \/ EnableAccount
    BY <1>8
      DEF DayPasses, WindowPasses, DecideRelation, RelationDrifts, DisableAccount,
          EnableAccount, parties, rollout, clocks
  <1>9. CASE UNCHANGED vars
    BY <1>9 DEF vars, parties, rollout, clocks
  <1> QED
    BY <1>1, <1>2, <1>3, <1>4, <1>5, <1>6, <1>7, <1>8, <1>9
    DEF Next, Handler, Job, Environment

----------------------------------------------------------------------------
(* The theorems. *)

LEMMA InitInvariants ==
    Init => /\ RolloutMatchesStatus /\ InForceNotBlocked /\ NoRemovalProposalInForce
            /\ OpenWindowIsUndecided /\ UnderReviewHasWriters
  BY DEF Init, RolloutMatchesStatus, InForceNotBlocked, NoRemovalProposalInForce,
         OpenWindowIsUndecided, UnderReviewHasWriters, InForce

\* A rule in force is "active" exactly when operations reported it implemented on
\* every component it has, after any sequence of edits, re-checks and reports.
THEOREM RolloutCorrect == Spec => []RolloutMatchesStatus
  BY TypeCorrect, InitInvariants, RolloutStep, PTL DEF Spec

\* No rule is in force on a relation the zone matrix blocks.
THEOREM NotBlockedCorrect == Spec => []InForceNotBlocked
  BY TypeCorrect, InitInvariants, NotBlockedStep, PTL DEF Spec

\* A standing removal proposal keeps the rule out of force.
THEOREM NoProposalCorrect == Spec => []NoRemovalProposalInForce
  BY TypeCorrect, InitInvariants, NoProposalStep, PTL DEF Spec

\* An open emergency window belongs to a rule that nobody has decided on.
THEOREM WindowCorrect == Spec => []OpenWindowIsUndecided
  BY TypeCorrect, InitInvariants, WindowStep, PTL DEF Spec

\* accounts_involved() has an open cycle with a writer in it whenever a rule is
\* under review.
THEOREM WritersCorrect == Spec => []UnderReviewHasWriters
  BY TypeCorrect, InitInvariants, WritersStep, PTL DEF Spec

----------------------------------------------------------------------------
(* What a step means for the review cycle. *)

\* A version written by u while the rule is open enters u into the cycle and
\* forgets nobody; the rule comes into force by u's approval only; nobody
\* becomes the creator of an existing rule.
Effect(u) ==
    /\ status' \in Open => u \in history'.writers
    /\ (status \in Open /\ status' \in Open) => history.writers \subseteq history'.writers
    /\ (status' \in InForce /\ status \notin InForce) => MayApprove(u)
    /\ status # "absent" => creator' = creator

LEMMA HandlerEffect ==
    ASSUME TypeOK, NEW u \in Users, Handler(u)
    PROVE  Effect(u)
  <1> USE DEF Effect
  \* A new rule starts a cycle with its creator in it.
  <1>1. CASE CreateRule(u) \/ DeclareEmergency(u)
    BY <1>1
      DEF CreateRule, Created, DeclareEmergency, Versioned, CycleClosed, InForce,
          Open
  \* Neither open nor in force afterwards.
  <1>2. CASE ApproveRemoval(u) \/ Reject(u) \/ Deactivate(u) \/ DeleteRule(u)
           \/ RetireItem(u)
    BY <1>2
      DEF ApproveRemoval, Decision, Reject, Deactivate, DeleteRule, RetireItem,
          Versioned, CycleClosed, InForce, Open, parties
  \* The one way into force.
  <1>3. CASE ApproveRule(u)
    BY <1>3
      DEF ApproveRule, Decision, Versioned, CycleClosed, InForce, Open, parties
  \* The version written carries an open status.
  <1>4. CASE SubmitForReview(u) \/ RetireApplication(u) \/ ReworkItem(u) \/ BlockRelation(u)
           \/ MovedInadmissible(u) \/ UpdateRule(u) \/ RestoreVersion(u)
    BY <1>4
      DEF SubmitForReview, RetireApplication, ReworkItem, BlockRelation,
          MovedInadmissible, UpdateRule, PassesChecks, ComponentSets, Reset,
          RestoreVersion, Versioned, CycleClosed, InForce, Open, parties
  \* The version carries no status and adds its writer.
  <1>5. CASE PropagateAddress(u) \/ RecheckResets(u) \/ RecheckKeeps(u)
    BY <1>5
      DEF PropagateAddress, PassesChecks, ComponentSets, Reset, RecheckResets,
          RecheckKeeps, AutoVersioned, InForce, Open, TypeOK, Histories, parties
  \* The status stays, and the version carries it.
  <1>6. CASE ExtendValidity(u) \/ SetChangeId(u) \/ ProposeHandover(u) \/ ConfirmHandover(u)
           \/ CancelHandover(u) \/ ConfirmItem(u) \/ MovedAdmissible(u)
    BY <1>6
      DEF ExtendValidity, SetChangeId, ProposeHandover, ConfirmHandover,
          CancelHandover, ConfirmItem, MovedAdmissible, Versioned, CycleClosed,
          InForce, Open, parties
  \* A report moves a rule within force only.
  <1>7. CASE SetImplStatus(u)
    BY <1>7
      DEF SetImplStatus, Synced, Versioned, CycleClosed, InForce, Open, parties
  <1> QED
    BY <1>1, <1>2, <1>3, <1>4, <1>5, <1>6, <1>7 DEF Handler

\* The background jobs only take rules out of review and out of force.
LEMMA JobEffect == Job => status' = "deactivated" /\ UNCHANGED creator
  BY DEF Job, ExpireRules, ExpireEmergencyRules, parties

LEMMA EnvironmentEffect == Environment => UNCHANGED <<status, creator, history>>
  BY DEF Environment, DayPasses, WindowPasses, DecideRelation, RelationDrifts,
         DisableAccount, EnableAccount, parties

----------------------------------------------------------------------------
(* The inductive invariant. *)

\* TwoPairsOfEyes is about rules in force; while a rule is open it takes that the
\* code's writers cover the real ones, and that somebody has written.
ReviewInv ==
    /\ revision \subseteq Users
    /\ CycleCoversRevision
    /\ TwoPairsOfEyes
    /\ status \in Open => revision # {}
    /\ status \notin InForce => approver = NoUser
    /\ status \notin Open \cup InForce => revision = {}

LEMMA StageValues ==
    /\ Stage \in {"open", "in force", "closed"}
    /\ Stage = "open" <=> status \in Open
    /\ Stage = "in force" <=> status \in InForce
  BY DEF Stage, Open, InForce

LEMMA StageValuesNext ==
    /\ Stage' \in {"open", "in force", "closed"}
    /\ Stage' = "open" <=> status' \in Open
    /\ Stage' = "in force" <=> status' \in InForce
  BY DEF Stage, Open, InForce

\* Whoever may approve neither created the rule nor wrote in the open cycle.
LEMMA ApproverIsOutside ==
    ASSUME ReviewInv, NEW u \in Users, MayApprove(u)
    PROVE  status \in Open /\ u \notin revision /\ u # creator
  BY LifecycleAssumption
  DEF LifecycleAssumption, ReviewInv, MayApprove, Involved, CycleCoversRevision, Open

\* What Witness(u) assigns, by the stage the step leads to.
LEMMA WitnessEffect ==
    ASSUME NEW u, Witness(u)
    PROVE  /\ Stage' = "open" =>
                /\ revision' = {u} \cup (IF Stage = "open" THEN revision ELSE {})
                /\ approver' = NoUser
           /\ Stage' = "in force" =>
                /\ revision' = revision
                /\ approver' = IF Stage = "in force" THEN approver ELSE u
           /\ Stage' = "closed" => revision' = {} /\ approver' = NoUser
  BY DEF Witness

LEMMA ReviewInitInv == ReviewInit => ReviewInv
  BY DEF ReviewInit, Init, ReviewInv, CycleCoversRevision, TwoPairsOfEyes, Open, InForce

LEMMA ReviewStepInv == TypeOK /\ ReviewInv /\ [ReviewNext]_reviewVars => ReviewInv'
  <1> SUFFICES ASSUME TypeOK, ReviewInv, [ReviewNext]_reviewVars PROVE ReviewInv'
    OBVIOUS
  <1> USE StageValues, StageValuesNext
  <1>1. ASSUME NEW u \in Users, Handler(u), Witness(u) PROVE ReviewInv'
    <2>1. Effect(u)
      BY <1>1, HandlerEffect
    <2>2. CASE Stage' = "open"
      <3>1. revision' = {u} \cup (IF Stage = "open" THEN revision ELSE {}) /\ approver' = NoUser
        BY <1>1, <2>2, WitnessEffect
      <3>2. revision' \subseteq history'.writers
        BY <2>1, <2>2, <3>1 DEF Effect, ReviewInv, CycleCoversRevision
      <3> QED
        BY <2>2, <3>1, <3>2 DEF ReviewInv, CycleCoversRevision, TwoPairsOfEyes
    <2>3. CASE Stage' = "in force" /\ Stage = "in force"
      <3>1. status # "absent"
        BY <2>3 DEF InForce
      <3> QED
        BY <1>1, <2>1, <2>3, <3>1, WitnessEffect
        DEF Effect, ReviewInv, CycleCoversRevision, TwoPairsOfEyes
    <2>4. CASE Stage' = "in force" /\ Stage # "in force"
      <3>1. MayApprove(u)
        BY <2>1, <2>4 DEF Effect
      <3>2. status \in Open /\ u \notin revision /\ u # creator
        BY <1>1, <3>1, ApproverIsOutside
      <3>3. creator' = creator
        BY <2>1, <3>2 DEF Effect, Open
      <3>4. revision' = revision /\ approver' = u
        BY <1>1, <2>4, WitnessEffect
      <3> QED
        BY <2>4, <3>2, <3>3, <3>4 DEF ReviewInv, CycleCoversRevision, TwoPairsOfEyes
    <2>5. CASE Stage' = "closed"
      BY <1>1, <2>5, WitnessEffect DEF ReviewInv, CycleCoversRevision, TwoPairsOfEyes
    <2> QED
      BY <2>2, <2>3, <2>4, <2>5
  <1>2. CASE Job /\ Witness(System)
    <2>1. Stage' = "closed"
      BY <1>2, JobEffect DEF Open, InForce
    <2> QED
      BY <1>2, <2>1, WitnessEffect DEF ReviewInv, CycleCoversRevision, TwoPairsOfEyes
  <1>3. CASE Environment /\ UNCHANGED <<revision, approver>>
    BY <1>3, EnvironmentEffect DEF ReviewInv, CycleCoversRevision, TwoPairsOfEyes
  <1>4. CASE UNCHANGED reviewVars
    BY <1>4 DEF reviewVars, vars, parties, ReviewInv, CycleCoversRevision, TwoPairsOfEyes
  <1> QED
    BY <1>1, <1>2, <1>3, <1>4 DEF ReviewNext

\* With its history variables the module still is the lifecycle.
LEMMA ReviewIsLifecycle == ReviewSpec => Spec
  <1>1. ReviewInit => Init
    BY DEF ReviewInit
  <1>2. [ReviewNext]_reviewVars => [Next]_vars
    BY DEF ReviewNext, Next, reviewVars, vars
  <1> QED
    BY <1>1, <1>2, PTL DEF ReviewSpec, Spec

LEMMA ReviewInvariant == ReviewSpec => [](TypeOK /\ ReviewInv)
  BY ReviewIsLifecycle, TypeCorrect, ReviewInitInv, ReviewStepInv, PTL DEF ReviewSpec

\* Every rule in force was shaped by somebody and approved by somebody else.
THEOREM EyesCorrect == ReviewSpec => []TwoPairsOfEyes
  <1>1. ReviewInv => TwoPairsOfEyes
    BY DEF ReviewInv
  <1> QED
    BY <1>1, ReviewInvariant, PTL

\* accounts_involved() covers everybody who wrote while the content was open.
THEOREM CycleCorrect == ReviewSpec => []CycleCoversRevision
  <1>1. ReviewInv => CycleCoversRevision
    BY DEF ReviewInv
  <1> QED
    BY <1>1, ReviewInvariant, PTL

----------------------------------------------------------------------------
(* Refinement. *)

LEMMA InitRefines == ReviewInit => Abstract!Init
  BY DEF ReviewInit, Init, Abstract!Init, Stage, Open, InForce

LEMMA StepRefines ==
    TypeOK /\ ReviewInv /\ [ReviewNext]_reviewVars => [Abstract!Next]_(Abstract!eyes)
  <1> SUFFICES ASSUME TypeOK, ReviewInv, [ReviewNext]_reviewVars
               PROVE  Abstract!Next \/ UNCHANGED Abstract!eyes
    OBVIOUS
  <1> USE StageValues, StageValuesNext
  <1>1. ASSUME NEW u \in Users, Handler(u), Witness(u)
        PROVE  Abstract!Next \/ UNCHANGED Abstract!eyes
    <2>1. Effect(u)
      BY <1>1, HandlerEffect
    <2>2. CASE Stage' = "open" /\ Stage = "open"
      <3>1. Abstract!Shape(u)
        BY <1>1, <2>2, WitnessEffect DEF ReviewInv, Open, InForce, Abstract!Shape
      <3> QED
        BY <1>1, <3>1 DEF Abstract!Next
    <2>3. CASE Stage' = "open" /\ Stage # "open"
      <3>1. Abstract!Open(u)
        BY <1>1, <2>3, WitnessEffect DEF Abstract!Open
      <3> QED
        BY <1>1, <3>1 DEF Abstract!Next
    <2>4. CASE Stage' = "in force" /\ Stage = "in force"
      BY <1>1, <2>4, WitnessEffect DEF Abstract!eyes
    <2>5. CASE Stage' = "in force" /\ Stage # "in force"
      <3>1. status \in Open /\ u \notin revision
        BY <1>1, <2>1, <2>5, ApproverIsOutside DEF Effect
      <3>2. Abstract!Approve(u)
        BY <1>1, <2>5, <3>1, WitnessEffect DEF Abstract!Approve
      <3> QED
        BY <1>1, <3>2 DEF Abstract!Next
    <2>6. CASE Stage' = "closed" /\ Stage # "closed"
      BY <1>1, <2>6, WitnessEffect DEF Abstract!Close, Abstract!Next
    <2>7. CASE Stage' = "closed" /\ Stage = "closed"
      BY <1>1, <2>7, WitnessEffect DEF ReviewInv, Abstract!eyes
    <2> QED
      BY <2>2, <2>3, <2>4, <2>5, <2>6, <2>7
  <1>2. CASE Job /\ Witness(System)
    <2>1. Stage' = "closed"
      BY <1>2, JobEffect DEF Open, InForce
    <2>2. CASE Stage # "closed"
      BY <1>2, <2>1, <2>2, WitnessEffect DEF Abstract!Close, Abstract!Next
    <2>3. CASE Stage = "closed"
      BY <1>2, <2>1, <2>3, WitnessEffect DEF ReviewInv, Abstract!eyes
    <2> QED
      BY <2>2, <2>3
  <1>3. CASE Environment /\ UNCHANGED <<revision, approver>>
    BY <1>3, EnvironmentEffect DEF Stage, Abstract!eyes
  <1>4. CASE UNCHANGED reviewVars
    BY <1>4 DEF reviewVars, vars, Stage, Abstract!eyes
  <1> QED
    BY <1>1, <1>2, <1>3, <1>4 DEF ReviewNext

\* The lifecycle implements the four-eyes workflow: every step of every handler
\* and job is one of its steps or leaves it alone.
THEOREM LifecycleImplementsFourEyes == ReviewSpec => FourEyesSpec
  BY InitRefines, StepRefines, ReviewInvariant, PTL DEF ReviewSpec, FourEyesSpec, Abstract!Spec

=============================================================================
