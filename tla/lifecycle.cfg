CONSTANTS
    ann = ann
    ben = ben
    cem = cem
    fw = fw
    aci = aci
    Users = {ann, ben}
    System = System
    NoUser = NoUser
    Holds <- ClerkAndApprover
    Leavers = {ben}
    Components = {fw, aci}
    Reports = {"implemented", "to change"}
    Relations = {"allow", "block", "lapsed"}
    Dates = {"none", "future"}
SPECIFICATION FairSpec
INVARIANTS
    TypeOK
    RolloutMatchesStatus
    InForceNotBlocked
    NoRemovalProposalInForce
    OpenWindowIsUndecided
    UnderReviewHasWriters
PROPERTIES
    ExpiredRuleLeavesForce
    EmergencyLeavesReview
CHECK_DEADLOCK FALSE
