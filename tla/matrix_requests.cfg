CONSTANTS
    q1 = q1
    q2 = q2
    s1 = s1
    s2 = s2
    dmz = dmz
    app = app
    new = new
    wide = wide
    narrow = narrow
    other = other
    w1 = w1
    n1 = n1
    o1 = o1
    monitoring = monitoring
    cluster = cluster
    ann = ann
    ben = ben
    cem = cem
    NoUser = NoUser
    NoZone = NoZone
    Users = {ann, ben, cem}
    Requestors = {ann}
    Architects = {ann}
    Approvers = {ann, ben, cem}
    Zones = {dmz, app, new}
    Cidrs = {wide, narrow, other}
    Addresses = {w1, n1, o1}
    Covers <- MCCovers
    Prefix <- MCPrefix
    Rules = {monitoring, cluster}
    Source <- MCSource
    Destination <- MCDestination
    FabricRules = {cluster}
    DefaultDeny = TRUE
    Requests = {q1, q2}
    Offers <- MCOffers
    Sessions = {s1, s2}
    Start <- MCStart
SYMMETRY Alike
SPECIFICATION Spec
INVARIANTS
    TypeOK
    ApprovedByTwoOthers
    BlockLeavesNothingInForce
PROPERTIES
    DecidedOnce
    RulesFollowMoves
CHECK_DEADLOCK FALSE
