\* Two rules that name the object, two sessions, one campaign.
SPECIFICATION Spec
CONSTANTS
    r1 = r1
    r2 = r2
    Rules = {r1, r2}
    Named = {r1, r2}
    Campaigns = {c1}
    s1 = s1
    s2 = s2
    Sessions = {s1, s2}
    MaxVersion <- Versions
    a1 = a1
    a2 = a2
    Addresses = {a1, a2}
    Scopes <- Everything
SYMMETRY Interchangeable
INVARIANTS
    TypeOK
    InForceAsApproved
PROPERTIES
    NamedMoveTogether
    DecisionStands
    SerialSpec
CHECK_DEADLOCK FALSE
