CONSTANTS
    Platform = "juniper"
    Addresses = {1, 2, 3}
    MaxPort = 2
    Cited <- MCCited
    Order <- MCOrder
    Contents <- MCContents
    HandMade <- MCHandMade
    Types = {"juniper", "aci"}
    MaxChanges = 2
SPECIFICATION Spec
INVARIANTS
    InSyncIsApproved
    RolloutReadsInSync
CHECK_DEADLOCK FALSE
