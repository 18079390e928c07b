CONSTANTS
    ann = ann
    ben = ben
    cem = cem
    fw = fw
    aci = aci
    Users = {ann, ben, cem}
    System = System
    NoUser = NoUser
    Holds <- EverybodyHoldsAll
    Leavers = {ann}
    Components = {fw}
    Reports = {"implemented"}
    Relations = {"allow", "block"}
    Dates = {"none"}
SYMMETRY AnyAccount
SPECIFICATION ReviewSpec
INVARIANTS
    TwoPairsOfEyes
    CycleCoversRevision
PROPERTIES
    FourEyesSpec
CHECK_DEADLOCK FALSE
