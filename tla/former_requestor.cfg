CONSTANTS
    ann = ann
    ben = ben
    cem = cem
    fw = fw
    aci = aci
    Users = {ann, ben, cem}
    System = System
    NoUser = NoUser
    Holds <- EverybodyHoldsAll
    Leavers = {}
    Components = {fw}
    Reports = {"implemented"}
    Relations = {"allow", "block"}
    Dates = {"none"}
SYMMETRY AnyAccount
SPECIFICATION SinceSpec
PROPERTIES
    RequestorsDoNotApprove
CHECK_DEADLOCK FALSE
