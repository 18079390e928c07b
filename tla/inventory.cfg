SPECIFICATION Spec
CONSTANTS
    Networks <- MCNetworks
    Labels = {"web"}
    Workloads = {"vm", "nb"}
    Imports = {"nb"}
    Groups = {"g", "h"}
    Segments = {}
    Rules = {"cross", "inner"}
    Refs <- MCRefs
    ZoneAt <- MCZoneAt
    SegmentedZone = "A"
    Behind <- MCBehind
    Firewalls = {"cluster"}
    Permitted <- MCPermitted
    Shapes <- MCShapes
    Definitions <- MCDefinitions
INVARIANTS TypeOK RulesFollowGroups AddressesAdmissible
