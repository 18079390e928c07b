SPECIFICATION Spec
CONSTANTS
    Networks <- SegmentNetworksOf
    Labels = {"web"}
    Workloads = {"vm"}
    Imports = {}
    Groups = {"g", "h"}
    Segments = {1, 2}
    Rules = {"inner"}
    Refs <- SegmentRefs
    ZoneAt <- SegmentZoneAt
    SegmentedZone = "A"
    Behind <- SegmentBehind
    Firewalls = {"cluster"}
    Permitted <- MCPermitted
    Shapes <- SegmentShapes
    Definitions <- SegmentDefinitions
INVARIANTS StandingRulesAdmitted NoLeftoverCells
