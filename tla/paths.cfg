CONSTANTS
    Components = {1, 2, 3, 4, 5, 6}
    Firewalls = {1, 2, 3, 4, 5}
    Pairs <- MCPairs
    Management = {{1, 4}}
    Services = {"http", "ssh"}
    Rules = {"web", "spare", "admin"}
    On <- MCOn
    Carries <- MCCarries
    Queries <- MCQueries
    MaxRoutes = 3
    MaxHops = 3
SPECIFICATION Spec
INVARIANTS
    EveryShortestRoute
    PossibleSurvivesFailover
