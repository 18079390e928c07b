--------------------------- MODULE MCPathAnalysis ---------------------------
EXTENDS PathAnalysis, TLC

\* Five firewalls and a fabric (6).  Two routes from 1 to 5 lead through 4; 1 and 4
\* are linked for management only.
MCPairs == {{1, 2}, {1, 3}, {2, 3}, {2, 4}, {3, 4}, {4, 5}, {1, 4}}

Between(source, destination, intra, redirected) ==
    [source |-> source, destination |-> destination, intra |-> intra, redirected |-> redirected]
MCQueries == {Between({1, 6}, {5, 6}, FALSE, {}),
              Between({1, 2}, {3, 4}, FALSE, {}),
              Between({1, 4}, {2, 3}, FALSE, {}),
              Between({1, 6}, {1, 6}, TRUE, {3}),
              Between({2}, {2, 4}, FALSE, {})}

MCOn == ("web" :> {1, 2, 4, 5}) @@ ("spare" :> {3, 6}) @@ ("admin" :> {1, 3, 4, 5})
MCCarries == ("web" :> {"http"}) @@ ("spare" :> {"http"}) @@ ("admin" :> {"ssh"})
=============================================================================
