----------------------------- MODULE MCDevices -----------------------------
EXTENDS Devices

Entry(alias, net) == [alias |-> alias, net |-> net]
Svc(protocol, list) == [protocol |-> protocol, port |-> list]
Port(n) == <<n, n, "alone">>
Slashed(n) == <<n, n, "joined">>

Content(name, from, entry, services, action) ==
    [name |-> name, from |-> from, to |-> "B", source |-> <<entry>>,
     destination |-> <<Entry(None, {3})>>, services |-> services, action |-> action]

\* Two rules from two zones to a third.  The alias "web" stands for one address in
\* the first zone and for two in the second; Listed has port lists with slashes ("1/2"
\* and "1/2,2"), Shut refuses to all, and Open names the other rule in its own name.
Web    == Content("web", "A", Entry("web", {1}), {Svc("TCP", {Port(1)})}, "permit")
Listed == Content("web", "A", Entry(None, {1}),
                  {Svc("TCP", {Slashed(1), Slashed(2)}), Svc("ICMP/ICMPV6", Ping),
                   Svc("UDP", {Slashed(1), Slashed(2), Port(2)})}, "permit")
Shut   == Content("shut", "C", Entry(None, AnyNet), {Svc("TCP", {<<1, 2, "alone">>})}, "deny")
Open   == Content("as SR1", "C", Entry("web", {1, 2}), {Svc("TCP", {Port(1)})}, "permit")

MCContents == ("SR1" :> {Web, Listed}) @@ ("SR2" :> {Shut, Open})

MCOrder == <<"SR1", "SR2">>

MCCited == [n \in {"web", "shut", "adhoc"} |-> <<>>] @@ ("as SR1" :> <<"SR1">>)

Typed(name, remark) ==
    [from |-> "A", to |-> "B", name |-> name, remark |-> remark, exported |-> FALSE,
     source |-> {<<"alias", "web">>}, destination |-> {<<"net", {3}>>},
     apps |-> {Service("tcp", 2, 2)}, action |-> "permit"]
MCHandMade == {Typed("adhoc", <<>>), Typed("adhoc", <<"SR1">>), Typed("shut", <<>>)}
=============================================================================
