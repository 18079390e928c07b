---------------------------- MODULE DeviceConfig ----------------------------
(***************************************************************************)
(* A rule as a device configuration, and a device configuration read back. *)
(*                                                                         *)
(* The exporters name every address and write one policy per rule, which   *)
(* carries the rule's identifier.  The readers find where a policy begins  *)
(* and which rule it claims (config_blocks), and what it permits           *)
(* (config_semantics).  An application is modelled by the service its name *)
(* stands for, a CIDR by its set of addresses, an identifier in a free     *)
(* text by itself.                                                         *)
(***************************************************************************)
EXTENDS Integers, SequencesExt, FiniteSets

CONSTANTS
    Platform,      \* the platform of the device: "juniper" or "checkpoint"
    Addresses,
    MaxPort,       \* ports are 0..MaxPort; for ICMP the range holds the type
    Cited          \* per name of a policy the rule identifiers that stand in it

None == "none"
AnyNet  == {}         \* the entry "any"; a network is never empty
Echo == 1          \* the ICMP type of a ping

\* A port list is a set of ranges, each alone between commas and spaces or joined to
\* something by a slash.  The word "ping" is a list without a range.
Ping == {<<>>}

Identifiers == STRING \ {None}

ASSUME DeviceAssumption ==
    /\ Platform \in {"juniper", "checkpoint"}
    /\ MaxPort \in Nat /\ MaxPort > Echo
    /\ Cited \in [DOMAIN Cited -> Seq(Identifiers)]

Service(proto, lo, hi) == [proto |-> proto, lo |-> lo, hi |-> hi]
Every(proto) == Service(proto, 0, MaxPort)

\* What a rule is made of, as the register accepts it, and a policy of a device.
Actions   == {"permit", "deny", "reject"}
Ports     == 0..MaxPort
Protocols == {"ANY", "TCP", "UDP", "TCP/UDP", "UDP/TCP", "ICMP", "ICMPV6", "ICMP/ICMPV6"}
PortLists == {Ping} \cup SUBSET (Ports \X Ports \X {"alone", "joined"})
RuleContents ==
    LET entries == Seq([alias : STRING, net : SUBSET Addresses])
    IN  [name : DOMAIN Cited, from : STRING, to : STRING, source : entries, destination : entries,
         services : (SUBSET [protocol : Protocols, port : PortLists]) \ {{}}, action : Actions]

ObjectsOf == {<<"any">>} \cup ({"alias"} \X STRING) \cup ({"net"} \X SUBSET Addresses)
Policies ==
    [from : STRING, to : STRING, name : DOMAIN Cited, remark : Seq(Identifiers), exported : BOOLEAN,
     source : SUBSET ObjectsOf, destination : SUBSET ObjectsOf,
     apps : SUBSET [proto : {"any", "tcp", "udp", "icmp"}, lo : Ports, hi : Ports],
     action : Actions]

-----------------------------------------------------------------------------
(* Writing. *)

\* split_protocols
Split(protocol) ==
    CASE protocol = "ANY"               -> {"tcp", "udp", "icmp"}
      [] protocol \in {"TCP/UDP", "UDP/TCP"} -> {"tcp", "udp"}
      [] protocol = "TCP"               -> {"tcp"}
      [] protocol = "UDP"               -> {"udp"}
      [] OTHER                          -> {"icmp"}

\* service_ports: commas and slashes are alike.
Ranges(svc) == {<<item[1], item[2]>> : item \in svc.port \ Ping}

\* A service without a port becomes "any", which is every protocol.
ExportedServices(svc) ==
    UNION {IF p = "icmp" THEN {IF svc.port = Ping THEN Service(p, Echo, Echo) ELSE Every(p)}
           ELSE IF Ranges(svc) = {} THEN {Every("any")}
           ELSE {Service(p, range[1], range[2]) : range \in Ranges(svc)} : p \in Split(svc.protocol)}

\* An object is named by its alias, else by its network.
ObjectName(entry) ==
    IF entry.net = AnyNet THEN <<"any">>
    ELSE IF entry.alias # None THEN <<"alias", entry.alias>> ELSE <<"net", entry.net>>

ObjectNames(entries) == {ObjectName(entries[i]) : i \in DOMAIN entries}

\* The rule is in the description of a Junos policy, in the name of a Check Point one.
ExportedPolicy(rule, content) ==
    [from |-> content.from, to |-> content.to, name |-> content.name,
     remark |-> <<rule>>, exported |-> TRUE,
     source |-> ObjectNames(content.source), destination |-> ObjectNames(content.destination),
     apps |-> UNION {ExportedServices(svc) : svc \in content.services},
     action |-> content.action]

\* Junos keeps an address book per security zone, Check Point one for all.
Book(zone) == IF Platform = "juniper" THEN zone ELSE None

\* An entry is written into the book of its side's zone.
Placed(content) ==
    LET In(zone, entries) ==
            [i \in DOMAIN entries |-> [key |-> <<Book(zone), ObjectName(entries[i])>>, net |-> entries[i].net]]
    IN  In(content.from, content.source) \o In(content.to, content.destination)

\* Junos: a later `set` replaces the object.  Check Point: the first definition
\* of a name stands.
Standing(places) ==
    CHOOSE i \in places :
        \A j \in places : IF Platform = "juniper" THEN j <= i ELSE i <= j

Defined(book, placed) ==
    LET Naming(k) == {i \in DOMAIN placed : placed[i].key = k /\ placed[i].net # AnyNet}
        named     == {placed[i].key : i \in {j \in DOMAIN placed : placed[j].net # AnyNet}}
    IN  [k \in DOMAIN book \cup named |->
            IF k \in named /\ (Platform = "juniper" \/ k \notin DOMAIN book)
            THEN placed[Standing(Naming(k))].net ELSE book[k]]

\* Junos: the lines of a policy that exists add to it and replace its action and
\* its description.  Check Point: a rule is added on top.
Entered(policies, p) ==
    LET Same == {i \in DOMAIN policies : policies[i].from = p.from /\ policies[i].to = p.to
                                     /\ policies[i].name = p.name}
        Added(old) == [p EXCEPT !.source = @ \cup old.source,
                                !.destination = @ \cup old.destination,
                                !.apps = @ \cup old.apps]
    IN  IF Platform = "checkpoint" THEN <<p>> \o policies
        ELSE IF Same = {} THEN Append(policies, p)
        ELSE [i \in DOMAIN policies |-> IF i \in Same THEN Added(policies[i]) ELSE policies[i]]

Entering(device, rule, content) ==
    [policies |-> Entered(device.policies, ExportedPolicy(rule, content)),
     book |-> Defined(device.book, Placed(content))]

\* An export lists its rules in the order of their identifiers.
Loaded(device, order, file) ==
    LET after[n \in 0..Len(order)] ==
            IF n = 0 THEN device
            ELSE IF order[n] \notin DOMAIN file THEN after[n - 1]
            ELSE Entering(after[n - 1], order[n], file[order[n]])
    IN  after[Len(order)]

-----------------------------------------------------------------------------
(* Where a policy begins: config_blocks.scan. *)

\* The exported name of a Check Point rule is one quoted word "SR00001 web"; the
\* two readers cut different identifiers from it.
Scanned(p) == IF Platform = "checkpoint" /\ p.exported THEN p.remark ELSE <<p.name>>
Read(p)    == IF Platform = "checkpoint" /\ p.exported THEN <<"'">> \o p.remark ELSE <<p.name>>

\* Every identifier in the text of a policy, in its order: an exported Check Point
\* name begins with the rule, a Junos policy has its name in every line.
Mentions(p) ==
    IF Platform = "checkpoint" /\ p.exported THEN p.remark \o Cited[p.name]
    ELSE Cited[p.name] \o p.remark

\* The lines of a policy whose name was seen before belong to the block above.
Starts(policies) ==
    {i \in DOMAIN policies : \A j \in 1..(i - 1) : Scanned(policies[j]) # Scanned(policies[i])}

FirstClaim(policies, lines) ==
    LET Claiming == {i \in lines : Mentions(policies[i]) # <<>>}
    IN  IF Claiming = {} THEN None
        ELSE Head(Mentions(policies[CHOOSE i \in Claiming : \A j \in Claiming : i <= j]))

OwnLines(policies, i) ==
    {j \in DOMAIN policies : j >= i /\ \A k \in Starts(policies) : i < k => j < k}

\* Slip: the lines above the policy count as well.
LinesFromAbove(policies, i) == OwnLines(policies, i) \cup {j \in DOMAIN policies : j = i - 1}

BlockLines(policies, i) == OwnLines(policies, i)

Blocks(policies) ==
    {[identifier |-> Scanned(policies[i]),
      claim |-> FirstClaim(policies, BlockLines(policies, i))] : i \in Starts(policies)}

-----------------------------------------------------------------------------
(* What a policy permits: config_semantics. *)

\* The configuration that is uploaded: the reader has one address book for all zones
\* (`read'), and the definition that comes last in the text stands.  The order of the
\* text is not the model's.
Texts(device) ==
    LET Meanings(n) == {device.book[k] : k \in {l \in DOMAIN device.book : l[2] = n}}
        names == {k[2] : k \in DOMAIN device.book}
    IN  {[policies |-> device.policies, book |-> device.book, read |-> read] :
            read \in {f \in [names -> UNION {Meanings(n) : n \in names}] :
                        \A n \in names : f[n] \in Meanings(n)}}

\* What a slash joins is not understood and dropped; a list of which nothing is left
\* reads as every port.
Understood(svc) == {<<item[1], item[2]>> : item \in {i \in svc.port \ Ping : i[3] = "alone"}}
PortRanges(svc) == IF Understood(svc) = {} THEN {<<0, MaxPort>>} ELSE Understood(svc)

\* A spelling of ICMP is a protocol of its own, and so is UDP/TCP.
ApprovedServices(svc) ==
    LET ranges == IF svc.protocol \notin {"ICMP", "ICMPV6", "ICMP/ICMPV6"} THEN PortRanges(svc)
                  ELSE IF svc.port = Ping THEN {<<Echo, Echo>>} ELSE {<<0, MaxPort>>}
        protos == CASE svc.protocol = "TCP/UDP"     -> {"tcp", "udp"}
                    [] svc.protocol = "TCP"         -> {"tcp"}
                    [] svc.protocol = "UDP"         -> {"udp"}
                    [] svc.protocol = "ICMP"        -> {"icmp"}
                    [] svc.protocol = "ICMPV6"      -> {"icmpv6"}
                    [] svc.protocol = "ICMP/ICMPV6" -> {"icmp/icmpv6"}
                    [] OTHER                        -> {"udp/tcp"}
    IN  IF svc.protocol = "ANY" THEN {Every("any")}
        ELSE {Service(p, range[1], range[2]) : p \in protos, range \in ranges}

ApprovedNetworks(entries) == {entries[i].net : i \in DOMAIN entries}

\* approved_permission.  The entry "any" and the service "any" are flags.
ApprovedPermission(content) ==
    [source |-> ApprovedNetworks(content.source) \ {AnyNet},
     destination |-> ApprovedNetworks(content.destination) \ {AnyNet},
     anySource |-> AnyNet \in ApprovedNetworks(content.source),
     anyDestination |-> AnyNet \in ApprovedNetworks(content.destination),
     services |-> UNION {ApprovedServices(svc) : svc \in content.services},
     anyService |-> \E svc \in content.services : svc.protocol = "ANY",
     action |-> content.action, unresolved |-> FALSE]

\* Junos: the reader collects all lines under one name, and the last action stands.
\* Check Point: the last line of a name is the policy, and the predefined services for
\* ICMP are not known.
DevicePermission(config, identifier) ==
    LET Named == {i \in DOMAIN config.policies : Read(config.policies[i]) = identifier}
        Lowest == CHOOSE i \in Named : \A j \in Named : j <= i
        Own   == IF Platform = "checkpoint" THEN {Lowest} ELSE Named
        Names(side) == UNION {config.policies[i][side] : i \in Own}
        Nets(side)  == {config.read[n] : n \in Names(side) \cap DOMAIN config.read}
        Apps  == UNION {config.policies[i].apps : i \in Own}
        Known == DOMAIN config.read \cup {<<"any">>}
    IN  [source |-> Nets("source"), destination |-> Nets("destination"),
         anySource |-> <<"any">> \in Names("source"),
         anyDestination |-> <<"any">> \in Names("destination"),
         services |-> Apps \ {Every("any")}, anyService |-> Every("any") \in Apps,
         action |-> config.policies[Lowest].action,
         unresolved |-> \/ ~ (Names("source") \cup Names("destination") \subseteq Known)
                        \/ Platform = "checkpoint" /\ \E s \in Apps : s.proto = "icmp"]

\* Slip: the approved networks are looked for inside those of the device.
NetworksCovering(approved, anyApproved, found, anyFound) ==
    anyApproved \/ (~ anyFound /\ \A a \in approved : \E n \in found : a \subseteq n)

\* _networks_cover: each network lies inside a single approved one.
NetworksCovered(approved, anyApproved, found, anyFound) ==
    anyApproved \/ (~ anyFound /\ \A n \in found : \E a \in approved : n \subseteq a)

Covers(s, t) == (s.proto = "any" \/ s.proto = t.proto) /\ s.lo <= t.lo /\ t.hi <= s.hi

ServicesCovered(approved, anyApproved, found, anyFound) ==
    anyApproved \/ (~ anyFound /\ \A t \in found : \E s \in approved : Covers(s, t))

Widens(found, approved) ==
    \/ ~ NetworksCovered(approved.source, approved.anySource, found.source, found.anySource)
    \/ ~ NetworksCovered(approved.destination, approved.anyDestination,
                         found.destination, found.anyDestination)
    \/ ~ ServicesCovered(approved.services, approved.anyService, found.services, found.anyService)
    \/ found.action = "permit" /\ approved.action # "permit"

-----------------------------------------------------------------------------
(* What a rule was approved for and what a policy lets through, as sets of    *)
(* connections, to judge the readers by.                                      *)

Ends(nets, any) == IF any THEN Addresses ELSE UNION nets
Flows(services) ==
    {f \in {"tcp", "udp", "icmp", "icmpv6"} \X Ports :
        \E s \in services : s.proto \in {f[1], "any"} /\ f[2] \in s.lo..s.hi}

\* A validated rule means what it says: no separator and no spelling changes it.
Said(svc) ==
    LET plain == IF svc.port = Ping THEN svc
                 ELSE [svc EXCEPT !.port = {<<range[1], range[2], "alone">> : range \in Ranges(svc)}]
        spelt == CASE svc.protocol = "UDP/TCP"     -> {"TCP/UDP"}
                   [] svc.protocol = "ICMP/ICMPV6" -> {"ICMP", "ICMPV6"}
                   [] OTHER                        -> {svc.protocol}
    IN  UNION {ApprovedServices([plain EXCEPT !.protocol = p]) : p \in spelt}

Granted(content) ==
    LET a == ApprovedPermission(content)
    IN  IF content.action # "permit" THEN {}
        ELSE Ends(a.source, a.anySource) \X Ends(a.destination, a.anyDestination)
             \X Flows(UNION {Said(svc) : svc \in content.services})

\* The device resolves the names of a policy in the books of the policy's own zones.
KeysOf(p, side) == {Book(IF side = "source" THEN p.from ELSE p.to)} \X p[side]

LetThrough(config, p) ==
    LET End(side) == Ends({config.book[k] : k \in KeysOf(p, side) \cap DOMAIN config.book},
                          <<"any">> \in p[side])
    IN  IF p.action # "permit" THEN {}
        ELSE End("source") \X End("destination") \X Flows(p.apps)
=============================================================================
