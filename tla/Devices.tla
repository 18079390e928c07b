------------------------------ MODULE Devices ------------------------------
(***************************************************************************)
(* Rules in force, the device that enforces them, and what the comparison  *)
(* of the two reports.                                                     *)
(*                                                                         *)
(* Between the register and the device stand people: an export is taken at *)
(* one moment and loaded at a later one, the device is changed by hand,    *)
(* and its configuration is uploaded when somebody thinks of it.  The      *)
(* report compares the configuration uploaded last with the rules of now.  *)
(***************************************************************************)
EXTENDS DeviceConfig

CONSTANTS
    Order,         \* the rules, in the order of their identifiers
    Contents,      \* per rule the contents it may have
    HandMade,      \* policies that somebody may type on the device
    Types,         \* the platforms the component is registered as
    MaxChanges     \* bound: files loaded and changes made by hand

Rules  == {Order[i] : i \in DOMAIN Order}

ASSUME DevicesAssumption ==
    /\ Order \in Seq(Identifiers) /\ IsInjective(Order)
    /\ \A r \in Rules : Contents[r] \subseteq RuleContents
    /\ HandMade \subseteq Policies

\* What a rule is to this component.  A rule that is in force on other components
\* only, and a declared emergency change, are tolerated here: neither missing nor
\* stale.  A deleted rule is out of force.
States == {"in force", "tolerated", "out of force"}

VARIABLES
    rules,         \* per rule its state, seen from this component, and content
    file,          \* the export somebody holds
    device,        \* what the device runs
    config,        \* ComponentActualConfig: the text that was uploaded last
    type,          \* SecurityComponent.type
    changes        \* changes of the device so far

vars == <<rules, file, device, config, type, changes>>

Blank == [policies |-> <<>>, book |-> <<>>]

Init ==
    /\ rules \in {f \in [Rules -> [state : {"out of force"},
                                   content : UNION {Contents[r] : r \in Rules}]] :
                    \A r \in Rules : f[r].content \in Contents[r]}
    /\ file = <<>> /\ device = Blank /\ config \in Texts(Blank)
    /\ type \in Types /\ changes = 0

-----------------------------------------------------------------------------
(* The register.  RuleLifecycle models why a rule moves; here it matters that *)
(* the content of a rule in force does not change while it stays in force.    *)

Ruled(r, new) ==
    /\ new # rules[r]
    /\ new.state = "in force" => new.content = rules[r].content
    /\ rules' = [rules EXCEPT ![r] = new]
    /\ UNCHANGED <<file, device, config, type, changes>>

\* update_component: the platform was registered wrongly.
UpdateComponent(t) ==
    /\ t # type
    /\ type' = t
    /\ UNCHANGED <<rules, file, device, config, changes>>

-----------------------------------------------------------------------------
(* Exports. *)

InForceHere == {r \in Rules : rules[r].state = "in force"}

\* The filters of the export; without the platform no rule matches.
Exportable(ids) == IF type = Platform THEN ids \cap InForceHere ELSE {}

FileOf(chosen) == [r \in chosen |-> rules[r].content]

Export(ids) ==
    /\ Exportable(ids) # {}
    /\ file' = FileOf(Exportable(ids))
    /\ UNCHANGED <<rules, device, config, type, changes>>

-----------------------------------------------------------------------------
(* The device. *)

Changed(d) ==
    /\ changes < MaxChanges
    /\ d # device
    /\ device' = d
    /\ changes' = changes + 1
    /\ UNCHANGED <<rules, file, config, type>>

\* The file is loaded, once or again, on top of what is there.
Load ==
    /\ file # <<>>
    /\ Changed(Loaded(device, Order, file))

AddPolicy(p, place) ==
    Changed([device EXCEPT !.policies = InsertAt(@, place, p)])

RemovePolicy(i) ==
    Changed([device EXCEPT !.policies = RemoveAt(@, i)])

\* A policy is opened up during an incident.
OpenUp(i, side) ==
    Changed([device EXCEPT !.policies[i][side] = @ \cup {<<"any">>}])

OpenPorts(i, proto) ==
    Changed([device EXCEPT !.policies[i].apps = @ \cup {Every(proto)}])

Readdress(key, net) ==
    Changed([device EXCEPT !.book[key] = net])

\* upload_actual_config
Upload ==
    /\ config' \in Texts(device)
    /\ config' # config
    /\ UNCHANGED <<rules, file, device, type, changes>>

-----------------------------------------------------------------------------
(* The report: analyze_drift. *)

\* The identifiers anywhere on the device, but for those in an alias or a zone's name.
Claims == UNION {Range(Mentions(config.policies[i])) : i \in DOMAIN config.policies}

\* A configuration of another platform, or without a policy, is not recognised.
Recognised == type = Platform /\ config.policies # <<>>

Missing == InForceHere \ Claims
Stale   == {r \in Claims \cap Rules : rules[r].state = "out of force"}
Unknown == Claims \ Rules

ConfigBlocks == IF Recognised THEN Blocks(config.policies) ELSE {}
Unjustified  == {b \in ConfigBlocks : b.claim = None}

\* The rules the identifiers are compared with.
Identified ==
    {b \in ConfigBlocks : /\ b.claim \in InForceHere
                          /\ \E i \in DOMAIN config.policies : Read(config.policies[i]) = b.identifier}

Unverified == {b \in Identified : DevicePermission(config, b.identifier).unresolved}
Widened ==
    {b \in Identified \ Unverified :
        Widens(DevicePermission(config, b.identifier), ApprovedPermission(rules[b.claim].content))}

Fidelity == CASE ~ Recognised       -> "not_checked"
              [] Unverified # {}    -> "partial"
              [] OTHER              -> "checked"

InSync == Recognised /\ Missing = {} /\ Stale = {} /\ Unknown = {} /\ Unjustified = {}
          /\ Widened = {}

-----------------------------------------------------------------------------
Next ==
    \/ \E r \in Rules : \E s \in States, c \in Contents[r] :
          Ruled(r, [state |-> s, content |-> c])
    \/ \E t \in Types : UpdateComponent(t)
    \/ \E ids \in SUBSET Rules : Export(ids)
    \/ Load
    \/ \E p \in HandMade, place \in 1..(Len(device.policies) + 1) : AddPolicy(p, place)
    \/ \E i \in DOMAIN device.policies : RemovePolicy(i)
    \/ \E i \in DOMAIN device.policies, side \in {"source", "destination"} : OpenUp(i, side)
    \/ \E i \in DOMAIN device.policies, proto \in {"any", "tcp"} : OpenPorts(i, proto)
    \/ \E key \in DOMAIN device.book, net \in Range(device.book) : Readdress(key, net)
    \/ Upload

Spec == Init /\ [][Next]_vars

-----------------------------------------------------------------------------
(* Why the comparison may miss what a policy lets through. *)

\* The two readers do not find the same policy: what one takes for a block, the other
\* does not know.
CutDifferently(p) == Scanned(p) # Read(p)

\* Another policy is read under the same name, and only one action of the two; on
\* Check Point only one policy.
Merged(i) ==
    \E j \in DOMAIN config.policies \ {i} :
        /\ Read(config.policies[j]) = Read(config.policies[i])
        /\ Platform = "juniper" => config.policies[j].action # config.policies[i].action

\* A name it uses has other addresses in the book of another zone, and is read as those.
Homonymous(p) ==
    \E side \in {"source", "destination"} :
        \E k \in KeysOf(p, side) \cap DOMAIN config.book : config.read[k[2]] # config.book[k]

\* The rule it claims has a list of ports of which none is understood.
NotUnderstood(r) ==
    \E svc \in rules[r].content.services :
        svc.protocol \in {"TCP", "UDP", "TCP/UDP"} /\ Ranges(svc) # {} /\ Understood(svc) = {}

Mistakable(i) ==
    LET p == config.policies[i]
    IN  \/ CutDifferently(p) \/ Merged(i) \/ Homonymous(p)
        \/ \E b \in ConfigBlocks : b.identifier = Read(p) /\ NotUnderstood(b.claim)

\* A report that is in sync and fully checked is a statement about connections:
\* when the policies of the configuration name rules that are in force on the
\* component and no other, a policy lets nothing through that no such rule was
\* approved for - whatever was exported before, loaded late, typed by hand or
\* merged under one name - unless one of four things is true of that very policy.
InSyncIsApproved ==
    InSync /\ Fidelity = "checked" /\ Claims \subseteq InForceHere =>
        \A i \in DOMAIN config.policies :
            \/ LetThrough(config, config.policies[i])
                  \subseteq UNION {Granted(rules[r].content) : r \in InForceHere}
            \/ Mistakable(i)

\* Two entries of rules in force give one name to different addresses.
EntriesOf(r) == Range(rules[r].content.source) \cup Range(rules[r].content.destination)
Ambiguous(r) ==
    \E e \in EntriesOf(r), s \in InForceHere : \E f \in EntriesOf(s) :
        ObjectName(e) = ObjectName(f) /\ e.net # f.net

\* A service that is exported as something else than the approval is read as: by its
\* spelling, for want of a port, or with ports that the reader drops.
Respelt(r) ==
    \E svc \in rules[r].content.services :
        \/ svc.protocol \in {"UDP/TCP", "ICMPV6", "ICMP/ICMPV6"}
        \/ /\ svc.protocol \in {"TCP", "UDP", "TCP/UDP"}
           /\ \/ Ranges(svc) = {}
              \/ Understood(svc) \notin {{}, Ranges(svc)}

CitedInForce == UNION {Range(Cited[rules[r].content.name]) : r \in InForceHere}

\* A configuration that is exactly what the export of the rules in force makes of
\* an empty device has nothing missing or unjustified, and nothing stale or unknown but
\* what a rule in force cites in its name.  Each policy is one block that claims the
\* identifier its text mentions first, all of it is checked, and a widening in the report
\* has one of three reasons: an alias with two meanings, a service that the export spells
\* wider than the reader, or a name that cites another rule.
RolloutReadsInSync ==
    LET Rolled(r) == ExportedPolicy(r, rules[r].content)
        OwnNames  == \A r, s \in InForceHere :
                        r # s => rules[r].content.name # rules[s].content.name
    IN  Recognised /\ OwnNames /\ config \in Texts(Loaded(Blank, Order, FileOf(InForceHere))) =>
            /\ Missing = {} /\ Unjustified = {} /\ Stale \cup Unknown \subseteq CitedInForce
            /\ ConfigBlocks = {[identifier |-> Scanned(Rolled(r)),
                                claim |-> Head(Mentions(Rolled(r)))] : r \in InForceHere}
            /\ Fidelity = "checked"
            /\ \A b \in Widened : \E r \in InForceHere :
                  b.identifier = Scanned(Rolled(r)) /\ (Ambiguous(r) \/ Respelt(r) \/ b.claim # r)
=============================================================================
