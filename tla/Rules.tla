--------------------------------- MODULE Rules ---------------------------------
(***************************************************************************)
(* Forwarding rules, what makes a configuration valid and the plans made   *)
(* of it (portalis-core/src/lib.rs).  A configuration is a sequence of     *)
(* rules (Vec<ForwardRule>).  The schema version, and blank or overlong    *)
(* names, are rejected by validate as well and tell nothing apart here.    *)
(***************************************************************************)
EXTENDS Integers, FiniteSets, Sequences

CONSTANTS
    Addresses,   \* IpAddr
    FamilyOf,    \* the family of each
    Networks,    \* IpNet: its network() and the addresses it contains
    Interfaces,
    MaxPort      \* u16::MAX

Families == {"ipv4", "ipv6"}
Protocols == {"tcp", "udp"}
Ports == 0 .. MaxPort

ASSUME AddressAssumption ==
    /\ FamilyOf \in [Addresses -> Families]
    /\ {"any", "none", "masquerade"} \cap (Addresses \cup Interfaces) = {}
(* CIDR blocks: one family each, and two are nested or disjoint.           *)
ASSUME NetworkAssumption ==
    /\ Networks \subseteq [base : Addresses, hosts : SUBSET Addresses]
    /\ \A n \in Networks :
         n.base \in n.hosts /\ \A a \in n.hosts : FamilyOf[a] = FamilyOf[n.base]
    /\ \A m, n \in Networks : \/ m.hosts \subseteq n.hosts
                              \/ n.hosts \subseteq m.hosts
                              \/ m.hosts \cap n.hosts = {}
ASSUME PortAssumption == MaxPort \in Nat

PortRange == [start : Ports, end : Ports]

ForwardRule ==
    [id : Nat, enabled : BOOLEAN, order : Nat, allow_ssh_conflict : BOOLEAN,
     family : Families \cup {"auto"}, listen_address : Addresses \cup {"any"},
     listen_interface : Interfaces \cup {"any"}, source_cidrs : Seq(Networks),
     protocols : SUBSET Protocols, listen_port : PortRange,
     target_ip : Addresses, target_port : PortRange,
     snat : {"none", "masquerade"} \cup Addresses]

Config == Seq(ForwardRule)

------------------------------------------------------------------------------
Matches(family, address) == family = "auto" \/ family = FamilyOf[address]

Effective(family, address) ==
    IF family = "auto" THEN FamilyOf[address] ELSE family

FamilyOfRule(r) == Effective(r.family, r.target_ip)

IsSingle(range) == range.start = range.end

Length(range) ==
    IF range.start > range.end THEN 0 ELSE range.end - range.start + 1

PortsOverlap(r, s) == r.start <= s.end /\ s.start <= r.end

InRange(port, range) == range.start <= port /\ port <= range.end

(* Mutant: a value that is no port is taken for one.                       *)
SshPortsUnparsed(lines, default) ==
    {default} \cup {l.value : l \in {k \in lines : k.key = "port"}}

(* parse_ssh_ports: 22 and every port named by a line of sshd_config; a    *)
(* line is its keyword and its value, no number if it does not parse.      *)
SshPorts(lines, default) ==
    {default} \cup {l.value : l \in {k \in lines : k.key = "port" /\ k.value \in Ports}}

------------------------------------------------------------------------------
ValidPorts(range) == range.start # 0 /\ range.end # 0 /\ range.start <= range.end

(* Mutant: a target range may be shorter than the listen range.            *)
AnyLength(r) == TRUE

LengthsFit(r) ==
    IsSingle(r.target_port) \/ Length(r.listen_port) = Length(r.target_port)

FamiliesFit(r) ==
    /\ Matches(r.family, r.target_ip)
    /\ \A a \in {r.listen_address, r.snat} \cap Addresses : Matches(FamilyOfRule(r), a)
    /\ \A i \in DOMAIN r.source_cidrs :
         Matches(FamilyOfRule(r), r.source_cidrs[i].base)

(* Mutant: the last port of a range is not compared with the SSH ports.    *)
SshFreeButLast(r, ssh) ==
    r.allow_ssh_conflict
      \/ \A port \in ssh : ~(InRange(port, r.listen_port) /\ port # r.listen_port.end)

SshFree(r, ssh) ==
    r.allow_ssh_conflict \/ \A port \in ssh : ~InRange(port, r.listen_port)

ValidRule(r, ssh) ==
    /\ r.protocols # {}
    /\ ValidPorts(r.listen_port) /\ ValidPorts(r.target_port)
    /\ LengthsFit(r) /\ FamiliesFit(r) /\ SshFree(r, ssh)

AddressesOverlap(r, s) ==
    /\ FamilyOfRule(r) = FamilyOfRule(s)
    /\ \/ r.listen_interface = s.listen_interface
       \/ "any" \in {r.listen_interface, s.listen_interface}
    /\ \/ r.listen_address = s.listen_address
       \/ "any" \in {r.listen_address, s.listen_address}

(* Mutant: only whether the first network holds the second is looked at.   *)
SourcesContained(first, second) ==
    \/ first = <<>> \/ second = <<>>
    \/ \E i \in DOMAIN first, j \in DOMAIN second :
         second[j].base \in first[i].hosts

SourcesOverlap(first, second) ==
    \/ first = <<>> \/ second = <<>>
    \/ \E i \in DOMAIN first, j \in DOMAIN second :
         second[j].base \in first[i].hosts \/ first[i].base \in second[j].hosts

Overlap(r, s) ==
    /\ r.protocols \cap s.protocols # {}
    /\ AddressesOverlap(r, s)
    /\ PortsOverlap(r.listen_port, s.listen_port)
    /\ SourcesOverlap(r.source_cidrs, s.source_cidrs)

(* Config::validate accepts.                                               *)
Valid(config, ssh) ==
    /\ \A i, j \in DOMAIN config : i # j => config[i].id # config[j].id
    /\ \A i \in DOMAIN config : ValidRule(config[i], ssh)
    /\ \A i, j \in DOMAIN config :
         i < j /\ config[i].enabled /\ config[j].enabled
           => ~Overlap(config[i], config[j])

ActiveRules(config) == {config[i] : i \in {j \in DOMAIN config : config[j].enabled}}

(* Mutant: the declared family is looked at, not the one auto stands for.  *)
RequiresDeclared(config, family) == \E r \in ActiveRules(config) : r.family = family

(* requires_ipv4_forwarding, requires_ipv6_forwarding                      *)
Requires(config, family) == \E r \in ActiveRules(config) : FamilyOfRule(r) = family

(* Config::plan: one plan for each protocol of each enabled rule ...       *)
Plan(config) ==
    UNION {{[rule |-> r, protocol |-> p] : p \in r.protocols} : r \in ActiveRules(config)}

(* ... in the order in which they are added to the chains.                 *)
Before(p, q) ==
    \/ p.rule.order < q.rule.order
    \/ /\ p.rule.order = q.rule.order
       /\ \/ p.rule.id < q.rule.id
          \/ p.rule.id = q.rule.id /\ p.protocol = "tcp" /\ q.protocol = "udp"

IsFirst(p, plans) == p \in plans /\ \A q \in plans \ {p} : Before(p, q)
================================================================================
