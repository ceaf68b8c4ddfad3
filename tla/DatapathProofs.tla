---------------------------- MODULE DatapathProofs ----------------------------
(***************************************************************************)
(* Theorems about Rules and Datapath: for any addresses, CIDR blocks,      *)
(* configurations, sshd_config files and packets.                          *)
(***************************************************************************)
EXTENDS Datapath, FiniteSetTheorems, WellFoundedInduction, TLAPS

(* The plan's rules match the packet but for the interface.                *)
Hears(p, k) ==
    /\ Addressed(p, k)
    /\ InRange(k.dport, p.rule.listen_port)
    /\ \E i \in Sources(p) : FromSource(p, i, k.src)

SameInterface(p, q) ==
    \/ p.rule.listen_interface = q.rule.listen_interface
    \/ "any" \in {p.rule.listen_interface, q.rule.listen_interface}

(* A plan is one protocol of one enabled rule of its configuration.        *)
LEMMA PlanOfRule ==
    ASSUME NEW c \in Config, NEW p \in Plan(c)
    PROVE  /\ p \in PlanType
           /\ \E i \in DOMAIN c :
                /\ c[i].enabled
                /\ p = [rule |-> c[i], protocol |-> p.protocol]
                /\ p.protocol \in c[i].protocols
  <1>1. PICK r \in ActiveRules(c) : p \in {[rule |-> r, protocol |-> x] : x \in r.protocols}
    BY DEF Plan
  <1>2. PICK x \in r.protocols : p = [rule |-> r, protocol |-> x]
    BY <1>1
  <1>3. PICK i \in DOMAIN c : c[i].enabled /\ r = c[i]
    BY DEF ActiveRules
  <1>4. c[i] \in ForwardRule
    BY DEF Config
  <1>5. x \in Protocols
    BY <1>3, <1>4 DEF ForwardRule
  <1> QED BY <1>2, <1>3, <1>4, <1>5 DEF PlanType

(* The length of a range that is not empty.                                *)
LEMMA RangeLength ==
    ASSUME NEW r \in PortRange, ValidPorts(r)
    PROVE  Length(r) = r.end - r.start + 1 /\ r.start <= r.end
  BY PortAssumption DEF PortRange, Ports, ValidPorts, Length

(* No port of a rule saturates: the rules built for a valid rule stay in   *)
(* its ranges and map them one-to-one, or to the only target port.         *)
LEMMA PortsOfTranslation ==
    ASSUME NEW p \in PlanType, ValidPorts(p.rule.listen_port),
           ValidPorts(p.rule.target_port), LengthsFit(p.rule),
           NEW t \in Translations(p)
    PROVE  /\ t.source \in Sources(p)
           /\ InRange(t.dport, p.rule.listen_port)
           /\ t.to \in Ports /\ InRange(t.to, p.rule.target_port)
           /\ ~IsSingle(p.rule.target_port) =>
                t.to - p.rule.target_port.start = t.dport - p.rule.listen_port.start
  <1> DEFINE l == p.rule.listen_port
             g == p.rule.target_port
  <1>1. l \in PortRange /\ g \in PortRange
    BY DEF PlanType, ForwardRule
  <1>2. /\ l.start \in Nat /\ l.end \in Nat /\ l.end <= MaxPort
        /\ g.start \in Nat /\ g.end \in Nat /\ g.end <= MaxPort
    BY <1>1, PortAssumption DEF PortRange, Ports
  <1>3. /\ Length(l) = l.end - l.start + 1 /\ l.start <= l.end
        /\ Length(g) = g.end - g.start + 1 /\ g.start <= g.end
    BY <1>1, RangeLength
  <1>4. PICK i \in Sources(p), offset \in 0 .. Length(l) - 1 :
            t = [source |-> i, dport |-> Saturate(l.start + offset),
                 to |-> IF IsSingle(g) THEN g.start ELSE Saturate(g.start + offset)]
    BY DEF Translations
  <1>5. offset \in Nat /\ l.start + offset <= l.end
    BY <1>2, <1>3, <1>4
  <1>6. t.source = i /\ t.dport = l.start + offset /\ InRange(t.dport, l)
    <2>1. Saturate(l.start + offset) = l.start + offset
      BY <1>2, <1>5, PortAssumption DEF Saturate
    <2> QED BY <1>2, <1>4, <1>5, <2>1 DEF InRange
  <1>7. CASE IsSingle(g)
    <2>1. t.to = g.start
      BY <1>4, <1>7
    <2>2. t.to \in Ports /\ InRange(t.to, g)
      BY <1>2, <1>3, <2>1, PortAssumption DEF InRange, Ports
    <2> QED BY <1>4, <1>6, <1>7, <2>2
  <1>8. CASE ~IsSingle(g)
    <2>1. Length(l) = Length(g)
      BY <1>8 DEF LengthsFit
    <2>2. g.start + offset <= g.end
      BY <1>2, <1>3, <1>5, <2>1
    <2>3. t.to = g.start + offset
      BY <1>2, <1>4, <1>5, <1>8, <2>2, PortAssumption DEF Saturate
    <2>4. t.to \in Ports /\ InRange(t.to, g)
      BY <1>2, <1>5, <2>2, <2>3, PortAssumption DEF InRange, Ports
    <2>5. t.to - g.start = t.dport - l.start
      BY <1>2, <1>5, <1>6, <2>3
    <2> QED BY <1>4, <1>6, <2>4, <2>5
  <1> QED BY <1>7, <1>8

(* An address in networks of both lists makes the lists overlap: CIDR      *)
(* blocks that share an address are nested, so one holds the other's base. *)
LEMMA SourcesMeet ==
    ASSUME NEW p \in PlanType, NEW q \in PlanType, NEW a,
           NEW i \in Sources(p), FromSource(p, i, a),
           NEW j \in Sources(q), FromSource(q, j, a)
    PROVE  SourcesOverlap(p.rule.source_cidrs, q.rule.source_cidrs)
  <1> DEFINE s == p.rule.source_cidrs
             u == q.rule.source_cidrs
  <1>1. s \in Seq(Networks) /\ u \in Seq(Networks)
    BY DEF PlanType, ForwardRule
  <1>2. CASE s = <<>> \/ u = <<>>
    BY <1>2 DEF SourcesOverlap
  <1>3. CASE s # <<>> /\ u # <<>>
    <2>1. i \in DOMAIN s /\ j \in DOMAIN u /\ i # 0 /\ j # 0
      BY <1>1, <1>3 DEF Sources
    <2>2. s[i] \in Networks /\ u[j] \in Networks
      BY <1>1, <2>1
    <2>3. a \in s[i].hosts /\ a \in u[j].hosts
      BY <2>1 DEF FromSource
    <2>4. s[i].base \in s[i].hosts /\ u[j].base \in u[j].hosts
      BY <2>2, NetworkAssumption
    <2>5. s[i].hosts \subseteq u[j].hosts \/ u[j].hosts \subseteq s[i].hosts
      BY <2>2, <2>3, NetworkAssumption
    <2>6. u[j].base \in s[i].hosts \/ s[i].base \in u[j].hosts
      BY <2>4, <2>5
    <2> QED BY <2>1, <2>6 DEF SourcesOverlap
  <1> QED BY <1>2, <1>3

(* Two rules that match the same packet overlap, and validate sees it.     *)
LEMMA HearingOverlaps ==
    ASSUME NEW p \in PlanType, NEW q \in PlanType, NEW k, k.dport \in Ports,
           Hears(p, k), Hears(q, k), SameInterface(p, q),
           p.protocol \in p.rule.protocols, q.protocol \in q.rule.protocols
    PROVE  Overlap(p.rule, q.rule)
  <1>1. p.rule.protocols \cap q.rule.protocols # {}
    BY DEF Hears, Addressed
  <1>2. AddressesOverlap(p.rule, q.rule)
    BY DEF Hears, Addressed, AddressesOverlap, SameInterface
  <1>3. PortsOverlap(p.rule.listen_port, q.rule.listen_port)
    <2>1. /\ p.rule.listen_port \in PortRange /\ q.rule.listen_port \in PortRange
          /\ k.dport \in Ports
      BY DEF PlanType, ForwardRule
    <2> QED BY <2>1, PortAssumption DEF PortRange, Ports, PortsOverlap, InRange, Hears
  <1>4. SourcesOverlap(p.rule.source_cidrs, q.rule.source_cidrs)
    BY SourcesMeet DEF Hears
  <1> QED BY <1>1, <1>2, <1>3, <1>4 DEF Overlap

(* In a valid configuration such rules are one and the same.               *)
LEMMA SamePlan ==
    ASSUME NEW c \in Config, NEW s, Valid(c, s),
           NEW p \in Plan(c), NEW q \in Plan(c), NEW k \in Packets,
           Hears(p, k), Hears(q, k), SameInterface(p, q)
    PROVE  p = q
  <1>1. PICK i \in DOMAIN c : /\ c[i].enabled /\ p.protocol \in c[i].protocols
                              /\ p = [rule |-> c[i], protocol |-> p.protocol]
    BY PlanOfRule
  <1>2. PICK j \in DOMAIN c : /\ c[j].enabled /\ q.protocol \in c[j].protocols
                              /\ q = [rule |-> c[j], protocol |-> q.protocol]
    BY PlanOfRule
  <1>3. p.rule = c[i] /\ q.rule = c[j]
    BY <1>1, <1>2
  <1>4. Overlap(c[i], c[j]) /\ Overlap(c[j], c[i])
    <2>1. p \in PlanType /\ q \in PlanType
      BY PlanOfRule
    <2>2. SameInterface(q, p)
      BY DEF SameInterface
    <2>3. k.dport \in Ports
      BY PacketsAssumption
    <2>4. Overlap(p.rule, q.rule) /\ Overlap(q.rule, p.rule)
      BY <1>1, <1>2, <1>3, <2>1, <2>2, <2>3, HearingOverlaps
    <2> QED BY <1>3, <2>4
  <1>5. ~(i < j) /\ ~(j < i)
    BY <1>1, <1>2, <1>4 DEF Valid
  <1>6. i = j
    <2>1. i \in Nat /\ j \in Nat
      BY DEF Config
    <2> QED BY <1>5, <2>1
  <1>7. p.protocol = q.protocol
    BY DEF Hears, Addressed
  <1> QED BY <1>1, <1>2, <1>6, <1>7

------------------------------------------------------------------------------
(* The table is empty or that of a configuration valid for ssh, and the    *)
(* families it translates to are among those forwarding was asked for.     *)
TableInv ==
    /\ plans = {} \/ \E c \in Configs : plans = Plan(c) /\ Valid(c, ssh)
    /\ ssh \subseteq Ports /\ required \subseteq Families
    /\ \A p \in plans : FamilyOfRule(p.rule) \in required

LEMMA FamilyTyped == \A r \in ForwardRule : FamilyOfRule(r) \in Families
  BY AddressAssumption DEF ForwardRule, FamilyOfRule, Effective, Families

(* What is known of an installed plan.                                     *)
LEMMA PlanInstalled ==
    ASSUME TableInv, NEW p \in plans
    PROVE  /\ p \in PlanType /\ p.rule \in ForwardRule
           /\ p.protocol \in p.rule.protocols
           /\ ValidRule(p.rule, ssh)
           /\ FamilyOfRule(p.rule) \in required
  <1>1. PICK c \in Configs : plans = Plan(c) /\ Valid(c, ssh)
    BY DEF TableInv
  <1>2. c \in Config
    BY ConfigsAssumption
  <1>3. PICK i \in DOMAIN c : /\ p = [rule |-> c[i], protocol |-> p.protocol]
                              /\ p.protocol \in c[i].protocols
    BY <1>1, <1>2, PlanOfRule
  <1>4. p \in PlanType
    BY <1>1, <1>2, PlanOfRule
  <1>5. p.rule = c[i]
    BY <1>3
  <1>6. ValidRule(c[i], ssh)
    BY <1>1 DEF Valid
  <1>7. FamilyOfRule(p.rule) \in required
    BY DEF TableInv
  <1> QED BY <1>3, <1>4, <1>5, <1>6, <1>7 DEF PlanType

(* Every step keeps it.                                                    *)
LEMMA TableStep == TableInv /\ [Next]_vars => TableInv'
  <1> SUFFICES ASSUME TableInv, [Next]_vars PROVE TableInv'
    OBVIOUS
  <1>1. ASSUME NEW c \in Configs, NEW lines \in SshFiles, Apply(c, lines)
        PROVE  TableInv'
    <2>1. plans' = Plan(c) /\ Valid(c, ssh')
      BY <1>1 DEF Apply
    <2>2. ssh' \subseteq Ports
      BY <1>1, ConfigsAssumption DEF Apply, SshPorts
    <2>3. required' \subseteq Families
      BY <1>1 DEF Apply, TableInv
    <2>4. ASSUME NEW p \in Plan(c) PROVE FamilyOfRule(p.rule) \in required'
      <3>1. c \in Config
        BY ConfigsAssumption
      <3>2. PICK i \in DOMAIN c : c[i].enabled /\ p = [rule |-> c[i], protocol |-> p.protocol]
        BY <3>1, PlanOfRule
      <3>3. p.rule = c[i] /\ c[i] \in ForwardRule
        BY <3>1, <3>2 DEF Config
      <3>4. c[i] \in ActiveRules(c)
        BY <3>2 DEF ActiveRules
      <3>5. Requires(c, FamilyOfRule(c[i]))
        BY <3>4 DEF Requires
      <3> QED BY <1>1, <3>3, <3>5, FamilyTyped DEF Apply
    <2> QED BY <2>1, <2>2, <2>3, <2>4 DEF TableInv
  <1>2. ASSUME NEW k \in Packets, Open(k) PROVE TableInv'
    BY <1>2 DEF Open, TableInv
  <1>3. ASSUME NEW f \in flows, Close(f) PROVE TableInv'
    BY <1>3 DEF Close, TableInv
  <1>4. CASE TableRemoved
    BY <1>4 DEF TableRemoved, TableInv
  <1>5. CASE UNCHANGED vars
    BY <1>5 DEF vars, TableInv
  <1> QED BY <1>1, <1>2, <1>3, <1>4, <1>5 DEF Next

THEOREM TableCorrect == Spec => []TableInv
  <1>1. Init => TableInv
    BY ConfigsAssumption DEF Init, TableInv
  <1> QED BY <1>1, TableStep, PTL DEF Spec

------------------------------------------------------------------------------
(* A packet that one of a plan's rules translates is one the plan hears,   *)
(* on its interface.                                                       *)
LEMMA TranslatingHears ==
    ASSUME TableInv, NEW p \in plans, NEW k \in Packets,
           NEW t \in Translations(p), Translates(p, k, t)
    PROVE  /\ Hears(p, k)
           /\ p.rule.listen_interface \in {"any", k.interface}
           /\ t.to \in Ports /\ InRange(t.to, p.rule.target_port)
           /\ ~IsSingle(p.rule.target_port) =>
                t.to - p.rule.target_port.start = k.dport - p.rule.listen_port.start
  <1>1. /\ p \in PlanType /\ ValidPorts(p.rule.listen_port)
        /\ ValidPorts(p.rule.target_port) /\ LengthsFit(p.rule)
    BY PlanInstalled DEF ValidRule
  <1>2. /\ t.source \in Sources(p) /\ InRange(t.dport, p.rule.listen_port)
        /\ t.to \in Ports /\ InRange(t.to, p.rule.target_port)
        /\ ~IsSingle(p.rule.target_port) =>
             t.to - p.rule.target_port.start = t.dport - p.rule.listen_port.start
    BY <1>1, PortsOfTranslation
  <1> QED BY <1>2 DEF Translates, Hears

(* Whatever configurations are applied, a packet is translated by at most  *)
(* one plan (lib.rs validate; nft.rs add_prerouting_rules).                *)
THEOREM UnambiguousHolds == Spec => []Unambiguous
  <1>1. TableInv => Unambiguous
    <2> SUFFICES ASSUME TableInv, NEW k \in Packets, NEW p \in Translating(plans, k),
                        NEW q \in Translating(plans, k)
                 PROVE  p = q
      BY DEF Unambiguous
    <2>1. p \in plans /\ q \in plans
      BY DEF Translating
    <2>2. Hears(p, k) /\ p.rule.listen_interface \in {"any", k.interface}
      BY <2>1, TranslatingHears DEF Translating
    <2>3. Hears(q, k) /\ q.rule.listen_interface \in {"any", k.interface}
      BY <2>1, TranslatingHears DEF Translating
    <2>4. PICK c \in Configs : plans = Plan(c) /\ Valid(c, ssh)
      BY <2>1 DEF TableInv
    <2>5. SameInterface(p, q)
      BY <2>2, <2>3 DEF SameInterface
    <2> QED BY <2>1, <2>2, <2>3, <2>4, <2>5, ConfigsAssumption, SamePlan
  <1> QED BY <1>1, TableCorrect, PTL

(* No table translates a packet to an SSH port it was validated against,   *)
(* unless its rule allows it (lib.rs validate_rule, README.md:15).         *)
THEOREM SshReachableHolds == Spec => []SshReachable
  <1>1. TableInv => SshReachable
    <2> SUFFICES ASSUME TableInv, NEW k \in Packets, NEW p \in Translating(plans, k),
                        k.dport \in ssh
                 PROVE  p.rule.allow_ssh_conflict
      BY DEF SshReachable
    <2>1. p \in plans
      BY DEF Translating
    <2>2. InRange(k.dport, p.rule.listen_port)
      BY <2>1, TranslatingHears DEF Translating, Hears
    <2>3. SshFree(p.rule, ssh)
      BY <2>1, PlanInstalled DEF ValidRule
    <2> QED BY <2>2, <2>3 DEF SshFree
  <1> QED BY <1>1, TableCorrect, PTL

------------------------------------------------------------------------------
(* What is known of a translated flow, also after its plan is gone.        *)
Follows(f) ==
    LET p == f.by IN
    /\ p \in PlanType
    /\ Hears(p, f.packet)
    /\ p.rule.listen_interface \in {"any", f.packet.interface}
    /\ f.to = p.rule.target_ip
    /\ FamilyOf[f.to] = FamilyOf[f.packet.dst] /\ FamilyOf[f.to] \in required
    /\ InRange(f.port, p.rule.target_port)
    /\ ~IsSingle(p.rule.target_port) =>
         f.port - p.rule.target_port.start = f.packet.dport - p.rule.listen_port.start

FlowInv ==
    /\ flows \subseteq Flow
    /\ \A f \in flows : f.by # NoPlan => Follows(f)

(* The source rewriting of a flow is one of the types of a rule's.         *)
LEMMA SnatTyped ==
    ASSUME plans \subseteq PlanType, NEW f, NEW snat \in Snat(plans, f)
    PROVE  snat \in {"none", "masquerade"} \cup Addresses
  <1>1. ASSUME NEW p \in plans PROVE p.rule.snat \in {"none", "masquerade"} \cup Addresses
    BY DEF PlanType, ForwardRule
  <1>2. CASE Rewriting(plans, f) = {}
    BY <1>2 DEF Snat
  <1>3. CASE Rewriting(plans, f) # {}
    <2>1. PICK p \in plans : snat = p.rule.snat
      BY <1>3 DEF Snat
    <2> QED BY <1>1, <2>1
  <1> QED BY <1>2, <1>3

LEMMA PlansTyped == TableInv => plans \subseteq PlanType
  BY PlanInstalled

(* A flow opened by a rule follows its plan.                               *)
LEMMA NewFlow ==
    ASSUME TableInv, NEW k \in Packets, NEW p \in plans,
           NEW t \in Translations(p), Translates(p, k, t),
           NEW snat \in {"none", "masquerade"} \cup Addresses,
           NEW f, f = [packet |-> k, to |-> p.rule.target_ip, port |-> t.to,
                       by |-> p, snat |-> snat]
    PROVE  f \in Flow /\ f.by = p /\ Follows(f)
  <1>1. f = [packet |-> k, to |-> p.rule.target_ip, port |-> t.to, by |-> p, snat |-> snat]
    OBVIOUS
  <1>2. /\ Hears(p, k)
        /\ p.rule.listen_interface \in {"any", k.interface}
        /\ t.to \in Ports /\ InRange(t.to, p.rule.target_port)
        /\ ~IsSingle(p.rule.target_port) =>
             t.to - p.rule.target_port.start = k.dport - p.rule.listen_port.start
    BY TranslatingHears
  <1>3. /\ p \in PlanType /\ p.rule \in ForwardRule /\ FamiliesFit(p.rule)
        /\ FamilyOfRule(p.rule) \in required
    BY PlanInstalled DEF ValidRule
  <1>4. p.rule.target_ip \in Addresses
    BY <1>3 DEF ForwardRule
  <1>5. FamilyOf[p.rule.target_ip] = FamilyOfRule(p.rule)
    BY <1>3 DEF FamiliesFit, Matches, FamilyOfRule, Effective
  <1>6. FamilyOfRule(p.rule) = FamilyOf[k.dst]
    BY <1>2 DEF Hears, Addressed
  <1>7. f \in Flow
    <2>1. /\ k \in Packets /\ p.rule.target_ip \in Addresses /\ t.to \in Ports
          /\ p \in {NoPlan} \cup PlanType
      BY <1>2, <1>3, <1>4
    <2> QED BY ONLY <1>1, <2>1, snat \in {"none", "masquerade"} \cup Addresses DEF Flow
  <1>8. Follows(f)
    BY <1>1, <1>2, <1>3, <1>5, <1>6 DEF Follows
  <1> QED BY <1>1, <1>7, <1>8

(* Every step keeps FlowInv: what a flow follows does not depend on the    *)
(* table it was opened under, and no family asked for is forgotten.        *)
LEMMA FlowStep == TableInv /\ FlowInv /\ [Next]_vars => FlowInv'
  <1> SUFFICES ASSUME TableInv, FlowInv, [Next]_vars PROVE FlowInv'
    OBVIOUS
  <1>1. ASSUME NEW f \in flows, f.by # NoPlan, required \subseteq required'
        PROVE  Follows(f)'
    BY <1>1 DEF FlowInv, Follows
  <1>2. CASE required \subseteq required' /\ flows' \subseteq flows
    BY <1>1, <1>2 DEF FlowInv
  <1>3. ASSUME NEW c \in Configs, NEW lines \in SshFiles, Apply(c, lines)
        PROVE  FlowInv'
    BY <1>2, <1>3 DEF Apply
  <1>4. ASSUME NEW k \in Packets, Open(k) PROVE FlowInv'
    <2>1. required' = required
      BY <1>4 DEF Open
    <2>2. CASE flows' = flows \cup {Untranslated(k)}
      <3>1. Untranslated(k) \in Flow /\ Untranslated(k).by = NoPlan
        BY PacketsAssumption DEF Untranslated, Flow
      <3> QED BY <1>1, <2>1, <2>2, <3>1 DEF FlowInv
    <2>3. ASSUME NEW p \in plans, NEW t \in Translations(p), Translates(p, k, t),
                 NEW snat \in Snat(plans, Translated(k, p, t)),
                 flows' = flows \cup {[Translated(k, p, t) EXCEPT !.snat = snat]}
          PROVE  FlowInv'
      <3> DEFINE f == [Translated(k, p, t) EXCEPT !.snat = snat]
      <3>1. snat \in {"none", "masquerade"} \cup Addresses
        BY PlansTyped, SnatTyped
      <3>2. f \in Flow /\ f.by = p /\ Follows(f)
        <4>1. f = [packet |-> k, to |-> p.rule.target_ip, port |-> t.to,
                   by |-> p, snat |-> snat]
          BY DEF Translated
        <4> QED BY <2>3, <3>1, <4>1, NewFlow
      <3>3. Follows(f)'
        BY <2>1, <3>2 DEF Follows
      <3> QED BY <1>1, <2>1, <2>3, <3>2, <3>3 DEF FlowInv
    <2> QED BY <1>4, <2>2, <2>3 DEF Open
  <1>5. ASSUME NEW f \in flows, Close(f) PROVE FlowInv'
    BY <1>2, <1>5 DEF Close
  <1>6. CASE TableRemoved
    BY <1>2, <1>6 DEF TableRemoved
  <1>7. CASE UNCHANGED vars
    BY <1>2, <1>7 DEF vars
  <1> QED BY <1>3, <1>4, <1>5, <1>6, <1>7 DEF Next

THEOREM FlowsCorrect == Spec => [](TableInv /\ FlowInv)
  <1>1. Init => FlowInv
    BY DEF Init, FlowInv
  <1> QED BY <1>1, FlowStep, TableCorrect, PTL DEF Spec

(* Every variable keeps its type.                                          *)
THEOREM TypeCorrect == Spec => []TypeOK
  <1>1. TableInv /\ FlowInv => TypeOK
    BY PlansTyped DEF TableInv, FlowInv, TypeOK
  <1> QED BY <1>1, FlowsCorrect, PTL

(* A flow goes to the port at its own offset of the target range           *)
(* (nft.rs add_prerouting_rules, lib.rs validate_rule).                    *)
THEOREM PortsMappedHolds == Spec => []PortsMapped
  <1>1. FlowInv => PortsMapped
    BY DEF FlowInv, Follows, Hears, PortsMapped
  <1> QED BY <1>1, FlowsCorrect, PTL

(* A flow is translated only within its family, one that forwarding was    *)
(* asked for.                                                              *)
THEOREM ForwardingRequiredHolds == Spec => []ForwardingRequired
  <1>1. FlowInv => ForwardingRequired
    BY DEF FlowInv, Follows, ForwardingRequired
  <1> QED BY <1>1, FlowsCorrect, PTL

------------------------------------------------------------------------------
LEMMA SourcesFinite ==
    ASSUME NEW p \in PlanType
    PROVE  /\ IsFiniteSet(Sources(p)) /\ Sources(p) \subseteq Nat
           /\ Cardinality(Sources(p)) =
                IF p.rule.source_cidrs = <<>> THEN 1 ELSE Len(p.rule.source_cidrs)
  <1>1. p.rule.source_cidrs \in Seq(Networks)
    BY DEF PlanType, ForwardRule
  <1>2. CASE p.rule.source_cidrs = <<>>
    <2>1. Sources(p) = {0}
      BY <1>2 DEF Sources
    <2>2. IsFiniteSet({0}) /\ Cardinality({0}) = 1
      BY FS_Singleton
    <2> QED BY <1>2, <2>1, <2>2
  <1>3. CASE p.rule.source_cidrs # <<>>
    <2>1. Len(p.rule.source_cidrs) \in Nat /\ Len(p.rule.source_cidrs) # 0
      BY <1>1, <1>3
    <2>2. Sources(p) = 1 .. Len(p.rule.source_cidrs)
      BY <1>1, <1>3 DEF Sources
    <2> QED BY <1>3, <2>1, <2>2, FS_Interval
  <1> QED BY <1>2, <1>3

(* A packet is counted once for each source whose rule matches it.         *)
LEMMA CountedSources ==
    ASSUME NEW p \in PlanType, NEW f, NEW d \in {"inbound", "reply"}
    PROVE  LET matching == {i \in Sources(p) : Counts(p, f, <<i, d>>)} IN
           /\ Counted(p, f, d) = Cardinality(matching)
           /\ Counted(p, f, d) > 0 <=> matching # {}
  <1> DEFINE matching == {i \in Sources(p) : Counts(p, f, <<i, d>>)}
  <1>1. IsFiniteSet(matching)
    BY SourcesFinite, FS_Subset
  <1>2. {c \in CounterRules(p) : c[2] = d /\ Counts(p, f, c)} = matching \X {d}
    BY DEF CounterRules
  <1>3. Cardinality(matching \X {d}) = Cardinality(matching) /\ Cardinality(matching) \in Nat
    <2>1. IsFiniteSet({d}) /\ Cardinality({d}) = 1
      BY FS_Singleton
    <2>2. Cardinality(matching \X {d}) = Cardinality(matching) * Cardinality({d})
      BY <1>1, <2>1, FS_Product
    <2>3. Cardinality(matching) \in Nat
      BY <1>1, FS_CardinalityType
    <2> QED BY <2>1, <2>2, <2>3
  <1>4. Cardinality(matching) = 0 <=> matching = {}
    BY <1>1, FS_EmptySet
  <1>5. Counted(p, f, d) = Cardinality(matching)
    BY <1>2, <1>3 DEF Counted
  <1>6. Counted(p, f, d) > 0 <=> matching # {}
    <2> HIDE DEF matching
    <2> QED BY <1>3, <1>4, <1>5
  <1> QED BY <1>5, <1>6

(* A flow that a plan's counter rules match is one the plan hears.         *)
LEMMA CountedHears ==
    ASSUME NEW p \in PlanType, NEW f, NEW d \in {"inbound", "reply"},
           Counted(p, f, d) > 0
    PROVE  /\ Hears(p, f.packet)
           /\ d = "inbound" => p.rule.listen_interface \in {"any", f.packet.interface}
  <1>1. PICK i \in Sources(p) : Counts(p, f, <<i, d>>)
    BY CountedSources
  <1> QED BY <1>1 DEF Counts, Hears

(* The packets of a flow are counted for the plan that translated it and   *)
(* for no other that could have heard them (nft.rs                         *)
(* add_forward_counter_rules).                                             *)
THEOREM CountedForItsRuleHolds == Spec => []CountedForItsRule
  <1>1. ASSUME TableInv, FlowInv, NEW f \in flows, f.by \in plans, Dnat(f)
        PROVE  /\ Counted(f.by, f, "inbound") > 0
               /\ Counted(f.by, f, "reply") = Counted(f.by, f, "inbound")
               /\ \A p \in plans \ {f.by} :
                    /\ Counted(p, f, "inbound") = 0
                    /\ Counted(p, f, "reply") > 0 =>
                         p.rule.listen_interface # f.by.rule.listen_interface
    <2> DEFINE b == f.by
               inbound == {i \in Sources(b) : Counts(b, f, <<i, "inbound">>)}
               reply == {i \in Sources(b) : Counts(b, f, <<i, "reply">>)}
    <2>1. f \in Flow /\ b \in PlanType /\ b # NoPlan
      BY <1>1, PlansTyped, ConfigsAssumption DEF FlowInv
    <2>2. Follows(f)
      BY <1>1, <2>1 DEF FlowInv
    <2>3. f.packet \in Packets
      BY <2>1 DEF Flow
    <2>4. ToTarget(b, f)
      BY <1>1, <2>2 DEF ToTarget, Follows, Hears, Addressed
    <2>5. inbound = {i \in Sources(b) : FromSource(b, i, f.packet.src)}
      BY <2>2, <2>4 DEF Counts, Follows, Hears
    <2>6. reply = {i \in Sources(b) : FromSource(b, i, f.packet.src)}
      BY <2>2, <2>4 DEF Counts, Follows, Hears
    <2>7. inbound # {}
      BY <2>2, <2>5 DEF Follows, Hears
    <2>8. /\ Counted(b, f, "inbound") > 0
          /\ Counted(b, f, "reply") = Counted(b, f, "inbound")
      BY <2>1, <2>5, <2>6, <2>7, CountedSources
    <2>9. ASSUME NEW p \in plans \ {b}, NEW d \in {"inbound", "reply"},
                 Counted(p, f, d) > 0, SameInterface(p, b)
          PROVE  FALSE
      <3>1. p \in PlanType
        BY <1>1, PlansTyped
      <3>2. Hears(p, f.packet) /\ Hears(b, f.packet)
        BY <2>2, <2>9, <3>1, CountedHears DEF Follows
      <3>3. PICK c \in Configs : plans = Plan(c) /\ Valid(c, ssh)
        BY <1>1 DEF TableInv
      <3>4. p = b
        BY <1>1, <2>3, <2>9, <3>2, <3>3, ConfigsAssumption, SamePlan
      <3> QED BY <3>4
    <2>10. ASSUME NEW p \in plans \ {b} PROVE Counted(p, f, "inbound") = 0
      <3>1. p \in PlanType
        BY <1>1, PlansTyped
      <3>2. CASE Counted(p, f, "inbound") > 0
        <4>1. p.rule.listen_interface \in {"any", f.packet.interface}
          BY <3>1, <3>2, CountedHears
        <4>2. SameInterface(p, b)
          BY <2>2, <4>1 DEF SameInterface, Follows
        <4> QED BY <2>9, <3>2, <4>2
      <3>3. Counted(p, f, "inbound") \in Nat
        <4>1. IsFiniteSet({i \in Sources(p) : Counts(p, f, <<i, "inbound">>)})
          BY <3>1, SourcesFinite, FS_Subset
        <4> QED BY <3>1, <4>1, CountedSources, FS_CardinalityType
      <3> QED BY <3>2, <3>3
    <2>11. ASSUME NEW p \in plans \ {b}, Counted(p, f, "reply") > 0
           PROVE  p.rule.listen_interface # b.rule.listen_interface
      BY <2>9, <2>11 DEF SameInterface
    <2> QED BY <2>8, <2>10, <2>11
  <1>2. TableInv /\ FlowInv => CountedForItsRule
    BY <1>1 DEF CountedForItsRule
  <1> QED BY <1>2, FlowsCorrect, PTL

(* The rules of an applied configuration are as many as status expects     *)
(* (nft.rs:159-165, 181).                                                  *)
THEOREM FreshTableMatchesHolds == Spec => []FreshTableMatches
  <1>1. ASSUME TableInv, NEW p \in plans
        PROVE  Cardinality(Commented(plans, p)) = Expected(p)
    <2>1. PICK c \in Configs : plans = Plan(c) /\ Valid(c, ssh)
      BY <1>1 DEF TableInv
    <2>2. c \in Config /\ p \in PlanType
      BY <1>1, <2>1, PlansTyped, ConfigsAssumption
    <2>3. ASSUME NEW q \in plans, q.rule.id = p.rule.id, q.protocol = p.protocol
          PROVE  q = p
      <3>1. PICK i \in DOMAIN c : p = [rule |-> c[i], protocol |-> p.protocol]
        BY <2>1, <2>2, PlanOfRule
      <3>2. PICK j \in DOMAIN c : q = [rule |-> c[j], protocol |-> q.protocol]
        BY <2>1, <2>2, <2>3, PlanOfRule
      <3>3. p.rule = c[i] /\ q.rule = c[j]
        BY <3>1, <3>2
      <3>4. i = j
        BY <2>1, <2>3, <3>3 DEF Valid
      <3> QED BY <2>3, <3>1, <3>2, <3>4
    <2>4. Commented(plans, p) = {p} \X CounterRules(p)
      BY <2>3 DEF Commented
    <2>5. IsFiniteSet(Sources(p)) /\ Cardinality(Sources(p)) \in Nat
      BY <2>2, SourcesFinite, FS_CardinalityType
    <2>6. /\ IsFiniteSet({"inbound", "reply"})
          /\ Cardinality({"inbound", "reply"}) = 2
      <3>1. IsFiniteSet({"inbound"}) /\ Cardinality({"inbound"}) = 1
        BY FS_Singleton
      <3>2. {"inbound", "reply"} = {"inbound"} \cup {"reply"}
        OBVIOUS
      <3>3. "reply" \notin {"inbound"}
        OBVIOUS
      <3>4. /\ IsFiniteSet({"inbound"} \cup {"reply"})
            /\ Cardinality({"inbound"} \cup {"reply"}) = 1 + 1
        BY ONLY <3>1, <3>3, FS_AddElement
      <3> QED BY <3>2, <3>4
    <2>7. /\ IsFiniteSet(CounterRules(p))
          /\ Cardinality(CounterRules(p)) = Cardinality(Sources(p)) * 2
      BY <2>5, <2>6, FS_Product DEF CounterRules
    <2>8. Cardinality(Commented(plans, p)) = Cardinality(Sources(p)) * 2
      <3>1. IsFiniteSet({p}) /\ Cardinality({p}) = 1
        BY FS_Singleton
      <3>2. Cardinality({p} \X CounterRules(p)) = Cardinality({p}) * Cardinality(CounterRules(p))
        BY <2>7, <3>1, FS_Product
      <3> QED BY <2>4, <2>5, <2>7, <3>1, <3>2
    <2> QED BY <2>2, <2>5, <2>8, SourcesFinite DEF Expected
  <1>2. TableInv => FreshTableMatches
    BY <1>1 DEF FreshTableMatches
  <1> QED BY <1>2, TableCorrect, PTL

(* The source of a new flow is rewritten as its own rule says or as that   *)
(* of another rule for the same target (nft.rs:319-322).                   *)
THEOREM RewrittenForItsTargetHolds == Spec => RewrittenForItsTarget
  <1> DEFINE Shared(f) ==
        \E p \in plans \ {f.by} :
          /\ p.rule.snat = f.snat /\ p.protocol = f.by.protocol
          /\ p.rule.target_ip = f.by.rule.target_ip
          /\ PortsOverlap(p.rule.target_port, f.by.rule.target_port)
      Explained ==
        \A f \in flows' \ flows :
          f.by # NoPlan /\ Dnat(f) /\ f.snat # f.by.rule.snat => Shared(f)
  <1>1. ASSUME TableInv, NEW k \in Packets, NEW b \in plans,
               NEW t \in Translations(b), Translates(b, k, t),
               NEW snat \in Snat(plans, Translated(k, b, t)),
               NEW f, f = [Translated(k, b, t) EXCEPT !.snat = snat],
               Dnat(f), f.snat # f.by.rule.snat
        PROVE  Shared(f)
    <2> DEFINE g == Translated(k, b, t)
    <2>1. snat \in {"none", "masquerade"} \cup Addresses
      BY PlansTyped, SnatTyped, <1>1
    <2>2. /\ f = [packet |-> k, to |-> b.rule.target_ip, port |-> t.to, by |-> b, snat |-> snat]
          /\ g = [packet |-> k, to |-> b.rule.target_ip, port |-> t.to, by |-> b, snat |-> "none"]
      BY <1>1 DEF Translated
    <2>3. f \in Flow /\ f.by = b /\ Follows(f)
      BY <1>1, <2>1, <2>2, NewFlow
    <2>4. \A p : ToTarget(p, g) <=> ToTarget(p, f)
      BY <2>2 DEF ToTarget, Dnat
    <2>5. ToTarget(b, f)
      BY <1>1, <2>3 DEF ToTarget, Follows, Hears, Addressed
    <2>6. f.snat = snat /\ b.rule.snat # snat
      BY <1>1, <2>3, <2>2
    <2>7. Rewriting(plans, g) # {}
      BY <2>4, <2>5, <2>6 DEF Rewriting, Snat
    <2>8. PICK p \in plans : p \in Rewriting(plans, g) /\ snat = p.rule.snat
      BY <2>7 DEF Snat, IsFirst
    <2>9. ToTarget(p, f) /\ p # b
      BY <2>4, <2>6, <2>8 DEF Rewriting
    <2>10. PortsOverlap(p.rule.target_port, b.rule.target_port)
      <3>1. /\ p.rule.target_port \in PortRange /\ b.rule.target_port \in PortRange
            /\ f.port \in Ports
        BY <1>1, <2>3, PlansTyped DEF PlanType, ForwardRule, Flow
      <3>2. InRange(f.port, p.rule.target_port) /\ InRange(f.port, b.rule.target_port)
        BY <2>5, <2>9 DEF ToTarget
      <3> QED BY <3>1, <3>2, PortAssumption DEF PortRange, Ports, PortsOverlap, InRange
    <2> QED BY <2>3, <2>5, <2>6, <2>8, <2>9, <2>10 DEF ToTarget
  <1>2. TableInv /\ [Next]_vars => Explained
    <2> SUFFICES ASSUME TableInv, [Next]_vars PROVE Explained
      OBVIOUS
    <2>1. CASE flows' \subseteq flows
      BY <2>1
    <2>2. ASSUME NEW k \in Packets, Open(k) PROVE Explained
      <3>1. CASE flows' = flows \cup {Untranslated(k)}
        BY <3>1 DEF Untranslated
      <3>2. ASSUME NEW b \in plans, NEW t \in Translations(b), Translates(b, k, t),
                   NEW snat \in Snat(plans, Translated(k, b, t)),
                   flows' = flows \cup {[Translated(k, b, t) EXCEPT !.snat = snat]}
            PROVE  Explained
        BY <1>1, <3>2
      <3> QED BY <2>2, <3>1, <3>2 DEF Open
    <2>3. ASSUME NEW c \in Configs, NEW lines \in SshFiles, Apply(c, lines) PROVE Explained
      BY <2>1, <2>3 DEF Apply
    <2>4. ASSUME NEW f \in flows, Close(f) PROVE Explained
      BY <2>1, <2>4 DEF Close
    <2>5. CASE TableRemoved
      BY <2>1, <2>5 DEF TableRemoved
    <2>6. CASE UNCHANGED vars
      BY <2>1, <2>6 DEF vars
    <2> QED BY <2>2, <2>3, <2>4, <2>5, <2>6 DEF Next
  <1>3. TableInv /\ [Next]_vars
          => [\A f \in flows' \ flows :
                f.by # NoPlan /\ Dnat(f) /\ f.snat # f.by.rule.snat =>
                  \E p \in plans \ {f.by} :
                    /\ p.rule.snat = f.snat /\ p.protocol = f.by.protocol
                    /\ p.rule.target_ip = f.by.rule.target_ip
                    /\ PortsOverlap(p.rule.target_port, f.by.rule.target_port)]_vars
    BY <1>2
  <1> QED BY <1>3, TableCorrect, PTL DEF Spec, RewrittenForItsTarget
------------------------------------------------------------------------------
(* Any packet a host could receive, whether or not the model opens it.     *)
AnyPacket ==
    {k \in [src : Addresses, dst : Addresses, interface : Interfaces,
            protocol : Protocols, dport : Ports] : FamilyOf[k.src] = FamilyOf[k.dst]}

(* The kernel rules of a forwarding rule would translate the packet.       *)
Receives(r, k) ==
    LET p == [rule |-> r, protocol |-> k.protocol]
    IN  k.protocol \in r.protocols /\ \E t \in Translations(p) : Translates(p, k, t)

(* Every port of a valid listen range has a kernel rule for each source.   *)
LEMMA PortTranslated ==
    ASSUME NEW p \in PlanType, ValidPorts(p.rule.listen_port),
           NEW i \in Sources(p), NEW port \in Ports, InRange(port, p.rule.listen_port)
    PROVE  \E t \in Translations(p) : t.source = i /\ t.dport = port
  <1> DEFINE l == p.rule.listen_port
             offset == port - l.start
  <1>1. l \in PortRange
    BY DEF PlanType, ForwardRule
  <1>2. l.start \in Nat /\ l.end \in Nat /\ port \in Nat /\ port <= MaxPort
    BY <1>1, PortAssumption DEF PortRange, Ports
  <1>3. Length(l) = l.end - l.start + 1
    BY <1>1, RangeLength
  <1>4. offset \in 0 .. Length(l) - 1 /\ l.start + offset = port
    BY <1>2, <1>3 DEF InRange
  <1>5. Saturate(l.start + offset) = port
    BY <1>2, <1>4, PortAssumption DEF Saturate
  <1>6. PICK t : t = [source |-> i, dport |-> Saturate(l.start + offset),
                      to |-> IF IsSingle(p.rule.target_port) THEN p.rule.target_port.start
                             ELSE Saturate(p.rule.target_port.start + offset)]
    OBVIOUS
  <1>7. t \in Translations(p)
    BY <1>4, <1>6 DEF Translations
  <1> QED BY <1>5, <1>6, <1>7

(* A packet that matches a valid rule is translated by it.                 *)
LEMMA Received ==
    ASSUME NEW r \in ForwardRule, ValidPorts(r.listen_port), NEW k \in AnyPacket,
           k.protocol \in r.protocols, FamilyOfRule(r) = FamilyOf[k.dst],
           r.listen_address \in {"any", k.dst}, r.listen_interface \in {"any", k.interface},
           InRange(k.dport, r.listen_port),
           r.source_cidrs = <<>> \/ \E i \in DOMAIN r.source_cidrs : k.src \in r.source_cidrs[i].hosts
    PROVE  Receives(r, k)
  <1> DEFINE p == [rule |-> r, protocol |-> k.protocol]
  <1>1. p \in PlanType /\ k.dport \in Ports
    BY DEF PlanType, AnyPacket
  <1>2. PICK i \in Sources(p) : FromSource(p, i, k.src)
    <2>1. CASE r.source_cidrs = <<>>
      BY <2>1 DEF Sources, FromSource
    <2>2. CASE r.source_cidrs # <<>>
      BY <2>2 DEF Sources, FromSource
    <2> QED BY <2>1, <2>2
  <1>3. PICK t \in Translations(p) : t.source = i /\ t.dport = k.dport
    BY <1>1, PortTranslated
  <1>4. Translates(p, k, t)
    BY <1>2, <1>3 DEF Translates, Addressed
  <1> QED BY <1>3, <1>4 DEF Receives

(* Some address of the rules' family lies in the sources of both: the      *)
(* base of the smaller of two networks that meet.                          *)
LEMMA CommonSource ==
    ASSUME NEW r \in ForwardRule, NEW s \in ForwardRule, FamiliesFit(r), FamiliesFit(s),
           FamilyOfRule(r) = FamilyOfRule(s), SourcesOverlap(r.source_cidrs, s.source_cidrs)
    PROVE  \E a \in Addresses :
             /\ FamilyOf[a] = FamilyOfRule(r)
             /\ \A q \in {r, s} : \/ q.source_cidrs = <<>>
                                  \/ \E i \in DOMAIN q.source_cidrs : a \in q.source_cidrs[i].hosts
  <1>1. r.source_cidrs \in Seq(Networks) /\ s.source_cidrs \in Seq(Networks)
    BY DEF ForwardRule
  <1>2. ASSUME NEW q \in {r, s}, NEW i \in DOMAIN q.source_cidrs
        PROVE  /\ q.source_cidrs[i].base \in Addresses
               /\ q.source_cidrs[i].base \in q.source_cidrs[i].hosts
               /\ FamilyOf[q.source_cidrs[i].base] = FamilyOfRule(r)
    <2>1. q.source_cidrs[i] \in Networks
      BY <1>1
    <2>2. FamilyOfRule(q) = FamilyOfRule(r) /\ FamiliesFit(q) /\ q \in ForwardRule
      OBVIOUS
    <2>3. Matches(FamilyOfRule(q), q.source_cidrs[i].base)
      BY <2>2 DEF FamiliesFit
    <2>4. FamilyOfRule(q) # "auto"
      BY <2>2, FamilyTyped DEF Families
    <2> QED BY <2>1, <2>2, <2>3, <2>4, NetworkAssumption DEF Matches
  <1>3. CASE r.source_cidrs = <<>> /\ s.source_cidrs = <<>>
    <2>1. r.target_ip \in Addresses /\ FamilyOf[r.target_ip] = FamilyOfRule(r)
      BY DEF ForwardRule, FamiliesFit, Matches, FamilyOfRule, Effective
    <2> QED BY <1>3, <2>1
  <1>4. ASSUME NEW q \in {r, s}, q.source_cidrs # <<>>,
               \E o \in {r, s} : {o, q} = {r, s} /\ o.source_cidrs = <<>>
        PROVE  \E a \in Addresses :
                 /\ FamilyOf[a] = FamilyOfRule(r)
                 /\ \A o \in {r, s} : \/ o.source_cidrs = <<>>
                                      \/ \E i \in DOMAIN o.source_cidrs : a \in o.source_cidrs[i].hosts
    <2>1. 1 \in DOMAIN q.source_cidrs
      BY <1>1, <1>4
    <2> DEFINE a == q.source_cidrs[1].base
    <2>2. a \in Addresses /\ a \in q.source_cidrs[1].hosts /\ FamilyOf[a] = FamilyOfRule(r)
      BY <1>2, <2>1
    <2> HIDE DEF a
    <2> QED BY <1>4, <2>1, <2>2
  <1>5. CASE r.source_cidrs # <<>> /\ s.source_cidrs # <<>>
    <2>1. PICK i \in DOMAIN r.source_cidrs, j \in DOMAIN s.source_cidrs :
               \/ s.source_cidrs[j].base \in r.source_cidrs[i].hosts
               \/ r.source_cidrs[i].base \in s.source_cidrs[j].hosts
      BY <1>5 DEF SourcesOverlap
    <2>2. CASE s.source_cidrs[j].base \in r.source_cidrs[i].hosts
      BY <1>2, <2>2
    <2>3. CASE r.source_cidrs[i].base \in s.source_cidrs[j].hosts
      BY <1>2, <2>3
    <2> QED BY <2>1, <2>2, <2>3
  <1> QED BY <1>3, <1>4, <1>5

(* validate rejects two enabled rules as overlapping exactly if some       *)
(* packet could be translated by both (lib.rs:261-280, addresses_overlap,  *)
(* PortRange::overlaps, source_ranges_overlap, against the kernel rules of *)
(* nft.rs add_prerouting_rules): it neither misses a clash nor forbids     *)
(* what could not clash.                                                   *)
THEOREM OverlapExact ==
    ASSUME Interfaces # {}, NEW taken, NEW r \in ForwardRule, NEW s \in ForwardRule,
           ValidRule(r, taken), ValidRule(s, taken)
    PROVE  Overlap(r, s) <=> \E k \in AnyPacket : Receives(r, k) /\ Receives(s, k)
  <1>1. ASSUME NEW k \in AnyPacket, NEW q \in {r, s}, Receives(q, k)
        PROVE  LET p == [rule |-> q, protocol |-> k.protocol] IN
               /\ p \in PlanType /\ k.protocol \in q.protocols
               /\ Hears(p, k) /\ q.listen_interface \in {"any", k.interface}
    <2> DEFINE p == [rule |-> q, protocol |-> k.protocol]
    <2>1. p \in PlanType
      BY DEF PlanType, AnyPacket
    <2>2. PICK t \in Translations(p) : Translates(p, k, t)
      BY <1>1 DEF Receives
    <2>3. ValidPorts(q.listen_port) /\ ValidPorts(q.target_port) /\ LengthsFit(q)
      BY DEF ValidRule
    <2>4. t.source \in Sources(p) /\ InRange(t.dport, q.listen_port)
      BY <2>1, <2>3, PortsOfTranslation
    <2> QED BY <1>1, <2>1, <2>2, <2>4 DEF Receives, Translates, Hears
  <1>2. ASSUME NEW k \in AnyPacket, Receives(r, k), Receives(s, k) PROVE Overlap(r, s)
    <2> DEFINE p == [rule |-> r, protocol |-> k.protocol]
               q == [rule |-> s, protocol |-> k.protocol]
    <2>1. /\ p \in PlanType /\ q \in PlanType /\ Hears(p, k) /\ Hears(q, k)
          /\ k.protocol \in r.protocols /\ k.protocol \in s.protocols
          /\ r.listen_interface \in {"any", k.interface}
          /\ s.listen_interface \in {"any", k.interface}
      BY <1>1, <1>2
    <2>2. SameInterface(p, q)
      BY <2>1 DEF SameInterface
    <2>3. k.dport \in Ports
      BY DEF AnyPacket
    <2>4. /\ p.rule = r /\ q.rule = s
          /\ p.protocol \in p.rule.protocols /\ q.protocol \in q.rule.protocols
      BY <2>1
    <2>5. Overlap(p.rule, q.rule)
      <3> HIDE DEF p, q
      <3> QED BY <2>1, <2>2, <2>3, <2>4, HearingOverlaps
    <2> QED BY <2>4, <2>5
  <1>3. ASSUME Overlap(r, s) PROVE \E k \in AnyPacket : Receives(r, k) /\ Receives(s, k)
    <2>1. PICK protocol \in Protocols : protocol \in r.protocols /\ protocol \in s.protocols
      BY <1>3 DEF Overlap, ForwardRule
    <2>2. PICK interface \in Interfaces : /\ r.listen_interface \in {"any", interface}
                                         /\ s.listen_interface \in {"any", interface}
      <3>1. /\ r.listen_interface \in Interfaces \cup {"any"}
            /\ s.listen_interface \in Interfaces \cup {"any"}
        BY DEF ForwardRule
      <3> QED BY <1>3, <3>1 DEF Overlap, AddressesOverlap
    <2>3. FamilyOfRule(r) = FamilyOfRule(s)
      BY <1>3 DEF Overlap, AddressesOverlap
    <2>4. FamiliesFit(r) /\ FamiliesFit(s) /\ ValidPorts(r.listen_port) /\ ValidPorts(s.listen_port)
      BY DEF ValidRule
    <2>5. PICK src \in Addresses :
             /\ FamilyOf[src] = FamilyOfRule(r)
             /\ \A q \in {r, s} : \/ q.source_cidrs = <<>>
                                  \/ \E i \in DOMAIN q.source_cidrs : src \in q.source_cidrs[i].hosts
      BY <1>3, <2>3, <2>4, CommonSource DEF Overlap
    <2>6. PICK dst \in Addresses : /\ FamilyOf[dst] = FamilyOfRule(r)
                                  /\ r.listen_address \in {"any", dst}
                                  /\ s.listen_address \in {"any", dst}
      <3>1. ASSUME NEW q \in {r, s}, q.listen_address # "any"
            PROVE  /\ q.listen_address \in Addresses
                   /\ FamilyOf[q.listen_address] = FamilyOfRule(r)
        <4>1. q.listen_address \in Addresses /\ q \in ForwardRule
          BY <3>1 DEF ForwardRule
        <4>2. FamiliesFit(q) /\ FamilyOfRule(q) = FamilyOfRule(r)
          BY <2>3, <2>4
        <4>3. Matches(FamilyOfRule(q), q.listen_address)
          BY <4>1, <4>2 DEF FamiliesFit
        <4>4. FamilyOfRule(q) # "auto"
          BY <4>1, FamilyTyped DEF Families
        <4> QED BY <4>1, <4>2, <4>3, <4>4 DEF Matches
      <3>2. r.listen_address = s.listen_address \/ "any" \in {r.listen_address, s.listen_address}
        BY <1>3 DEF Overlap, AddressesOverlap
      <3>3. CASE r.listen_address = "any" /\ s.listen_address = "any"
        BY <2>5, <3>3
      <3>4. CASE r.listen_address # "any"
        BY <3>1, <3>2, <3>4
      <3>5. CASE s.listen_address # "any"
        BY <3>1, <3>2, <3>5
      <3> QED BY <3>3, <3>4, <3>5
    <2>7. PICK dport \in Ports : InRange(dport, r.listen_port) /\ InRange(dport, s.listen_port)
      <3>1. r.listen_port \in PortRange /\ s.listen_port \in PortRange
        BY DEF ForwardRule
      <3>2. PortsOverlap(r.listen_port, s.listen_port)
        BY <1>3 DEF Overlap
      <3>3. CASE r.listen_port.start <= s.listen_port.start
        <4>1. s.listen_port.start \in Ports
          BY <3>1 DEF PortRange
        <4>2. /\ InRange(s.listen_port.start, r.listen_port)
              /\ InRange(s.listen_port.start, s.listen_port)
          BY <2>4, <3>1, <3>2, <3>3, PortAssumption DEF PortRange, Ports, PortsOverlap, InRange, ValidPorts
        <4> QED BY <4>1, <4>2
      <3>4. CASE s.listen_port.start <= r.listen_port.start
        <4>1. r.listen_port.start \in Ports
          BY <3>1 DEF PortRange
        <4>2. /\ InRange(r.listen_port.start, r.listen_port)
              /\ InRange(r.listen_port.start, s.listen_port)
          BY <2>4, <3>1, <3>2, <3>4, PortAssumption DEF PortRange, Ports, PortsOverlap, InRange, ValidPorts
        <4> QED BY <4>1, <4>2
      <3>5. r.listen_port.start <= s.listen_port.start \/ s.listen_port.start <= r.listen_port.start
        BY <3>1, PortAssumption DEF PortRange, Ports
      <3> QED BY <3>3, <3>4, <3>5
    <2> DEFINE k == [src |-> src, dst |-> dst, interface |-> interface,
                     protocol |-> protocol, dport |-> dport]
    <2>8. k \in AnyPacket
      BY <2>5, <2>6 DEF AnyPacket
    <2>9. ASSUME NEW q \in {r, s} PROVE Receives(q, k)
      <3>1. /\ k.protocol \in q.protocols /\ FamilyOfRule(q) = FamilyOf[k.dst]
            /\ q.listen_address \in {"any", k.dst}
            /\ q.listen_interface \in {"any", k.interface}
            /\ InRange(k.dport, q.listen_port)
            /\ ValidPorts(q.listen_port) /\ q \in ForwardRule
        BY <2>1, <2>2, <2>3, <2>4, <2>6, <2>7
      <3>2. q.source_cidrs = <<>> \/ \E i \in DOMAIN q.source_cidrs : k.src \in q.source_cidrs[i].hosts
        BY <2>5
      <3> HIDE DEF k
      <3> QED BY <2>8, <3>1, <3>2, Received
    <2> HIDE DEF k
    <2> QED BY <2>8, <2>9
  <1> QED BY <1>2, <1>3

------------------------------------------------------------------------------
(* What status compares with the kernel (nft.rs:159-181).                  *)
StatusKey(c) == {<<p.rule.id, p.protocol, Expected(p)>> : p \in Plan(c)}

(* What ApplyPipeline assumes of validation, plans and forwarding          *)
(* (ConfigAssumption): the empty configuration is valid whatever sshd      *)
(* listens on, and a valid configuration that status cannot tell from it   *)
(* needs no forwarding, so that an apply that skips the missing table of   *)
(* an empty plan (nft.rs:150, app.rs:46) leaves no forwarding undone.      *)
THEOREM PipelineAssumption ==
    \A taken :
        /\ Valid(<<>>, taken)
        /\ \A c \in Config :
             Valid(c, taken) /\ StatusKey(c) = StatusKey(<<>>)
               => \A family \in Families : ~Requires(c, family)
  <1> SUFFICES ASSUME NEW taken
               PROVE  /\ Valid(<<>>, taken)
                      /\ \A c \in Config :
                           Valid(c, taken) /\ StatusKey(c) = StatusKey(<<>>)
                             => \A family \in Families : ~Requires(c, family)
    OBVIOUS
  <1>1. Valid(<<>>, taken)
    BY DEF Valid
  <1>2. ASSUME NEW c \in Config, Valid(c, taken), StatusKey(c) = StatusKey(<<>>),
               NEW family \in Families, Requires(c, family)
        PROVE  FALSE
    <2>1. StatusKey(<<>>) = {}
      BY DEF StatusKey, Plan, ActiveRules
    <2>2. PICK i \in DOMAIN c : c[i].enabled
      BY <1>2 DEF Requires, ActiveRules
    <2>3. PICK protocol \in c[i].protocols : TRUE
      BY <1>2 DEF Valid, ValidRule
    <2>4. [rule |-> c[i], protocol |-> protocol] \in Plan(c)
      BY <2>2 DEF Plan, ActiveRules
    <2> QED BY <1>2, <2>1, <2>4 DEF StatusKey
  <1> QED BY <1>1, <1>2

------------------------------------------------------------------------------
(* The order in which the plans of a valid configuration are added to the  *)
(* chains is strict and total.                                             *)
LEMMA OrderTotal ==
    ASSUME TableInv, NEW p \in plans, NEW q \in plans, p # q
    PROVE  Before(p, q) <=> ~Before(q, p)
  <1>1. PICK c \in Configs : plans = Plan(c) /\ Valid(c, ssh)
    BY DEF TableInv
  <1>2. c \in Config
    BY ConfigsAssumption
  <1>3. PICK i \in DOMAIN c : p = [rule |-> c[i], protocol |-> p.protocol]
    BY <1>1, <1>2, PlanOfRule
  <1>4. PICK j \in DOMAIN c : q = [rule |-> c[j], protocol |-> q.protocol]
    BY <1>1, <1>2, PlanOfRule
  <1>5. p.rule = c[i] /\ q.rule = c[j]
    BY <1>3, <1>4
  <1>6. /\ p.rule.id \in Nat /\ q.rule.id \in Nat
        /\ p.rule.order \in Nat /\ q.rule.order \in Nat
        /\ p.protocol \in {"tcp", "udp"} /\ q.protocol \in {"tcp", "udp"}
    BY PlanInstalled DEF PlanType, ForwardRule, Protocols
  <1>7. p.rule.id = q.rule.id => p.protocol # q.protocol
    BY <1>1, <1>3, <1>4, <1>5 DEF Valid
  <1> QED BY <1>6, <1>7 DEF Before

(* A set of numbers that is not empty has a least one.                     *)
LEMMA Least ==
    ASSUME NEW T, T \subseteq Nat, T # {}
    PROVE  \E n \in T : \A m \in T : n <= m
  <1> DEFINE Less == OpToRel(<, Nat)
  <1>1. IsWellFoundedOn(Less, Nat)
    BY NatLessThanWellFounded
  <1>2. \A m, n \in Nat : <<m, n>> \in Less <=> m < n
    BY DEF OpToRel
  <1> HIDE DEF Less
  <1>3. PICK n \in T : \A m \in T : ~(<<m, n>> \in Less)
    BY <1>1, WFMin
  <1>4. ASSUME NEW m \in T PROVE n <= m
    <2>1. m \in Nat /\ n \in Nat /\ ~(<<m, n>> \in Less)
      BY <1>3
    <2>2. ~(m < n)
      BY <1>2, <2>1
    <2> QED BY <2>1, <2>2
  <1> QED BY <1>4

(* So of several installed plans one comes first, and only one.            *)
LEMMA FirstExists ==
    ASSUME TableInv, NEW S, S \subseteq plans, S # {}
    PROVE  \E p \in S : IsFirst(p, S) /\ \A q : IsFirst(q, S) => q = p
  <1>0. \A p \in S : /\ p \in plans /\ p.rule.order \in Nat /\ p.rule.id \in Nat
                     /\ p.protocol \in {"tcp", "udp"}
    BY PlanInstalled DEF PlanType, ForwardRule, Protocols
  <1>1. PICK o \in {p.rule.order : p \in S} : \A n \in {p.rule.order : p \in S} : o <= n
    <2> {p.rule.order : p \in S} \subseteq Nat /\ {p.rule.order : p \in S} # {}
      BY <1>0
    <2> QED BY Least
  <1> DEFINE A == {p \in S : p.rule.order = o}
  <1>2. PICK id \in {p.rule.id : p \in A} : \A n \in {p.rule.id : p \in A} : id <= n
    <2> {p.rule.id : p \in A} \subseteq Nat /\ {p.rule.id : p \in A} # {}
      BY <1>0, <1>1
    <2> QED BY Least
  <1> DEFINE B == {p \in A : p.rule.id = id}
  <1>3. PICK p \in B : p.protocol = "tcp" \/ \A q \in B : q.protocol # "tcp"
    <2>1. B # {}
      BY <1>2
    <2> QED BY <2>1
  <1>4. ASSUME NEW q \in S \ {p} PROVE Before(p, q)
    <2>1. p \in S /\ p.rule.order = o /\ p.rule.id = id
      OBVIOUS
    <2>2. o <= q.rule.order
      BY <1>1
    <2>3. q.rule.order = o => id <= q.rule.id
      BY <1>2
    <2>4. q.rule.order = o /\ q.rule.id = id => q \in B
      OBVIOUS
    <2>5. ~Before(q, p)
      <3>1. p.protocol \in {"tcp", "udp"} /\ q.protocol \in {"tcp", "udp"}
        BY <1>0, <2>1
      <3>2. ~(q.rule.order < p.rule.order)
        BY <1>0, <2>1, <2>2
      <3>3. q.rule.order = p.rule.order => ~(q.rule.id < p.rule.id)
        BY <1>0, <2>1, <2>3
      <3>4. q.rule.order = p.rule.order /\ q.rule.id = p.rule.id
              => ~(q.protocol = "tcp" /\ p.protocol = "udp")
        BY <1>3, <2>1, <2>4
      <3> QED BY <3>2, <3>3, <3>4 DEF Before
    <2> QED BY <1>0, <2>1, <2>5, OrderTotal
  <1>5. IsFirst(p, S)
    BY <1>4 DEF IsFirst
  <1>6. ASSUME NEW q, IsFirst(q, S) PROVE q = p
    <2>1. q \in S /\ (q # p => Before(q, p) /\ Before(p, q))
      BY <1>4, <1>6 DEF IsFirst
    <2> QED BY <1>0, <2>1, OrderTotal
  <1> QED BY <1>5, <1>6

(* Of several rules that rewrite the source of a flow the order of the     *)
(* plans picks one, and always picks one, so that applying a configuration *)
(* again treats a new flow as before (lib.rs:455 sorts by order, id and    *)
(* protocol, and validate rejects duplicate ids; nft.rs adds the rules in  *)
(* that order).                                                            *)
THEOREM SourceDetermined == Spec => [](\A f \in flows : \E snat : Snat(plans, f) = {snat})
  <1>1. TableInv => \A f \in flows : \E snat : Snat(plans, f) = {snat}
    <2> SUFFICES ASSUME TableInv, NEW f \in flows PROVE \E snat : Snat(plans, f) = {snat}
      OBVIOUS
    <2> DEFINE R == Rewriting(plans, f)
    <2>1. CASE R = {}
      BY <2>1 DEF Snat
    <2>2. CASE R # {}
      <3>1. R \subseteq plans
        BY DEF Rewriting
      <3>2. PICK p \in R : IsFirst(p, R) /\ \A q : IsFirst(q, R) => q = p
        BY <2>2, <3>1, FirstExists
      <3>3. {q \in plans : IsFirst(q, R)} = {p}
        BY <3>1, <3>2
      <3>4. Snat(plans, f) = {q.rule.snat : q \in {o \in plans : IsFirst(o, R)}}
        BY <2>2 DEF Snat
      <3>5. Snat(plans, f) = {q.rule.snat : q \in {p}}
        BY ONLY <3>3, <3>4
      <3>6. Snat(plans, f) = {p.rule.snat}
        BY ONLY <3>5
      <3> QED BY <3>6
    <2> QED BY <2>1, <2>2
  <1> QED BY <1>1, TableCorrect, PTL

(* The first packet of a flow never gets stuck: under any accepted         *)
(* configuration it passes untranslated, or the first rule that matches    *)
(* translates it (nft.rs add_prerouting_rules).                            *)
THEOREM SomeRuleDecides ==
    Spec => [](\A k \in Packets :
                 \/ Translating(plans, k) = {}
                 \/ \E p \in plans : /\ IsFirst(p, Translating(plans, k))
                                     /\ \E t \in Translations(p) : Translates(p, k, t))
  <1>1. ASSUME TableInv, NEW k \in Packets, Translating(plans, k) # {}
        PROVE  \E p \in plans : /\ IsFirst(p, Translating(plans, k))
                                /\ \E t \in Translations(p) : Translates(p, k, t)
    <2>1. Translating(plans, k) \subseteq plans
      BY DEF Translating
    <2>2. PICK p \in Translating(plans, k) : IsFirst(p, Translating(plans, k))
      BY <1>1, <2>1, FirstExists
    <2> QED BY <2>2 DEF Translating
  <1>2. TableInv =>
          \A k \in Packets :
             \/ Translating(plans, k) = {}
             \/ \E p \in plans : /\ IsFirst(p, Translating(plans, k))
                                 /\ \E t \in Translations(p) : Translates(p, k, t)
    BY <1>1
  <1> QED BY <1>2, TableCorrect, PTL
===============================================================================
