------------------------------- MODULE Datapath -------------------------------
(***************************************************************************)
(* What the kernel does with packets under the managed table: the rules    *)
(* that nft.rs builds from the plans of a configuration, evaluated by the  *)
(* kernel for the first packet of a flow (NAT) and for the later ones      *)
(* (counters).  The kernel remembers a translation in its connection       *)
(* tracking, so a flow outlives the table that translated it.              *)
(***************************************************************************)
EXTENDS Rules

CONSTANTS
    Configs,   \* the configurations somebody may apply
    Packets,   \* the first packets of flows
    SshFiles,  \* the sshd_config files told apart, as sets of lines
    SshPort,   \* 22
    MaxFlows,  \* bound on the flows followed at a time
    NoPlan

PlanType == [rule : ForwardRule, protocol : Protocols]

ASSUME ConfigsAssumption ==
    /\ Configs \subseteq Config
    /\ SshPort \in Ports
    /\ NoPlan \notin PlanType
(* A flow's source port tells nothing apart and is left out.               *)
ASSUME PacketsAssumption ==
    /\ Packets \subseteq [src : Addresses, dst : Addresses, interface : Interfaces,
                          protocol : Protocols, dport : Ports]
    /\ \A k \in Packets : FamilyOf[k.src] = FamilyOf[k.dst]

VARIABLES
    plans,       \* the plans whose rules the table holds
    ssh,         \* the SSH ports against which they were validated
    required,    \* the families an apply so far has asked forwarding for
    flows        \* the tracked connections

vars == <<plans, ssh, required, flows>>

------------------------------------------------------------------------------
(* One kernel rule per source network, or one without a source match.      *)
Sources(p) == IF p.rule.source_cidrs = <<>> THEN {0} ELSE DOMAIN p.rule.source_cidrs

FromSource(p, i, address) ==
    i # 0 => address \in p.rule.source_cidrs[i].hosts

Saturate(port) == IF port > MaxPort THEN MaxPort ELSE port

(* add_prerouting_rules: one rule for each source and port of the range,   *)
(* which it translates to the port at the same offset or the only one.     *)
Translations(p) ==
    {[source |-> i,
      dport |-> Saturate(p.rule.listen_port.start + offset),
      to |-> IF IsSingle(p.rule.target_port) THEN p.rule.target_port.start
             ELSE Saturate(p.rule.target_port.start + offset)] :
       i \in Sources(p), offset \in 0 .. Length(p.rule.listen_port) - 1}

(* The matches every rule of a plan makes on the packet as it came in.     *)
Addressed(p, k) ==
    /\ FamilyOfRule(p.rule) = FamilyOf[k.dst]
    /\ p.rule.listen_address \in {"any", k.dst}
    /\ p.protocol = k.protocol

Translates(p, k, t) ==
    /\ Addressed(p, k)
    /\ p.rule.listen_interface \in {"any", k.interface}
    /\ FromSource(p, t.source, k.src)
    /\ t.dport = k.dport

Translating(table, k) ==
    {p \in table : \E t \in Translations(p) : Translates(p, k, t)}

(* Whether tracking marks the flow as translated (ct status dnat): it does *)
(* not if the destination stays what it was.                               *)
Dnat(f) == <<f.to, f.port>> # <<f.packet.dst, f.packet.dport>>

ToTarget(p, f) ==
    /\ Dnat(f)
    /\ FamilyOfRule(p.rule) = FamilyOf[f.packet.dst]
    /\ p.protocol = f.packet.protocol
    /\ f.to = p.rule.target_ip
    /\ InRange(f.port, p.rule.target_port)

(* Mutant: the rule does not match the target port.                        *)
RewritingHost(table, f) ==
    {p \in table : /\ p.rule.snat # "none" /\ Dnat(f)
                   /\ p.protocol = f.packet.protocol /\ f.to = p.rule.target_ip}

(* add_postrouting_rule                                                    *)
Rewriting(table, f) == {p \in table : p.rule.snat # "none" /\ ToTarget(p, f)}

(* add_forward_counter_rules: the inbound and the reply rule of a source.  *)
CounterRules(p) == Sources(p) \X {"inbound", "reply"}

(* Mutant: the counter rules do not match the original port.               *)
CountsAnyPort(p, f, c) ==
    /\ ToTarget(p, f)
    /\ Addressed(p, f.packet) /\ FromSource(p, c[1], f.packet.src)
    /\ c[2] = "inbound" => p.rule.listen_interface \in {"any", f.packet.interface}

Counts(p, f, c) ==
    /\ ToTarget(p, f)
    /\ Addressed(p, f.packet) /\ FromSource(p, c[1], f.packet.src)
    /\ InRange(f.packet.dport, p.rule.listen_port)
    /\ c[2] = "inbound" => p.rule.listen_interface \in {"any", f.packet.interface}

(* How often a packet of a flow is counted for a plan, in a direction.     *)
Counted(p, f, direction) ==
    Cardinality({c \in CounterRules(p) : c[2] = direction /\ Counts(p, f, c)})

(* The counters status expects for a (rule id, protocol), and those found. *)
(* Mutant: a plan without source networks is expected to have none.        *)
ExpectedPerSource(p) == Len(p.rule.source_cidrs) * 2

Expected(p) ==
    2 * (IF p.rule.source_cidrs = <<>> THEN 1 ELSE Len(p.rule.source_cidrs))

Commented(table, p) ==
    UNION {{q} \X CounterRules(q) :
             q \in {r \in table : r.rule.id = p.rule.id /\ r.protocol = p.protocol}}

------------------------------------------------------------------------------
Init == plans = {} /\ ssh = {SshPort} /\ required = {} /\ flows = {}

(* A validated configuration replaces the table, and ensure_forwarding is  *)
(* then asked for the families it requires; whether that has come about is *)
(* not seen here (ApplyPipeline has the steps and failures of this).       *)
(* Flows stay tracked.                                                     *)
Apply(config, lines) ==
    /\ Valid(config, SshPorts(lines, SshPort))
    /\ plans' = Plan(config)
    /\ ssh' = SshPorts(lines, SshPort)
    /\ required' = required \cup {family \in Families : Requires(config, family)}
    /\ UNCHANGED flows

TableRemoved == plans' = {} /\ UNCHANGED <<ssh, required, flows>>

Untranslated(k) ==
    [packet |-> k, to |-> k.dst, port |-> k.dport, by |-> NoPlan, snat |-> "none"]

Translated(k, p, t) ==
    [packet |-> k, to |-> p.rule.target_ip, port |-> t.to, by |-> p, snat |-> "none"]

(* In each chain the first rule that matches decides, in plan order.       *)
Snat(table, f) ==
    IF Rewriting(table, f) = {} THEN {"none"}
    ELSE {p.rule.snat : p \in {q \in table : IsFirst(q, Rewriting(table, f))}}

Open(k) ==
    /\ Cardinality(flows) < MaxFlows
    /\ \A f \in flows : f.packet # k
    /\ UNCHANGED <<plans, ssh, required>>
    /\ \/ /\ Translating(plans, k) = {}
          /\ flows' = flows \cup {Untranslated(k)}
       \/ \E p \in plans : \E t \in Translations(p) :
            /\ IsFirst(p, Translating(plans, k)) /\ Translates(p, k, t)
            /\ \E snat \in Snat(plans, Translated(k, p, t)) :
                 flows' = flows \cup {[Translated(k, p, t) EXCEPT !.snat = snat]}

Close(f) == flows' = flows \ {f} /\ UNCHANGED <<plans, ssh, required>>

Next ==
    \/ \E config \in Configs, lines \in SshFiles : Apply(config, lines)
    \/ \E k \in Packets : Open(k)
    \/ \E f \in flows : Close(f)
    \/ TableRemoved

Spec == Init /\ [][Next]_vars

------------------------------------------------------------------------------
Flow == [packet : Packets, to : Addresses, port : Ports,
         by : {NoPlan} \cup PlanType,
         snat : {"none", "masquerade"} \cup Addresses]

TypeOK ==
    /\ plans \subseteq PlanType
    /\ ssh \subseteq Ports
    /\ required \subseteq Families
    /\ flows \subseteq Flow

(* A packet is translated by the rules of at most one plan, whatever is    *)
(* applied, so the order of the rules never decides where it goes          *)
(* (lib.rs validate, overlaps; nft.rs add_prerouting_rules).               *)
Unambiguous == \A k \in Packets : \A p, q \in Translating(plans, k) : p = q

(* "SSH ports detected from sshd_config (22 by default) are rejected"      *)
(* (README.md:15): no table translates a packet to one of the ports it was *)
(* validated against, unless its rule says so.                             *)
SshReachable ==
    \A k \in Packets : \A p \in Translating(plans, k) :
        k.dport \in ssh => p.rule.allow_ssh_conflict

(* "Equal-length ranges map one-to-one ... A single target port maps every *)
(* listen port to that port" (README.md:14): a flow goes to the port at    *)
(* its own offset of the target range, and never beyond its end.           *)
PortsMapped ==
    \A f \in flows : f.by # NoPlan =>
        LET listen == f.by.rule.listen_port
            onto == f.by.rule.target_port
        IN  /\ InRange(f.packet.dport, listen) /\ InRange(f.port, onto)
            /\ ~IsSingle(onto) =>
                 f.port - onto.start = f.packet.dport - listen.start

(* As long as the plan that translated a flow is installed, also after     *)
(* other rules changed, the flow's inbound packets are counted for it and  *)
(* for no other; its replies are counted as often, and for another plan    *)
(* only if that listens on another interface (nft.rs                       *)
(* add_forward_counter_rules, which cannot match the interface of a reply).*)
CountedForItsRule ==
    \A f \in flows : f.by \in plans /\ Dnat(f) =>
        /\ Counted(f.by, f, "inbound") > 0
        /\ Counted(f.by, f, "reply") = Counted(f.by, f, "inbound")
        /\ \A p \in plans \ {f.by} :
             /\ Counted(p, f, "inbound") = 0
             /\ Counted(p, f, "reply") > 0 =>
                  p.rule.listen_interface # f.by.rule.listen_interface

(* The source of a new flow is rewritten as its rule says, or as another   *)
(* rule says that forwards to the same ports of the same target: a         *)
(* postrouting rule matches the target only (nft.rs:319-322).              *)
RewrittenForItsTarget ==
    [][\A f \in flows' \ flows :
         f.by # NoPlan /\ Dnat(f) /\ f.snat # f.by.rule.snat =>
           \E p \in plans \ {f.by} :
             /\ p.rule.snat = f.snat /\ p.protocol = f.by.protocol
             /\ p.rule.target_ip = f.by.rule.target_ip
             /\ PortsOverlap(p.rule.target_port, f.by.rule.target_port)]_vars

(* "Forwarding is enabled only when an active rule requires that family"   *)
(* (README.md:17): a flow is translated only to an address of its own      *)
(* family, and it is a family ensure_forwarding is asked for, so that the  *)
(* rules and requires_*_forwarding resolve an automatic family alike       *)
(* (lib.rs effective).  It says nothing of what the sysctls are.           *)
ForwardingRequired ==
    \A f \in flows : f.by # NoPlan =>
        FamilyOf[f.to] = FamilyOf[f.packet.dst] /\ FamilyOf[f.to] \in required

(* A table that was just applied is never reported as drifted: each rule   *)
(* id and protocol has the number of counter rules that status expects     *)
(* (nft.rs:159-165, 181).                                                  *)
FreshTableMatches ==
    \A p \in plans : Cardinality(Commented(plans, p)) = Expected(p)
===============================================================================
