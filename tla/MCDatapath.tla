------------------------------ MODULE MCDatapath ------------------------------
(* An instance of Datapath for TLC: ports 0 to 6, of which 1 is the SSH    *)
(* port; two clients, one of them in the narrower of two networks; a host  *)
(* with two addresses and two interfaces; a target in each family.         *)
EXTENDS Datapath, TLC

CONSTANTS client, peer, host, alias, target, host6, target6, eth0, eth1

MCAddresses == {client, peer, host, alias, target, host6, target6}
MCFamilyOf == [a \in MCAddresses |-> IF a \in {host6, target6} THEN "ipv6" ELSE "ipv4"]

wide == [base |-> client, hosts |-> {client, peer}]
narrow == [base |-> peer, hosts |-> {peer}]

MCNetworks == {wide, narrow}

MCPackets ==
    {[src |-> s, dst |-> d, interface |-> i, protocol |-> "tcp", dport |-> n] :
       s \in {client, peer}, d \in {host, alias}, i \in {eth0, eth1}, n \in 1 .. 4}
    \cup {[src |-> client, dst |-> d, interface |-> eth0, protocol |-> p, dport |-> 5] :
            d \in {host, target}, p \in {"tcp", "udp"}}
    \cup {[src |-> host6, dst |-> host6, interface |-> eth0, protocol |-> "tcp", dport |-> 2]}

range(first, last) == [start |-> first, end |-> last]

(* Two ports, forwarded one-to-one.                                        *)
pair == [id |-> 1, enabled |-> TRUE, order |-> 1, allow_ssh_conflict |-> FALSE,
         family |-> "ipv4", listen_address |-> "any", listen_interface |-> "any",
         source_cidrs |-> <<>>, protocols |-> {"tcp"}, listen_port |-> range(2, 3),
         target_ip |-> target, target_port |-> range(5, 6), snat |-> "masquerade"]

off == [pair EXCEPT !.enabled = FALSE, !.id = 4]
from_wide == [pair EXCEPT !.source_cidrs = <<wide, narrow>>, !.listen_interface = eth0]
from_client == [pair EXCEPT !.id = 3, !.source_cidrs = <<wide>>, !.snat = "none"]
from_narrow == [pair EXCEPT !.id = 2, !.source_cidrs = <<narrow>>, !.target_port = range(5, 5)]
on_eth1 == [pair EXCEPT !.id = 2, !.listen_interface = eth1, !.snat = "none"]
on_alias == [pair EXCEPT !.id = 3, !.order = 0, !.listen_address = alias, !.snat = alias]
hopping == [pair EXCEPT !.id = 2, !.listen_port = range(3, 4), !.target_port = range(5, 5),
                        !.snat = "none", !.protocols = Protocols]
last == [pair EXCEPT !.id = 3, !.listen_port = range(4, 5), !.target_port = range(3, 4),
                     !.protocols = Protocols, !.snat = "none"]
short == [pair EXCEPT !.id = 3, !.listen_port = range(3, 5)]
over_ssh == [pair EXCEPT !.id = 3, !.listen_port = range(1, 1), !.target_port = range(5, 5),
                         !.allow_ssh_conflict = TRUE]
onto_ssh == [over_ssh EXCEPT !.allow_ssh_conflict = FALSE]
v6 == [pair EXCEPT !.id = 4, !.family = "auto", !.target_ip = target6]
mixed == [v6 EXCEPT !.family = "ipv4"]

Pool == {pair, off, from_wide, from_client, from_narrow, on_eth1, on_alias, hopping, last,
         short, over_ssh, onto_ssh, v6, mixed}

MCConfigs == {<<>>} \cup {<<r>> : r \in Pool} \cup {<<r, s>> : r, s \in Pool}

line(key, value) == [key |-> key, value |-> value]
MCSshFiles == {{}, {line("port", 4), line("#port", 2), line("port", 7)}}
===============================================================================
