--------------------------- MODULE MCApplyPipeline ---------------------------
(* Instances of ApplyPipeline for TLC: the empty configuration, one that   *)
(* needs IPv4 forwarding and one that needs both families.                 *)
EXTENDS ApplyPipeline, TLC

CONSTANTS empty, v4, dual, r1, r2, c1, preSsh, postSsh

MCConfigs == {empty, v4, dual}
MCFamilies == {"ipv4", "ipv6"}
MCNeeds == (empty :> {}) @@ (v4 :> {"ipv4"}) @@ (dual :> {"ipv4", "ipv6"})

(* One rule id and protocol; dual has two sources for it, so that status() *)
(* tells every two configurations apart, but not dual from v4 twice.       *)
MCKeys == {"web"}
DistinctRules == (empty :> [k \in MCKeys |-> 0]) @@ (v4 :> [k \in MCKeys |-> 2])
              @@ (dual :> [k \in MCKeys |-> 4])
(* v4 and dual have the same rule ids and counts and differ in the target  *)
EqualRules == (empty :> [k \in MCKeys |-> 0]) @@ (v4 :> [k \in MCKeys |-> 2])
           @@ (dual :> [k \in MCKeys |-> 2])

OneSsh == {preSsh}
TwoSsh == {preSsh, postSsh}
(* when sshd moves to a port that dual listens on, dual is refused         *)
MCValidIn == (preSsh :> MCConfigs) @@ (postSsh :> MCConfigs \ {dual})
AllValid == (preSsh :> MCConfigs)

RequestSymmetry == Permutations({r1, r2})
==============================================================================
