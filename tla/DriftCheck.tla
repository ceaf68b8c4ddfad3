------------------------------ MODULE DriftCheck ------------------------------
(***************************************************************************)
(* KernelStatus.drifted (nft.rs status), over a managed table given as the *)
(* sequence of configurations whose batches it holds.                      *)
(***************************************************************************)
EXTENDS Naturals, FiniteSets, Sequences

CONSTANTS
    Keys,        \* the (rule id, protocol) pairs of the plans
    RulesOf      \* how many forward counter rules a configuration has of each

(* aggregate_rule_counters: the rules of a key in a dump of table t, and   *)
(* how many they are.                                                      *)
Dump(t, k) == UNION {{i} \X (1 .. RulesOf[t[i]][k]) : i \in DOMAIN t}

Observed(t, k) == Cardinality(Dump(t, k))

(* Mutant: the keys are compared and not how many rules each has.          *)
DriftedByKeys(t, c) ==
    {k \in Keys : Observed(t, k) > 0} # {k \in Keys : RulesOf[c][k] > 0}

(* An absent table counts as one without rules.                            *)
Drifted(t, c) == \E k \in Keys : Observed(t, k) # RulesOf[c][k]

HasRules(c) == \E k \in Keys : RulesOf[c][k] > 0
===============================================================================
