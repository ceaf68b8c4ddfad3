------------------------------ MODULE MCNftTable ------------------------------
(* An instance of NftTable for TLC: two configurations that share a rule   *)
(* id; the second adds another.                                            *)
EXTENDS NftTable, TLC

CONSTANTS one, two, a1, a2, a3, a4, daemon, cli, cli2

MCKeys == {"web", "dns"}
MCRulesOf == (one :> [k \in MCKeys |-> IF k = "web" THEN 2 ELSE 0])
          @@ (two :> [k \in MCKeys |-> 2])

(* two handlers of the daemon, two commands                                *)
ThreeProcesses == (a1 :> daemon) @@ (a2 :> daemon) @@ (a3 :> cli) @@ (a4 :> cli2)
===============================================================================
