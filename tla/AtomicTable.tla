----------------------------- MODULE AtomicTable -----------------------------
(***************************************************************************)
(* What the callers of the NftController trait rely on: apply(config)      *)
(* replaces the managed table as a whole or leaves it alone (README.md:13, *)
(* "sends one nftables Netlink batch").  Width processes apply on their    *)
(* own: of one of them the table is missing or implements one              *)
(* configuration; each further process may add to a table instead, once.   *)
(* NftTable (the controllers alone) and ApplyPipeline (all that handlers,  *)
(* commands and the host do to the table) both implement this.             *)
(***************************************************************************)
EXTENDS Naturals, Sequences

CONSTANTS Configs, Width

VARIABLE table  \* the configurations whose rules it holds; <<>>: no table

Replace(config) == table' = <<config>>

Remove == table' = <<>>

Merge(config) ==
    /\ table # <<>> /\ Len(table) < Width
    /\ table' = Append(table, config)

Init == table = <<>>

Next == Remove \/ \E config \in Configs : Replace(config) \/ Merge(config)

Spec == Init /\ [][Next]_table
==============================================================================
