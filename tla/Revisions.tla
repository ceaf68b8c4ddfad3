------------------------------ MODULE Revisions ------------------------------
(***************************************************************************)
(* The revisions table of portalisd (db.rs) as a sequence: position i is   *)
(* the row with the i-th smallest created_at.  A row is a configuration    *)
(* saved as a draft or marked active; rows are never deleted.  The model   *)
(* assumes that created_at grows with the order of insertion, i.e. that    *)
(* the wall clock does not step back between two inserts.                  *)
(***************************************************************************)
EXTENDS Naturals, Sequences

CONSTANTS Configs,   \* the configurations told apart (a Config of portalis-core)
          Default    \* Config::default(): no rules at all

ASSUME DefaultAssumption == Default \in Configs

(* struct Revision: what later steps read of a row.  failed stands for     *)
(* apply_error being set.                                                  *)
Revision == [kind : {"draft", "active"}, config : Configs, failed : BOOLEAN]

(* Mutant: mark_active writes its audit action where the kind belongs.     *)
RowOfAction(kind, config) ==
    [kind |-> IF kind = "active" THEN "apply" ELSE kind,
     config |-> config, failed |-> FALSE]

Row(kind, config) == [kind |-> kind, config |-> config, failed |-> FALSE]

(* latest_revision: ORDER BY created_at DESC LIMIT 1                       *)
Latest(revs, kind) ==
    {i \in DOMAIN revs : /\ revs[i].kind = kind
                         /\ \A j \in DOMAIN revs : j > i => revs[j].kind # kind}

Has(revs, kind) == Latest(revs, kind) # {}

LatestIndex(revs, kind) == CHOOSE i \in Latest(revs, kind) : TRUE

LatestConfig(revs, kind) == revs[LatestIndex(revs, kind)].config

(* active_config().unwrap_or_default()                                     *)
ActiveConfig(revs) ==
    IF Has(revs, "active") THEN LatestConfig(revs, "active") ELSE Default

(* Mutant: the row is updated in place instead of a new one inserted.      *)
Overwrite(revs, kind, config) ==
    IF revs = <<>> THEN <<Row(kind, config)>>
                   ELSE [revs EXCEPT ![Len(revs)] = Row(kind, config)]

(* save_draft and mark_active insert a row; the id is its position here.   *)
Insert(revs, kind, config) == Append(revs, Row(kind, config))

(* mark_apply_error updates one row in place.                              *)
FlagError(revs, id) == [revs EXCEPT ![id].failed = TRUE]
==============================================================================
