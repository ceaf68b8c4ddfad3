------------------------------- MODULE NftTable -------------------------------
(***************************************************************************)
(* NftnlController::apply (nft.rs) as the kernel calls it makes.  The      *)
(* controller's mutex belongs to a process, the table to the host: the     *)
(* daemon and every portalisd command are processes of their own, and      *)
(* nothing keeps one from changing the table between another's listing of  *)
(* the tables and its batch.  status and table_snapshot only read, under   *)
(* the same mutex, and are left out but for the drift check.               *)
(***************************************************************************)
EXTENDS DriftCheck

CONSTANTS
    Configs,     \* the configurations told apart
    Callers,     \* threads that call a controller
    ProcessOf,   \* the process of each
    NoCaller

ASSUME CallersAssumption ==
    /\ NoCaller \notin Callers
    /\ DOMAIN ProcessOf = Callers
    /\ IsFiniteSet(Callers)
ASSUME RulesAssumption == RulesOf \in [Configs -> [Keys -> Nat]]

Processes == {ProcessOf[a] : a \in Callers}

VARIABLES
    table,    \* the batches whose rules the table holds; <<>>: no table
    holder,   \* who holds the mutex of each process
    pc,       \* where each caller is
    config,   \* the configuration it was called with
    hadTable  \* what list_tables told it

vars == <<table, holder, pc, config, hadTable>>

Goto(a, l) == pc' = [pc EXCEPT ![a] = l]

Unlock(a) == /\ Goto(a, "idle")
             /\ holder' = [holder EXCEPT ![ProcessOf[a]] = NoCaller]

Call(a, c) ==
    /\ pc[a] = "idle"
    /\ Goto(a, "lock")
    /\ config' = [config EXCEPT ![a] = c]
    /\ UNCHANGED <<table, holder, hadTable>>

(* Mutant: the mutex is not taken.                                         *)
LockFree(a) ==
    /\ pc[a] = "lock"
    /\ holder' = [holder EXCEPT ![ProcessOf[a]] = a]
    /\ Goto(a, "list")
    /\ UNCHANGED <<table, config, hadTable>>

Lock(a) ==
    /\ pc[a] = "lock"
    /\ holder[ProcessOf[a]] = NoCaller
    /\ holder' = [holder EXCEPT ![ProcessOf[a]] = a]
    /\ Goto(a, "list")
    /\ UNCHANGED <<table, config, hadTable>>

List(a) ==
    /\ pc[a] = "list"
    /\ \/ /\ hadTable' = [hadTable EXCEPT ![a] = table # <<>>]
          /\ Goto(a, "send") /\ UNCHANGED holder
       \/ Unlock(a) /\ UNCHANGED hadTable
    /\ UNCHANGED <<table, config>>

(* The batch deletes the table if it was listed, adds it, its chains and   *)
(* the rules.  The kernel takes it as a whole or refuses it as a whole: it *)
(* must refuse to delete what is not there, may refuse for other reasons,  *)
(* and adding a table or a chain that exists changes nothing.              *)
Send(a) ==
    /\ pc[a] = "send"
    /\ \/ hadTable[a] /\ table # <<>> /\ table' = <<config[a]>>
       \/ ~hadTable[a] /\ table' = Append(table, config[a])
       \/ UNCHANGED table
    /\ Unlock(a)
    /\ UNCHANGED <<config, hadTable>>

(* Another program, or a reboot of which only the table matters here.      *)
TableRemoved ==
    /\ table # <<>>
    /\ table' = <<>>
    /\ UNCHANGED <<holder, pc, config, hadTable>>

ProcessEnds(p) ==
    /\ \E a \in Callers : ProcessOf[a] = p /\ pc[a] # "idle"
    /\ holder' = [holder EXCEPT ![p] = NoCaller]
    /\ pc' = [a \in Callers |-> IF ProcessOf[a] = p THEN "idle" ELSE pc[a]]
    /\ UNCHANGED <<table, config, hadTable>>

------------------------------------------------------------------------------
Init ==
    /\ table = <<>>
    /\ holder = [p \in Processes |-> NoCaller]
    /\ pc = [a \in Callers |-> "idle"]
    /\ config \in [Callers -> Configs]
    /\ hadTable = [a \in Callers |-> FALSE]

Next ==
    \/ \E a \in Callers : \/ \E c \in Configs : Call(a, c)
                          \/ Lock(a) \/ List(a) \/ Send(a)
    \/ \E p \in Processes : ProcessEnds(p)
    \/ TableRemoved

Spec == Init /\ [][Next]_vars

------------------------------------------------------------------------------
(* The types of the five variables; proved in NftTableProofs.              *)
TypeOK ==
    /\ table \in Seq(Configs)
    /\ holder \in [Processes -> Callers \cup {NoCaller}]
    /\ pc \in [Callers -> {"idle", "lock", "list", "send"}]
    /\ config \in [Callers -> Configs]
    /\ hadTable \in [Callers -> BOOLEAN]

(* A table holds at most one batch of each process: two may merge theirs   *)
(* when both saw no table, and no process adds to a merge twice, since its *)
(* next apply lists the table and replaces it.                             *)
MergeBounded == Len(table) <= Cardinality(Processes)

Atomic == INSTANCE AtomicTable WITH Width <- Cardinality(Processes)

(* "Apply changes the kernel atomically" (web/src/main.tsx:1584): apply    *)
(* replaces the table as a whole, but that each further process may have   *)
(* added its batch to it (nft.rs apply, api.rs callers).  ApplyPipeline,   *)
(* which lists and sends in two steps as well, implements the same table.  *)
AtomicSpec == Atomic!Spec

(* A merge of two configurations that have rules is never taken for one of *)
(* them: status reports drift, so that a restart or the next apply of the  *)
(* active draft replaces it (nft.rs:181, app.rs:47-52, api.rs:355-357).    *)
MergeIsDrift ==
    \A i, j \in DOMAIN table :
        i # j /\ HasRules(table[j]) => Drifted(table, table[i])
===============================================================================
