---------------------------- MODULE NftTableProofs ----------------------------
(***************************************************************************)
(* Theorems about NftTable, for any number of callers and processes.       *)
(***************************************************************************)
EXTENDS NftTable, FiniteSetTheorems, TLAPS

Holding == {"list", "send"}

(* A caller at work holds the mutex of its process.                        *)
LockInv == \A a \in Callers : pc[a] \in Holding => holder[ProcessOf[a]] = a

(* Every step keeps the types and the mutex.                               *)
LEMMA LockStep == TypeOK /\ LockInv /\ [Next]_vars => TypeOK' /\ LockInv'
  <1> SUFFICES ASSUME TypeOK, LockInv, [Next]_vars PROVE TypeOK' /\ LockInv'
    OBVIOUS
  <1> USE CallersAssumption DEF TypeOK, LockInv, Holding, Processes
  <1>1. ASSUME NEW a \in Callers, NEW c \in Configs, Call(a, c)
        PROVE  TypeOK' /\ LockInv'
    BY <1>1 DEF Call, Goto
  <1>2. ASSUME NEW a \in Callers, Lock(a) PROVE TypeOK' /\ LockInv'
    BY <1>2 DEF Lock, Goto
  <1>3. ASSUME NEW a \in Callers, List(a) PROVE TypeOK' /\ LockInv'
    <2>1. CASE /\ hadTable' = [hadTable EXCEPT ![a] = table # <<>>]
               /\ Goto(a, "send") /\ UNCHANGED holder
      <3>1. (table # <<>>) \in BOOLEAN
        OBVIOUS
      <3>2. hadTable' \in [Callers -> BOOLEAN]
        BY <2>1, <3>1
      <3> QED BY <1>3, <2>1, <3>2 DEF List, Goto
    <2>2. CASE Unlock(a) /\ UNCHANGED hadTable
      BY <1>3, <2>2 DEF List, Goto, Unlock
    <2> QED BY <1>3, <2>1, <2>2 DEF List
  <1>4. ASSUME NEW a \in Callers, Send(a) PROVE TypeOK' /\ LockInv'
    <2>1. table' \in Seq(Configs)
      <3>1. config[a] \in Configs
        OBVIOUS
      <3>2. <<config[a]>> \in Seq(Configs) /\ Append(table, config[a]) \in Seq(Configs)
        BY <3>1
      <3> QED BY <1>4, <3>2 DEF Send
    <2> QED BY <1>4, <2>1 DEF Send, Goto, Unlock
  <1>5. ASSUME NEW p \in Processes, ProcessEnds(p) PROVE TypeOK' /\ LockInv'
    BY <1>5 DEF ProcessEnds
  <1>6. CASE TableRemoved
    BY <1>6 DEF TableRemoved
  <1>7. CASE UNCHANGED vars
    BY <1>7 DEF vars
  <1> QED BY <1>1, <1>2, <1>3, <1>4, <1>5, <1>6, <1>7 DEF Next

(* Every variable keeps its type and a caller at work holds its mutex.     *)
THEOREM LockCorrect == Spec => [](TypeOK /\ LockInv)
  <1>1. Init => TypeOK /\ LockInv
    BY CallersAssumption DEF Init, TypeOK, LockInv, Holding, Processes
  <1> QED BY <1>1, LockStep, PTL DEF Spec

------------------------------------------------------------------------------
(* The processes about to add a batch without deleting the table.          *)
Adding == {ProcessOf[a] : a \in {b \in Callers : pc[b] = "send" /\ ~hadTable[b]}}

(* Every batch in the table came from a process that is no longer adding.  *)
MergeInv == table # <<>> => Len(table) + Cardinality(Adding) <= Cardinality(Processes)

(* There are finitely many processes, and a set of some of them has fewer  *)
(* members the fewer there are in it.                                      *)
LEMMA FewerProcesses ==
    /\ Cardinality(Processes) \in Nat
    /\ \A S \in SUBSET Processes :
         /\ Cardinality(S) \in Nat
         /\ Cardinality(S) <= Cardinality(Processes)
         /\ \A T \in SUBSET S : Cardinality(T) <= Cardinality(S)
         /\ \A p \in S : \A T \in SUBSET (S \ {p}) : Cardinality(T) + 1 <= Cardinality(S)
  <1>1. IsFiniteSet(Processes)
    <2> DEFINE f == [a \in Callers |-> ProcessOf[a]]
    <2>1. f \in Surjection(Callers, Processes)
      BY DEF Surjection, Processes
    <2> HIDE DEF f
    <2> QED BY <2>1, CallersAssumption, FS_Surjection
  <1>2. \A S \in SUBSET Processes : IsFiniteSet(S)
    BY <1>1, FS_Subset
  <1>3. \A S \in SUBSET Processes : Cardinality(S) \in Nat
    BY <1>2, FS_CardinalityType
  <1>4. \A S \in SUBSET Processes : \A T \in SUBSET S : Cardinality(T) <= Cardinality(S)
    BY <1>2, FS_Subset
  <1>5. ASSUME NEW S \in SUBSET Processes, NEW p \in S, NEW T \in SUBSET (S \ {p})
        PROVE  Cardinality(T) + 1 <= Cardinality(S)
    <2>1. Cardinality(S \ {p}) = Cardinality(S) - 1
      BY <1>2, FS_RemoveElement
    <2>2. Cardinality(T) <= Cardinality(S \ {p})
      BY <1>4
    <2> QED BY <1>3, <2>1, <2>2
  <1> QED BY <1>3, <1>4, <1>5

(* Every step keeps it.                                                    *)
LEMMA MergeStep == TypeOK /\ LockInv /\ MergeInv /\ [Next]_vars => MergeInv'
  <1> SUFFICES ASSUME TypeOK, LockInv, MergeInv, [Next]_vars, table' # <<>>
               PROVE  Len(table') + Cardinality(Adding') <= Cardinality(Processes)
    BY DEF MergeInv, Processes
  <1>0. /\ Adding \subseteq Processes /\ Adding' \subseteq Processes
        /\ Len(table) \in Nat /\ Cardinality(Adding') \in Nat
        /\ Cardinality(Adding) \in Nat
    <2>1. Adding \subseteq Processes /\ Adding' \subseteq Processes
      BY DEF Adding, Processes
    <2> QED BY <2>1, FewerProcesses DEF TypeOK
  <1>1. ASSUME table' = table, Adding' \subseteq Adding
        PROVE  Len(table') + Cardinality(Adding') <= Cardinality(Processes)
    BY <1>0, <1>1, FewerProcesses DEF MergeInv
  <1>2. ASSUME NEW a \in Callers, NEW c \in Configs, Call(a, c)
        PROVE  table' = table /\ Adding' \subseteq Adding
    BY <1>2 DEF Call, Goto, Adding, TypeOK
  <1>3. ASSUME NEW a \in Callers, Lock(a)
        PROVE  table' = table /\ Adding' \subseteq Adding
    BY <1>3 DEF Lock, Goto, Adding, TypeOK
  <1>4. ASSUME NEW a \in Callers, List(a)
        PROVE  table' = table /\ Adding' \subseteq Adding
    <2>1. table' = table /\ table # <<>>
      BY <1>4 DEF List
    <2>2. \A b \in Callers : pc'[b] = "send" /\ ~hadTable'[b]
                                => pc[b] = "send" /\ ~hadTable[b]
      <3>1. CASE /\ hadTable' = [hadTable EXCEPT ![a] = table # <<>>]
                 /\ Goto(a, "send")
        BY <2>1, <3>1 DEF Goto, TypeOK
      <3>2. CASE Unlock(a) /\ UNCHANGED hadTable
        BY <3>2 DEF Unlock, Goto, TypeOK
      <3> QED BY <1>4, <3>1, <3>2 DEF List
    <2> QED BY <2>1, <2>2 DEF Adding
  <1>5. ASSUME NEW a \in Callers, Send(a)
        PROVE  Len(table') + Cardinality(Adding') <= Cardinality(Processes)
    <2>1. pc[a] = "send" /\ pc' = [pc EXCEPT ![a] = "idle"] /\ hadTable' = hadTable
      BY <1>5 DEF Send, Unlock, Goto
    <2>2. \A b \in Callers : pc'[b] = "send" => b # a /\ pc[b] = "send"
      BY <2>1 DEF TypeOK
    <2>3. \A b \in Callers : pc'[b] = "send" => ProcessOf[b] # ProcessOf[a]
      BY <2>1, <2>2 DEF LockInv, Holding
    <2>4. Adding' \subseteq Adding \ {ProcessOf[a]}
      BY <2>1, <2>2, <2>3 DEF Adding
    <2>5. Cardinality(Adding') + 1 <= Cardinality(Processes)
      <3>1. ProcessOf[a] \in Processes
        BY DEF Processes
      <3> QED BY <1>0, <2>4, <3>1, FewerProcesses
    <2>6. CASE table' = <<config[a]>>
      BY <1>0, <2>5, <2>6
    <2>7. CASE ~hadTable[a] /\ table' = Append(table, config[a])
      <3>1. Len(table') = Len(table) + 1
        BY <2>7 DEF TypeOK
      <3>2. ProcessOf[a] \in Adding
        BY <2>1, <2>7 DEF Adding
      <3>3. Cardinality(Adding') + 1 <= Cardinality(Adding)
        BY <1>0, <2>4, <3>2, FewerProcesses
      <3>4. CASE table = <<>>
        BY <1>0, <2>5, <3>1, <3>4
      <3>5. CASE table # <<>>
        BY <1>0, <3>1, <3>3, <3>5, FewerProcesses DEF MergeInv
      <3> QED BY <3>4, <3>5
    <2>8. CASE table' = table
      BY <1>1, <2>4, <2>8
    <2> QED BY <1>5, <2>6, <2>7, <2>8 DEF Send
  <1>6. ASSUME NEW p \in Processes, ProcessEnds(p)
        PROVE  table' = table /\ Adding' \subseteq Adding
    BY <1>6 DEF ProcessEnds, Adding
  <1>7. ~TableRemoved
    BY DEF TableRemoved
  <1>8. CASE UNCHANGED vars
    BY <1>1, <1>8 DEF vars, Adding
  <1> QED BY <1>1, <1>2, <1>3, <1>4, <1>5, <1>6, <1>7, <1>8 DEF Next

(* However processes interleave, a table holds at most one batch of each.  *)
THEOREM MergeBoundedHolds == Spec => []MergeBounded
  <1>1. Init => MergeInv
    BY DEF Init, MergeInv
  <1>2. TypeOK /\ MergeInv => MergeBounded
    <2> SUFFICES ASSUME TypeOK, MergeInv PROVE MergeBounded
      OBVIOUS
    <2>1. Len(table) \in Nat /\ (table = <<>> => Len(table) = 0)
      BY DEF TypeOK
    <2>2. Adding \subseteq Processes
      BY DEF Adding, Processes
    <2> QED BY <2>1, <2>2, FewerProcesses DEF MergeInv, MergeBounded
  <1> QED BY <1>1, <1>2, MergeStep, LockCorrect, PTL DEF Spec

(* Every step replaces the table, removes it, leaves it alone, or adds one *)
(* batch where there is room for one more.                                 *)
LEMMA AtomicStep ==
    ASSUME TypeOK, LockInv, MergeInv, [Next]_vars
    PROVE  [Atomic!Next]_table
  <1> USE DEF Atomic!Next, Atomic!Replace, Atomic!Merge, Atomic!Remove
  <1>1. ASSUME NEW a \in Callers, Send(a) PROVE [Atomic!Next]_table
    <2>1. config[a] \in Configs
      BY DEF TypeOK
    <2>2. CASE table' = <<config[a]>>
      BY <2>1, <2>2
    <2>3. CASE ~hadTable[a] /\ table' = Append(table, config[a])
      <3>1. CASE table = <<>>
        <4>1. Append(<<>>, config[a]) = <<config[a]>>
          OBVIOUS
        <4> QED BY <2>1, <2>3, <3>1, <4>1
      <3>2. CASE table # <<>>
        <4>1. ProcessOf[a] \in Adding /\ Adding \subseteq Processes
          BY <1>1, <2>3 DEF Send, Adding, Processes
        <4>2. Cardinality({}) + 1 <= Cardinality(Adding)
          BY <4>1, FewerProcesses
        <4>3. Len(table) < Cardinality(Processes)
          BY <3>2, <4>1, <4>2, FewerProcesses, FS_EmptySet DEF MergeInv, TypeOK
        <4> QED BY <2>1, <2>3, <3>2, <4>3
      <3> QED BY <3>1, <3>2
    <2>4. CASE table' = table
      BY <2>4
    <2> QED BY <1>1, <2>2, <2>3, <2>4 DEF Send
  <1>2. ASSUME NEW a \in Callers, NEW c \in Configs,
               Call(a, c) \/ Lock(a) \/ List(a)
        PROVE  table' = table
    BY <1>2 DEF Call, Lock, List
  <1>3. ASSUME NEW a \in Callers, Lock(a) \/ List(a)
        PROVE  table' = table
    BY <1>3 DEF Lock, List
  <1>4. ASSUME NEW p \in Processes, ProcessEnds(p)
        PROVE  table' = table
    BY <1>4 DEF ProcessEnds
  <1>5. CASE TableRemoved
    BY <1>5 DEF TableRemoved
  <1>6. CASE UNCHANGED vars
    BY <1>6 DEF vars
  <1> QED BY <1>1, <1>2, <1>3, <1>4, <1>5, <1>6 DEF Next

(* The controllers of any number of processes implement AtomicTable of     *)
(* that width, whatever is refused, ends or is removed from outside.  Of a *)
(* single process the table is replaced atomically.                        *)
THEOREM ControllersAreAtomic == Spec => AtomicSpec
  <1>1. Init => MergeInv /\ Atomic!Init
    BY DEF Init, MergeInv, Atomic!Init
  <1>2. TypeOK /\ LockInv /\ MergeInv /\ [Next]_vars => [Atomic!Next]_table
    BY AtomicStep
  <1> QED BY <1>1, <1>2, MergeStep, LockCorrect, PTL DEF Spec, AtomicSpec, Atomic!Spec

------------------------------------------------------------------------------
(* The rules of one batch in a dump are as many as it installs.            *)
LEMMA BatchRules ==
    ASSUME NEW i, NEW n \in Nat
    PROVE  IsFiniteSet({i} \X (1 .. n)) /\ Cardinality({i} \X (1 .. n)) = n
  <1>1. IsFiniteSet(1 .. n) /\ Cardinality(1 .. n) = n
    BY FS_Interval
  <1>2. IsFiniteSet({i}) /\ Cardinality({i}) = 1
    BY FS_Singleton
  <1>3. /\ IsFiniteSet({i} \X (1 .. n))
        /\ Cardinality({i} \X (1 .. n)) = Cardinality({i}) * Cardinality(1 .. n)
    BY <1>1, <1>2, FS_Product
  <1> QED BY <1>1, <1>2, <1>3

(* A dump is finite.                                                       *)
LEMMA DumpFinite ==
    ASSUME NEW t \in Seq(Configs), NEW k \in Keys
    PROVE  IsFiniteSet(Dump(t, k))
  <1> DEFINE R(i) == {i} \X (1 .. RulesOf[t[i]][k])
             S == {R(i) : i \in DOMAIN t}
             f == [i \in DOMAIN t |-> R(i)]
  <1>1. IsFiniteSet(DOMAIN t)
    <2>1. DOMAIN t = 1 .. Len(t) /\ Len(t) \in Nat
      OBVIOUS
    <2> QED BY <2>1, FS_Interval
  <1>2. f \in Surjection(DOMAIN t, S)
    BY DEF Surjection
  <1>3. IsFiniteSet(S)
    <2> HIDE DEF f, S
    <2> QED BY <1>1, <1>2, FS_Surjection
  <1>4. \A T \in S : IsFiniteSet(T)
    <2> SUFFICES ASSUME NEW i \in DOMAIN t PROVE IsFiniteSet(R(i))
      OBVIOUS
    <2>1. t[i] \in Configs
      OBVIOUS
    <2>2. RulesOf[t[i]][k] \in Nat
      BY <2>1, RulesAssumption
    <2> QED BY <2>2, BatchRules
  <1>5. IsFiniteSet(UNION S)
    <2> HIDE DEF S
    <2> QED BY <1>3, <1>4, FS_UNION
  <1> QED BY <1>5 DEF Dump

(* A table that holds the rules of another batch has more rules of some    *)
(* key than the batch it is compared with.                                 *)
LEMMA MergeHasMore ==
    ASSUME TypeOK, NEW i \in DOMAIN table, NEW j \in DOMAIN table, i # j,
           NEW k \in Keys, RulesOf[table[j]][k] > 0
    PROVE  Observed(table, k) # RulesOf[table[i]][k]
  <1> DEFINE n == RulesOf[table[i]][k]
             A == {i} \X (1 .. n)
             D == Dump(table, k)
  <1>1. table \in Seq(Configs) /\ table[i] \in Configs /\ table[j] \in Configs
    BY DEF TypeOK
  <1>2. n \in Nat /\ RulesOf[table[j]][k] \in Nat
    BY <1>1, RulesAssumption
  <1>3. Cardinality(A) = n /\ IsFiniteSet(D)
    BY <1>1, <1>2, BatchRules, DumpFinite
  <1>4. A \subseteq D /\ <<j, 1>> \in D
    <2>1. 1 \in 1 .. RulesOf[table[j]][k]
      BY <1>2
    <2>2. <<j, 1>> \in {j} \X (1 .. RulesOf[table[j]][k])
      BY <2>1
    <2> QED BY <2>2 DEF Dump
  <1>5. A # D
    BY <1>4
  <1>6. Cardinality(D) # Cardinality(A)
    <2> HIDE DEF A, D
    <2> QED BY <1>3, <1>4, <1>5, FS_Subset
  <1> QED BY <1>3, <1>6 DEF Observed

(* However many batches a table holds, it is reported as drifted from each *)
(* of them, for any number of rules of any keys.                           *)
THEOREM MergeIsDriftHolds == Spec => []MergeIsDrift
  <1>1. TypeOK => MergeIsDrift
    <2> SUFFICES ASSUME TypeOK, NEW i \in DOMAIN table, NEW j \in DOMAIN table,
                        i # j, HasRules(table[j])
                 PROVE  Drifted(table, table[i])
      BY DEF MergeIsDrift
    <2>1. PICK k \in Keys : RulesOf[table[j]][k] > 0
      BY DEF HasRules
    <2>2. Observed(table, k) # RulesOf[table[i]][k]
      BY <2>1, MergeHasMore
    <2> QED BY <2>2 DEF Drifted
  <1> QED BY <1>1, LockCorrect, PTL
===============================================================================
