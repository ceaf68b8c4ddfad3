---------------------------- MODULE BackupsProofs ----------------------------
(***************************************************************************)
(* What holds of Backups for every value of its constants: any number of   *)
(* buckets, revisions, requests and faults.  First what uploads and        *)
(* deletions do to the objects of a bucket, then what a step does to the   *)
(* state of one actor; the invariants follow from those.                   *)
(***************************************************************************)
EXTENDS Backups, SequenceLemmas, FiniteSetTheorems

USE ActorsAssumption, ConfigsAssumption, BucketsAssumption, BoundsAssumption,
    RevisionsAssumption

------------------------------------------------------------------------------
(* The objects of a bucket.                                                *)

NamesOf(bucket) == {bucket[i].revision : i \in DOMAIN bucket}

(* No name is used twice.                                                  *)
Distinct(bucket) ==
    \A i, j \in DOMAIN bucket : bucket[i].revision = bucket[j].revision => i = j

(* An object that is deleted is gone, and the others move up.              *)
LEMMA WithoutRows ==
    ASSUME NEW S, NEW bucket \in Seq(S), Distinct(bucket), NEW r
    PROVE  LET rest == Without(bucket, r) IN
           /\ rest \in Seq(S) /\ Distinct(rest)
           /\ NamesOf(rest) = NamesOf(bucket) \ {r}
           /\ \A p \in DOMAIN rest :
                \E q \in DOMAIN bucket : p <= q /\ rest[p] = bucket[q]
  <1>0. DOMAIN bucket = 1 .. Len(bucket) /\ Len(bucket) \in Nat
    OBVIOUS
  <1>1. CASE \A j \in 1 .. Len(bucket) : bucket[j].revision # r
    <2>1. Without(bucket, r) = bucket
      BY <1>1 DEF Without, RemoveFirstMatch
    <2>2. r \notin NamesOf(bucket)
      BY <1>0, <1>1 DEF NamesOf
    <2>3. \A p \in DOMAIN bucket : p <= p
      BY <1>0
    <2> QED BY <2>1, <2>2, <2>3
  <1>2. ASSUME NEW i \in 1 .. Len(bucket), bucket[i].revision = r
        PROVE  LET rest == Without(bucket, r) IN
               /\ rest \in Seq(S) /\ Distinct(rest)
               /\ NamesOf(rest) = NamesOf(bucket) \ {r}
               /\ \A p \in DOMAIN rest :
                    \E q \in DOMAIN bucket : p <= q /\ rest[p] = bucket[q]
    <2> DEFINE found == {j \in 1 .. Len(bucket) : bucket[j].revision = r}
               rest == RemoveAt(bucket, i)
    <2>1. found = {i}
      BY <1>0, <1>2 DEF Distinct
    <2>2. Min(found) = i
      BY <2>1 DEF Min
    <2>3. SelectInSeq(bucket, LAMBDA o : o.revision = r)
            = IF found # {} THEN Min(found) ELSE 0
      BY DEF SelectInSeq
    <2>4. SelectInSeq(bucket, LAMBDA o : o.revision = r) = i
      BY <2>1, <2>2, <2>3
    <2>5. Without(bucket, r) = rest
      BY <1>2, <2>4 DEF Without, RemoveFirstMatch
    <2>6. /\ rest \in Seq(S) /\ Len(rest) = Len(bucket) - 1
          /\ \A j \in 1 .. Len(bucket) - 1 :
               rest[j] = IF j < i THEN bucket[j] ELSE bucket[j + 1]
      BY RemoveAtRows
    <2> HIDE DEF rest, found
    <2>7. DOMAIN rest = 1 .. Len(bucket) - 1
      BY <1>0, <2>6
    <2>8. \A j, k \in 1 .. Len(bucket) : bucket[j].revision = bucket[k].revision => j = k
      BY <1>0 DEF Distinct
    <2>9. Distinct(rest)
      BY <1>0, <2>6, <2>7, <2>8 DEF Distinct
    <2>10. ASSUME NEW p \in 1 .. Len(bucket) - 1
           PROVE  \E q \in 1 .. Len(bucket) : q # i /\ p <= q /\ rest[p] = bucket[q]
      BY <1>0, <2>6, <2>10
    <2>11. ASSUME NEW q \in 1 .. Len(bucket), q # i
           PROVE  \E p \in 1 .. Len(bucket) - 1 : rest[p] = bucket[q]
      <3>1. CASE q < i
        BY <1>0, <2>6, <3>1
      <3>2. CASE q > i
        <4>1. q - 1 \in 1 .. Len(bucket) - 1 /\ ~(q - 1 < i) /\ (q - 1) + 1 = q
          BY <1>0, <3>2
        <4> QED BY <2>6, <4>1
      <3> QED BY <2>11, <3>1, <3>2
    <2>12. NamesOf(rest) = NamesOf(bucket) \ {r}
      <3>1. NamesOf(bucket) = {bucket[q].revision : q \in 1 .. Len(bucket)}
        BY <1>0 DEF NamesOf
      <3>2. NamesOf(rest) = {rest[p].revision : p \in 1 .. Len(bucket) - 1}
        BY <2>7 DEF NamesOf
      <3>3. \A x \in NamesOf(rest) : x \in NamesOf(bucket) /\ x # r
        BY <1>2, <2>8, <2>10, <3>1, <3>2
      <3>4. \A x \in NamesOf(bucket) : x # r => x \in NamesOf(rest)
        BY <1>2, <2>11, <3>1, <3>2
      <3> QED BY <3>3, <3>4
    <2> QED BY <1>0, <2>5, <2>6, <2>7, <2>9, <2>10, <2>12
  <1> QED BY <1>1, <1>2

Added(bucket, o) == <<o>> \o Without(bucket, o.revision)

(* o is at its head, and every other object moves down by at most one.     *)
PushedBy(new, bucket, o) ==
    \A p \in DOMAIN new :
        \/ p = 1 /\ new[p] = o
        \/ \E q \in DOMAIN bucket : p <= q + 1 /\ new[p] = bucket[q]

(* An object that is uploaded is the newest, whether or not it was there.  *)
LEMMA StoredRows ==
    ASSUME NEW S, NEW bucket \in Seq(S), Distinct(bucket), NEW o \in S
    PROVE  LET new == Added(bucket, o) IN
           /\ new \in Seq(S) /\ Distinct(new)
           /\ NamesOf(new) = NamesOf(bucket) \cup {o.revision}
           /\ PushedBy(new, bucket, o)
  <1> DEFINE rest == Without(bucket, o.revision)
             new == <<o>> \o rest
  <1>1. /\ rest \in Seq(S) /\ Distinct(rest)
        /\ NamesOf(rest) = NamesOf(bucket) \ {o.revision}
        /\ \A p \in DOMAIN rest : \E q \in DOMAIN bucket : p <= q /\ rest[p] = bucket[q]
    BY WithoutRows
  <1> HIDE DEF rest
  <1>2. DOMAIN rest = 1 .. Len(rest) /\ Len(rest) \in Nat /\ DOMAIN bucket \subseteq Nat
    BY <1>1
  <1>3. /\ new \in Seq(S) /\ Len(new) = Len(rest) + 1
        /\ \A p \in 1 .. Len(rest) + 1 : new[p] = IF p = 1 THEN o ELSE rest[p - 1]
    <2>1. <<o>> \in Seq(S) /\ Len(<<o>>) = 1 /\ <<o>>[1] = o
      OBVIOUS
    <2> DEFINE one == <<o>>
    <2> HIDE DEF one
    <2>2. /\ one \o rest \in Seq(S) /\ Len(one \o rest) = Len(one) + Len(rest)
          /\ \A p \in 1 .. Len(one) + Len(rest) :
               (one \o rest)[p] = IF p <= Len(one) THEN one[p] ELSE rest[p - Len(one)]
      BY <1>1, <2>1, ConcatProperties DEF one
    <2>3. one \in Seq(S) /\ Len(one) = 1 /\ one[1] = o
      BY <2>1 DEF one
    <2>4. Len(one) + Len(rest) = Len(rest) + 1
      BY <1>2, <2>3
    <2>5. \A p \in 1 .. Len(rest) + 1 :
            (one \o rest)[p] = IF p = 1 THEN o ELSE rest[p - 1]
      BY <1>2, <2>2, <2>3, <2>4
    <2> QED BY <2>2, <2>4, <2>5 DEF one
  <1> HIDE DEF new
  <1>4. DOMAIN new = 1 .. Len(rest) + 1
    BY <1>2, <1>3
  <1>5. ASSUME NEW p \in DOMAIN new, p # 1
        PROVE  p - 1 \in DOMAIN rest /\ new[p] = rest[p - 1]
    BY <1>2, <1>3, <1>4, <1>5
  <1>6. 1 \in DOMAIN new /\ new[1] = o
    BY <1>2, <1>3, <1>4
  <1>7. \A p \in DOMAIN rest : rest[p].revision # o.revision
    BY <1>1 DEF NamesOf
  <1>8. Distinct(new)
    <2> SUFFICES ASSUME NEW i \in DOMAIN new, NEW j \in DOMAIN new,
                        new[i].revision = new[j].revision
                 PROVE  i = j
      BY DEF Distinct
    <2>1. CASE i = 1 \/ j = 1
      BY <1>5, <1>6, <1>7, <2>1
    <2>2. CASE i # 1 /\ j # 1
      <3>1. i - 1 = j - 1
        BY <1>1, <1>5, <2>2 DEF Distinct
      <3> QED BY <1>2, <1>4, <3>1
    <2> QED BY <2>1, <2>2
  <1>9. NamesOf(new) = NamesOf(bucket) \cup {o.revision}
    <2>1. ASSUME NEW x \in NamesOf(new)
          PROVE  x \in NamesOf(rest) \cup {o.revision}
      BY <1>5, <1>6, <2>1 DEF NamesOf
    <2>2. ASSUME NEW x \in NamesOf(rest)
          PROVE  x \in NamesOf(new)
      <3>1. PICK p \in DOMAIN rest : x = rest[p].revision
        BY <2>2 DEF NamesOf
      <3>2. p + 1 \in DOMAIN new /\ new[p + 1] = rest[p]
        BY <1>2, <1>3, <1>4
      <3> QED BY <3>1, <3>2 DEF NamesOf
    <2>3. o.revision \in NamesOf(new)
      BY <1>6 DEF NamesOf
    <2> QED BY <1>1, <2>1, <2>2, <2>3
  <1>10. ASSUME NEW p \in DOMAIN new, p # 1
         PROVE  \E q \in DOMAIN bucket : p <= q + 1 /\ new[p] = bucket[q]
    <2>1. PICK q \in DOMAIN bucket : p - 1 <= q /\ rest[p - 1] = bucket[q]
      BY <1>1, <1>5, <1>10
    <2> QED BY <1>2, <1>4, <1>5, <1>10, <2>1
  <1> QED BY <1>3, <1>6, <1>8, <1>9, <1>10 DEF Added, PushedBy, new, rest

(* It is the first.                                                        *)
LEMMA StoredFirst ==
    ASSUME NEW S, NEW bucket \in Seq(S), Distinct(bucket), NEW o \in S
    PROVE  1 \in DOMAIN Added(bucket, o) /\ Added(bucket, o)[1] = o
  <1>1. Without(bucket, o.revision) \in Seq(S)
    BY WithoutRows
  <1> QED BY <1>1 DEF Added

(* There are as many objects as names.                                     *)
LEMMA NamesCount ==
    ASSUME NEW S, NEW bucket \in Seq(S), Distinct(bucket)
    PROVE  IsFiniteSet(NamesOf(bucket)) /\ Cardinality(NamesOf(bucket)) = Len(bucket)
  <1> DEFINE name == [i \in 1 .. Len(bucket) |-> bucket[i].revision]
  <1>1. DOMAIN bucket = 1 .. Len(bucket) /\ Len(bucket) \in Nat
    OBVIOUS
  <1>2. name \in Bijection(1 .. Len(bucket), NamesOf(bucket))
    BY <1>1 DEF NamesOf, Distinct, Bijection, Injection, Surjection, IsInjective
  <1>3. ExistsBijection(1 .. Len(bucket), NamesOf(bucket))
    BY <1>2 DEF ExistsBijection
  <1> QED BY <1>1, <1>3, FS_CountingElements, FS_NatBijection

------------------------------------------------------------------------------
(* What a step does to the state of one actor and to the objects.          *)

Moves(a, location, locals_) ==
    pc' = [pc EXCEPT ![a] = location] /\ job' = [job EXCEPT ![a] = locals_]

Quits(a) ==
    /\ \/ Moves(a, "idle", NoJob)
       \/ /\ a = Scheduler /\ pc[a] \in {"load", "secrets", "put", "list", "delete"}
          /\ Moves(a, "note", job[a])
    /\ \/ UNCHANGED objects
       \/ pc[a] = "put" /\ objects' = Stored(a) /\ faults' = faults + 1
    /\ pc[a] \in {"list", "delete"} => faults' = faults + 1

Begins(a) ==
    /\ pc[a] = "idle" /\ UNCHANGED objects
    /\ \/ /\ active # 0
          /\ \E location \in {"check", "load"} :
               Moves(a, location, [job[a] EXCEPT !.revision = active])
       \/ a \in Manual /\ Moves(a, "load", [job[a] EXCEPT !.restoring = TRUE])

Prepares(a) ==
    /\ UNCHANGED objects
    /\ \/ pc[a] = "check" /\ Moves(a, "load", job[a])
       \/ /\ pc[a] = "load" /\ profile \in Buckets
          /\ Moves(a, "secrets", [job[a] EXCEPT !.bucket = profile])
       \/ pc[a] = "secrets" /\ job[a].restoring /\ Moves(a, "get", job[a])
       \/ pc[a] = "secrets" /\ ~job[a].restoring /\ Moves(a, "put", job[a])

Uploads(a) ==
    pc[a] = "put" /\ Moves(a, "list", job[a]) /\ objects' = Stored(a)

Lists(a) ==
    /\ pc[a] = "list" /\ UNCHANGED objects
    /\ Moves(a, "delete", [job[a] EXCEPT !.doomed = Doomed(objects[job[a].bucket])])

Deletes(a) ==
    /\ pc[a] = "delete" /\ job[a].doomed # <<>>
    /\ Moves(a, "delete", [job[a] EXCEPT !.doomed = Tail(job[a].doomed)])
    /\ objects' = [objects EXCEPT ![job[a].bucket] =
                     Without(objects[job[a].bucket], Head(job[a].doomed))]

Finishes(a) ==
    /\ pc[a] = "delete" /\ job[a].doomed = <<>> /\ UNCHANGED objects
    /\ Moves(a, "record", job[a])

Restores(a) ==
    /\ UNCHANGED objects
    /\ \/ /\ pc[a] = "get"
          /\ \E i \in DOMAIN objects[job[a].bucket] :
               LET o == objects[job[a].bucket][i] IN
               Verified(o) /\ Moves(a, "validate", [job[a] EXCEPT !.config = o.config])
       \/ /\ pc[a] = "validate" /\ job[a].config \notin Rejected
          /\ Moves(a, "save", job[a])

ActorStep(a) ==
    /\ UNCHANGED active
    /\ \/ Quits(a) \/ Begins(a) \/ Prepares(a) \/ Uploads(a)
       \/ Lists(a) \/ Deletes(a) \/ Finishes(a) \/ Restores(a)

Damages ==
    /\ UNCHANGED <<active, pc, job>>
    /\ \E b \in Buckets : \E i \in DOMAIN objects[b] :
         objects' = [objects EXCEPT ![b][i].config = Garbage]

Others == UNCHANGED <<objects, pc, job>> /\ active' \in {active, active + 1}

(* Every step is one of these, and faults are never forgotten.             *)
LEMMA Steps ==
    ASSUME TypeOK, [Next]_vars
    PROVE  /\ faults' \in Nat /\ faults <= faults'
           /\ Others \/ Damages \/ \E a \in Actors : ActorStep(a)
  <1> USE DEF ActorStep, Quits, Begins, Prepares, Uploads, Lists, Deletes, Finishes,
              Restores, Moves, Fault
  <1>0. /\ faults \in Nat /\ active \in Nat
        /\ pc \in [Actors -> Locations] /\ job \in [Actors -> Job]
        /\ profile \in Buckets \cup {NoBucket} /\ Scheduler \in Actors /\ Manual \subseteq Actors
    BY DEF TypeOK, Actors
  <1>e. \A a \in Actors : [pc EXCEPT ![a] = pc[a]] = pc /\ [job EXCEPT ![a] = job[a]] = job
    BY <1>0
  <1>1. CASE Activate
    BY <1>0, <1>1 DEF Activate, Others, locals
  <1>2. ASSUME NEW b \in Buckets, NEW fresh \in BOOLEAN, SaveProfile(b, fresh)
        PROVE  Others /\ faults' = faults
    BY <1>0, <1>2 DEF SaveProfile, Others, locals
  <1>3. CASE SaveSecrets
    BY <1>0, <1>3 DEF SaveSecrets, Others, locals
  <1>4. CASE SaveCut
    BY <1>0, <1>4 DEF SaveCut, Others, locals
  <1> DEFINE Kept == faults' \in Nat /\ faults <= faults'
  <1>5. ASSUME NEW a \in Actors, ReadActive(a)
        PROVE  Kept /\ ActorStep(a)
    <2> DEFINE location == IF a = Scheduler THEN "check" ELSE "load"
    <2>1. /\ location \in {"check", "load"}
          /\ Moves(a, location, [job[a] EXCEPT !.revision = active])
      BY <1>5 DEF ReadActive
    <2> HIDE DEF location
    <2>2. Begins(a)
      BY <1>5, <2>1 DEF ReadActive
    <2> QED BY <1>0, <1>5, <2>2 DEF ReadActive
  <1>6. ASSUME Check
        PROVE  Kept /\ ActorStep(Scheduler)
    BY <1>0, <1>e, <1>6 DEF Check, Return, Goto
  <1>7. ASSUME NEW a \in Actors, StartRestore(a)
        PROVE  Kept /\ ActorStep(a)
    BY <1>0, <1>7 DEF StartRestore
  <1>8. ASSUME NEW a \in Actors, LoadProfile(a)
        PROVE  Kept /\ ActorStep(a)
    BY <1>0, <1>e, <1>8 DEF LoadProfile, UploadFails, Return, Goto
  <1>9. ASSUME NEW a \in Actors, LoadSecrets(a)
        PROVE  Kept /\ ActorStep(a)
    BY <1>0, <1>e, <1>9 DEF LoadSecrets, UploadFails, Return, Goto
  <1>10. ASSUME NEW a \in Actors, Put(a)
         PROVE  Kept /\ ActorStep(a)
    BY <1>0, <1>e, <1>10 DEF Put, Goto
  <1>11. ASSUME NEW a \in Actors, PutFails(a)
         PROVE  Kept /\ ActorStep(a)
    BY <1>0, <1>e, <1>11 DEF PutFails, UploadFails, Return, Goto
  <1>12. ASSUME NEW a \in Actors, List(a)
         PROVE  Kept /\ ActorStep(a)
    BY <1>0, <1>e, <1>12 DEF List
  <1>13. ASSUME NEW a \in Actors, Delete(a)
         PROVE  Kept /\ ActorStep(a)
    BY <1>0, <1>e, <1>13 DEF Delete, Goto
  <1>14. ASSUME NEW a \in Actors, PruneFails(a)
         PROVE  Kept /\ ActorStep(a)
    BY <1>0, <1>e, <1>14 DEF PruneFails, UploadFails, Return, Goto
  <1>15. ASSUME NEW a \in Actors, Record(a)
         PROVE  Kept /\ ActorStep(a)
    BY <1>0, <1>e, <1>15 DEF Record, Return
  <1>16. ASSUME Note
         PROVE  Kept /\ ActorStep(Scheduler)
    <2>1. Quits(Scheduler) /\ UNCHANGED active
      BY <1>16 DEF Note, Return
    <2>2. Kept
      BY <1>0, <1>16 DEF Note
    <2> QED BY <2>1, <2>2
  <1>17. ASSUME NEW a \in Actors, NEW revision \in Revision, Get(a, revision)
         PROVE  Kept /\ ActorStep(a)
    BY <1>0, <1>e, <1>17 DEF Get, Named, Return
  <1>18. ASSUME NEW a \in Actors, Validate(a)
         PROVE  Kept /\ ActorStep(a)
    BY <1>0, <1>e, <1>18 DEF Validate, Return, Goto
  <1>19. ASSUME NEW a \in Actors, SaveDraft(a)
         PROVE  Kept /\ ActorStep(a)
    BY <1>0, <1>e, <1>19 DEF SaveDraft, Return
  <1>20. ASSUME NEW a \in Actors, Stop(a)
         PROVE  Kept /\ ActorStep(a)
    BY <1>0, <1>e, <1>20 DEF Stop, Return
  <1>21. ASSUME NEW b \in Buckets, NEW i \in DOMAIN objects[b], Damage(b, i)
         PROVE  Kept /\ Damages
    <2>1. Kept /\ UNCHANGED <<active, pc, job>>
      BY <1>0, <1>21 DEF Damage, locals
    <2>2. objects' = [objects EXCEPT ![b][i].config = Garbage]
      BY <1>21 DEF Damage
    <2> QED BY <2>1, <2>2 DEF Damages
  <1>22. CASE UNCHANGED vars
    BY <1>0, <1>22 DEF vars, Others
  <1> HIDE DEF ActorStep, Quits, Begins, Prepares, Uploads, Lists, Deletes, Finishes,
               Restores, Moves, Fault
  <1> QED BY <1>0, <1>1, <1>2, <1>3, <1>4, <1>5, <1>6, <1>7, <1>8, <1>9, <1>10, <1>11,
             <1>12, <1>13, <1>14, <1>15, <1>16, <1>17, <1>18, <1>19, <1>20, <1>21, <1>22
          DEF Next, Upload

------------------------------------------------------------------------------
(* The types, with what the locals hold where.                             *)

LocalsInv ==
    \A a \in Actors :
        /\ pc[a] = "idle" => job[a] = NoJob
        /\ pc[a] \in {"load", "secrets"} => job[a].restoring \/ job[a].revision \in 1 .. active
        /\ pc[a] \in {"check", "put", "list", "delete", "record", "note"}
             => job[a].revision \in 1 .. active
        /\ pc[a] \in {"secrets", "put", "list", "delete", "record", "get"}
             => job[a].bucket \in Buckets
        /\ job[a].restoring => a \in Manual

(* The objects of a bucket have different names, of revisions there were,  *)
(* and the checksum of the revision's configuration.                       *)
ObjectsInv ==
    \A b \in Buckets :
        /\ Distinct(objects[b])
        /\ \A i \in DOMAIN objects[b] :
             /\ objects[b][i].revision \in 1 .. active
             /\ objects[b][i].sum = ConfigOf[objects[b][i].revision]

BackupsInv == TypeOK /\ LocalsInv /\ ObjectsInv

Fresh(a) == [revision |-> job[a].revision, config |-> ConfigOf[job[a].revision],
             sum |-> ConfigOf[job[a].revision]]

(* What is uploaded is an object.                                          *)
LEMMA FreshType ==
    ASSUME TypeOK, LocalsInv, NEW a \in Actors, pc[a] = "put"
    PROVE  /\ Fresh(a) \in Object /\ job[a].bucket \in Buckets
           /\ job[a].revision \in 1 .. active
  <1>1. job[a].revision \in 1 .. active /\ active \in 0 .. MaxRevisions
    BY DEF LocalsInv, TypeOK
  <1>2. job[a].revision \in Revision
    BY <1>1 DEF Revision
  <1>3. ConfigOf[job[a].revision] \in Configs
    BY <1>2 DEF Revision
  <1> QED BY <1>1, <1>2, <1>3 DEF Fresh, Object, LocalsInv

(* The buckets after an upload.                                            *)
LEMMA StoredBuckets ==
    ASSUME BackupsInv, NEW a \in Actors, pc[a] = "put", objects' = Stored(a), NEW b \in Buckets
    PROVE  /\ objects' \in [Buckets -> Seq(Object)]
           /\ Distinct(objects'[b])
           /\ b # job[a].bucket => objects'[b] = objects[b]
           /\ b = job[a].bucket =>
                /\ NamesOf(objects'[b]) = NamesOf(objects[b]) \cup {job[a].revision}
                /\ 1 \in DOMAIN objects'[b] /\ objects'[b][1] = Fresh(a)
           /\ \A p \in DOMAIN objects'[b] :
                \/ p = 1 /\ objects'[b][p] = Fresh(a)
                \/ \E q \in DOMAIN objects[b] :
                     p <= q + 1 /\ objects'[b][p] = objects[b][q]
  <1> DEFINE c == job[a].bucket
             new == Added(objects[c], Fresh(a))
  <1>1. Fresh(a) \in Object /\ c \in Buckets /\ Fresh(a).revision = job[a].revision
    BY FreshType DEF BackupsInv, Fresh
  <1>2. objects \in [Buckets -> Seq(Object)] /\ \A d \in Buckets : Distinct(objects[d])
    BY DEF BackupsInv, TypeOK, ObjectsInv
  <1>3. objects' = [objects EXCEPT ![c] = new]
    BY <1>1 DEF Stored, Fresh, Added
  <1>4. objects[c] \in Seq(Object) /\ Distinct(objects[c])
    BY <1>1, <1>2
  <1>5. /\ new \in Seq(Object) /\ Distinct(new)
        /\ NamesOf(new) = NamesOf(objects[c]) \cup {Fresh(a).revision}
        /\ 1 \in DOMAIN new /\ new[1] = Fresh(a)
        /\ \A p \in DOMAIN new :
             \/ p = 1 /\ new[p] = Fresh(a)
             \/ \E q \in DOMAIN objects[c] : p <= q + 1 /\ new[p] = objects[c][q]
    <2>1. /\ new \in Seq(Object) /\ Distinct(new)
          /\ NamesOf(new) = NamesOf(objects[c]) \cup {Fresh(a).revision}
      BY <1>1, <1>4, StoredRows
    <2>2. 1 \in DOMAIN new /\ new[1] = Fresh(a)
      BY <1>1, <1>4, StoredFirst
    <2>3. PushedBy(new, objects[c], Fresh(a))
      BY <1>1, <1>4, StoredRows
    <2> QED BY <2>1, <2>2, <2>3 DEF PushedBy
  <1> HIDE DEF new, c
  <1>6. CASE b = c
    BY <1>1, <1>2, <1>3, <1>5, <1>6 DEF c
  <1>7. CASE b # c
    <2>1. objects'[b] = objects[b] /\ objects' \in [Buckets -> Seq(Object)]
      BY <1>1, <1>2, <1>3, <1>5, <1>7
    <2>2. DOMAIN objects[b] \subseteq Nat
      BY <1>2
    <2> QED BY <1>2, <1>7, <2>1, <2>2 DEF c
  <1> QED BY <1>6, <1>7

(* The buckets after a deletion.                                           *)
LEMMA DeletedBuckets ==
    ASSUME BackupsInv, NEW a \in Actors, Deletes(a), NEW b \in Buckets
    PROVE  /\ objects' \in [Buckets -> Seq(Object)]
           /\ Distinct(objects'[b])
           /\ b # job[a].bucket => objects'[b] = objects[b]
           /\ b = job[a].bucket =>
                NamesOf(objects'[b]) = NamesOf(objects[b]) \ {Head(job[a].doomed)}
           /\ \A p \in DOMAIN objects'[b] :
                \E q \in DOMAIN objects[b] : p <= q /\ objects'[b][p] = objects[b][q]
  <1> DEFINE c == job[a].bucket
             rest == Without(objects[c], Head(job[a].doomed))
  <1>1. c \in Buckets
    BY DEF BackupsInv, LocalsInv, Deletes
  <1>2. objects \in [Buckets -> Seq(Object)] /\ \A d \in Buckets : Distinct(objects[d])
    BY DEF BackupsInv, TypeOK, ObjectsInv
  <1>3. objects' = [objects EXCEPT ![c] = rest]
    BY DEF Deletes
  <1>4. objects[c] \in Seq(Object) /\ Distinct(objects[c])
    BY <1>1, <1>2
  <1>5. /\ rest \in Seq(Object) /\ Distinct(rest)
        /\ NamesOf(rest) = NamesOf(objects[c]) \ {Head(job[a].doomed)}
        /\ \A p \in DOMAIN rest :
             \E q \in DOMAIN objects[c] : p <= q /\ rest[p] = objects[c][q]
    BY <1>4, WithoutRows
  <1> HIDE DEF rest, c
  <1>6. CASE b = c
    BY <1>1, <1>2, <1>3, <1>5, <1>6 DEF c
  <1>7. CASE b # c
    <2>1. objects'[b] = objects[b] /\ objects' \in [Buckets -> Seq(Object)]
      BY <1>1, <1>2, <1>3, <1>5, <1>7
    <2>2. DOMAIN objects[b] \subseteq Nat
      BY <1>2
    <2> QED BY <1>2, <1>7, <2>1, <2>2 DEF c
  <1> QED BY <1>6, <1>7

(* The buckets after the bytes of an object changed.                       *)
LEMMA DamagedBuckets ==
    ASSUME BackupsInv, Damages, NEW b \in Buckets
    PROVE  /\ objects' \in [Buckets -> Seq(Object)]
           /\ DOMAIN objects'[b] = DOMAIN objects[b]
           /\ \A p \in DOMAIN objects[b] :
                /\ objects'[b][p].revision = objects[b][p].revision
                /\ objects'[b][p].sum = objects[b][p].sum
  <1>0. PICK c \in Buckets : \E i \in DOMAIN objects[c] :
          objects' = [objects EXCEPT ![c] = [objects[c] EXCEPT ![i].config = Garbage]]
    BY DEF Damages
  <1>1. PICK i \in DOMAIN objects[c] :
          objects' = [objects EXCEPT ![c] = [objects[c] EXCEPT ![i].config = Garbage]]
    BY <1>0
  <1>2. objects \in [Buckets -> Seq(Object)]
    BY DEF BackupsInv, TypeOK
  <1> DEFINE damaged == [objects[c][i] EXCEPT !.config = Garbage]
             new == [objects[c] EXCEPT ![i] = damaged]
  <1>3. /\ damaged \in Object /\ damaged.revision = objects[c][i].revision
        /\ damaged.sum = objects[c][i].sum
    <2>1. objects[c][i] \in Object
      BY <1>2
    <2> QED BY <2>1 DEF Object
  <1> HIDE DEF damaged
  <1>4. objects[c] \in Seq(Object) /\ i \in 1 .. Len(objects[c])
    BY <1>2
  <1>5. /\ new \in Seq(Object) /\ DOMAIN new = DOMAIN objects[c]
        /\ \A p \in DOMAIN objects[c] : new[p] = IF p = i THEN damaged ELSE objects[c][p]
    BY <1>3, <1>4, ExceptSeq
  <1>6. objects' = [objects EXCEPT ![c] = new]
    BY <1>1 DEF damaged
  <1> HIDE DEF new
  <1> QED BY <1>2, <1>3, <1>5, <1>6

(* What pruning dooms is behind the objects that it keeps.                 *)
LEMMA DoomedRows ==
    ASSUME NEW bucket \in Seq(Object)
    PROVE  /\ Doomed(bucket) \in Seq(Revision)
           /\ \A i \in DOMAIN Doomed(bucket) :
                /\ Keep + i \in DOMAIN bucket /\ i > 0
                /\ Doomed(bucket)[i] = bucket[Keep + i].revision
           /\ \A p \in DOMAIN bucket : p > Keep =>
                bucket[p].revision \in Range(Doomed(bucket))
  <1> DEFINE n == Len(bucket) - Keep
  <1>0. Keep \in Nat /\ Len(bucket) \in Nat /\ DOMAIN bucket = 1 .. Len(bucket)
    BY KeepAssumption
  <1>1. Doomed(bucket) = [i \in 1 .. n |-> bucket[Keep + i].revision]
    BY DEF Doomed
  <1>2. \A i \in 1 .. n : /\ Keep + i \in DOMAIN bucket /\ i > 0
                          /\ bucket[Keep + i].revision \in Revision
    <2>1. ASSUME NEW q \in DOMAIN bucket
          PROVE  bucket[q].revision \in Revision
      <3>1. bucket[q] \in Object
        BY <2>1
      <3> QED BY <3>1 DEF Object
    <2> QED BY <1>0, <2>1
  <1>3. Doomed(bucket) \in Seq(Revision)
    <2>1. CASE n \in Nat
      BY <1>1, <1>2, <2>1
    <2>2. CASE n \notin Nat
      <3>1. 1 .. n = 1 .. 0
        BY <1>0, <2>2
      <3>2. Doomed(bucket) \in [1 .. 0 -> Revision]
        BY <1>1, <1>2, <3>1
      <3> QED BY <3>2
    <2> QED BY <2>1, <2>2
  <1>4. DOMAIN Doomed(bucket) = 1 .. n
    BY <1>1
  <1>5. ASSUME NEW p \in DOMAIN bucket, p > Keep
        PROVE  bucket[p].revision \in Range(Doomed(bucket))
    <2>1. p - Keep \in 1 .. n /\ Keep + (p - Keep) = p
      BY <1>0, <1>5
    <2>2. Doomed(bucket)[p - Keep] = bucket[p].revision
      BY <1>1, <2>1
    <2> QED BY <1>4, <2>1, <2>2 DEF Range
  <1> QED BY <1>1, <1>2, <1>3, <1>4, <1>5

(* The objects keep their names and their checksums in every step.         *)
LEMMA ObjectsStep ==
    ASSUME BackupsInv, [Next]_vars
    PROVE  objects' \in [Buckets -> Seq(Object)] /\ ObjectsInv'
  <1> USE DEF ObjectsInv
  <1>0. /\ objects \in [Buckets -> Seq(Object)] /\ ObjectsInv
        /\ active \in Nat
    BY DEF BackupsInv, TypeOK
  <1>1. CASE UNCHANGED objects /\ active' \in {active, active + 1}
    BY <1>0, <1>1
  <1>2. ASSUME Damages
        PROVE  objects' \in [Buckets -> Seq(Object)] /\ ObjectsInv'
    <2>1. /\ objects' \in [Buckets -> Seq(Object)]
          /\ \A b \in Buckets :
               /\ DOMAIN objects'[b] = DOMAIN objects[b]
               /\ \A p \in DOMAIN objects[b] :
                    /\ objects'[b][p].revision = objects[b][p].revision
                    /\ objects'[b][p].sum = objects[b][p].sum
      BY <1>0, <1>2, DamagedBuckets DEF Damages
    <2> QED BY <1>0, <1>2, <2>1 DEF Damages, Distinct
  <1>3. ASSUME NEW a \in Actors, pc[a] = "put", objects' = Stored(a), UNCHANGED active
        PROVE  objects' \in [Buckets -> Seq(Object)] /\ ObjectsInv'
    <2>1. /\ Fresh(a).revision \in 1 .. active
          /\ Fresh(a).sum = ConfigOf[Fresh(a).revision]
      BY <1>3, FreshType DEF BackupsInv, Fresh
    <2>2. objects' \in [Buckets -> Seq(Object)]
      BY <1>3, StoredBuckets DEF Stored, BackupsInv, TypeOK
    <2>3. ASSUME NEW b \in Buckets
          PROVE  /\ Distinct(objects'[b])
                 /\ \A p \in DOMAIN objects'[b] :
                      \/ objects'[b][p] = Fresh(a)
                      \/ \E q \in DOMAIN objects[b] : objects'[b][p] = objects[b][q]
      BY <1>3, StoredBuckets
    <2>4. ASSUME NEW b \in Buckets, NEW p \in DOMAIN objects'[b]
          PROVE  /\ objects'[b][p].revision \in 1 .. active
                 /\ objects'[b][p].sum = ConfigOf[objects'[b][p].revision]
      <3>1. CASE objects'[b][p] = Fresh(a)
        BY <2>1, <3>1
      <3>2. ASSUME NEW q \in DOMAIN objects[b], objects'[b][p] = objects[b][q]
            PROVE  /\ objects'[b][p].revision \in 1 .. active
                   /\ objects'[b][p].sum = ConfigOf[objects'[b][p].revision]
        BY <1>0, <3>2
      <3> QED BY <2>3, <3>1, <3>2
    <2> QED BY <1>3, <2>2, <2>3, <2>4
  <1>4. ASSUME NEW a \in Actors, Deletes(a), UNCHANGED active
        PROVE  objects' \in [Buckets -> Seq(Object)] /\ ObjectsInv'
    <2>1. objects' \in [Buckets -> Seq(Object)]
      BY <1>4, DeletedBuckets DEF Deletes, BackupsInv, TypeOK
    <2>2. ASSUME NEW b \in Buckets
          PROVE  /\ Distinct(objects'[b])
                 /\ \A p \in DOMAIN objects'[b] :
                      \E q \in DOMAIN objects[b] : objects'[b][p] = objects[b][q]
      BY <1>4, DeletedBuckets
    <2> QED BY <1>0, <1>4, <2>1, <2>2
  <1> QED BY <1>1, <1>2, <1>3, <1>4, Steps DEF BackupsInv, Others, ActorStep, Quits, Begins,
          Prepares, Uploads, Lists, Finishes, Restores

(* What an actor knows about its work stays true while it works.           *)
LEMMA LocalsStep ==
    ASSUME BackupsInv, [Next]_vars
    PROVE  /\ pc' \in [Actors -> Locations] /\ job' \in [Actors -> Job]
           /\ LocalsInv'
  <1> USE DEF Moves
  <1>0. /\ pc \in [Actors -> Locations] /\ job \in [Actors -> Job]
        /\ active \in Nat /\ active \in 0 .. MaxRevisions
        /\ objects \in [Buckets -> Seq(Object)] /\ LocalsInv
    BY DEF BackupsInv, TypeOK
  <1>1. CASE UNCHANGED <<pc, job>> /\ active' \in {active, active + 1}
    BY <1>0, <1>1 DEF LocalsInv
  <1> DEFINE Kept == /\ pc' \in [Actors -> Locations] /\ job' \in [Actors -> Job]
                     /\ LocalsInv'
  <1>2. ASSUME NEW a \in Actors, Quits(a), UNCHANGED active
        PROVE  Kept
    <2>1. NoJob \in Job /\ NoJob.restoring = FALSE
      BY <1>0 DEF NoJob, Job
    <2>2. CASE Moves(a, "idle", NoJob)
      BY <1>0, <1>2, <2>1, <2>2 DEF LocalsInv, Locations
    <2>3. CASE /\ a = Scheduler /\ pc[a] \in {"load", "secrets", "put", "list", "delete"}
               /\ Moves(a, "note", job[a])
      <3>1. job[a].revision \in 1 .. active
        BY <1>0, <2>3 DEF LocalsInv
      <3> QED BY <1>0, <1>2, <2>3, <3>1 DEF LocalsInv, Locations
    <2> QED BY <1>2, <2>2, <2>3 DEF Quits
  <1>3. ASSUME NEW a \in Actors, Begins(a), UNCHANGED active
        PROVE  Kept
    <2>1. job[a] = NoJob /\ NoJob \in Job
      BY <1>0, <1>3 DEF LocalsInv, Begins, NoJob, Job
    <2>2. ASSUME active # 0, NEW location \in {"check", "load"},
                 Moves(a, location, [job[a] EXCEPT !.revision = active])
          PROVE  Kept
      <3>1. /\ [job[a] EXCEPT !.revision = active] \in Job
            /\ [job[a] EXCEPT !.revision = active].revision \in 1 .. active
            /\ [job[a] EXCEPT !.revision = active].restoring = FALSE
        <4>1. active \in 1 .. active
          BY <1>0, <2>2
        <4>2. [job[a] EXCEPT !.revision = active] \in Job
          BY <1>0, <2>1 DEF Job
        <4> QED BY <2>1, <4>1, <4>2 DEF NoJob
      <3> QED BY <1>0, <1>3, <2>2, <3>1 DEF LocalsInv, Locations
    <2>3. ASSUME a \in Manual, Moves(a, "load", [job[a] EXCEPT !.restoring = TRUE])
          PROVE  Kept
      <3>1. /\ [job[a] EXCEPT !.restoring = TRUE] \in Job
            /\ [job[a] EXCEPT !.restoring = TRUE].restoring = TRUE
        BY <1>0, <2>1 DEF NoJob, Job
      <3> QED BY <1>0, <1>3, <2>3, <3>1 DEF LocalsInv, Locations
    <2> QED BY <1>3, <2>2, <2>3 DEF Begins
  <1>4. ASSUME NEW a \in Actors, Prepares(a), UNCHANGED active
        PROVE  Kept
    <2>1. ASSUME pc[a] = "load", profile \in Buckets,
                 Moves(a, "secrets", [job[a] EXCEPT !.bucket = profile])
          PROVE  Kept
      <3> DEFINE new == [job[a] EXCEPT !.bucket = profile]
      <3>1. /\ new \in Job /\ new.bucket \in Buckets
            /\ new.revision = job[a].revision /\ new.restoring = job[a].restoring
        <4>1. job[a] \in Job
          BY <1>0
        <4> QED BY <2>1, <4>1 DEF Job
      <3> HIDE DEF new
      <3>2. pc' = [pc EXCEPT ![a] = "secrets"] /\ job' = [job EXCEPT ![a] = new]
        BY <2>1 DEF new
      <3>3. pc' \in [Actors -> Locations] /\ job' \in [Actors -> Job]
        BY <1>0, <3>1, <3>2 DEF Locations
      <3>4. /\ pc'[a] = "secrets" /\ job'[a] = new
            /\ \A p \in Actors : p # a => pc'[p] = pc[p] /\ job'[p] = job[p]
        BY <1>0, <3>2
      <3>5. LocalsInv'
        BY <1>0, <1>4, <2>1, <3>1, <3>4 DEF LocalsInv
      <3> QED BY <3>3, <3>5
    <2>2. ASSUME NEW location \in {"load", "get", "put"},
                 Moves(a, location, job[a]),
                 \/ pc[a] = "check" /\ location = "load"
                 \/ pc[a] = "secrets" /\ job[a].restoring /\ location = "get"
                 \/ pc[a] = "secrets" /\ ~job[a].restoring /\ location = "put"
          PROVE  Kept
      BY <1>0, <1>4, <2>2 DEF LocalsInv, Locations
    <2> QED BY <1>4, <2>1, <2>2 DEF Prepares
  <1>5. ASSUME NEW a \in Actors, UNCHANGED active,
               \/ Uploads(a) \/ Finishes(a)
               \/ pc[a] = "validate" /\ Moves(a, "save", job[a])
        PROVE  Kept
    BY <1>0, <1>5 DEF LocalsInv, Locations, Uploads, Finishes
  <1>6. ASSUME NEW a \in Actors, NEW doomed \in Seq(Revision), pc[a] \in {"list", "delete"},
               Moves(a, "delete", [job[a] EXCEPT !.doomed = doomed]), UNCHANGED active
        PROVE  Kept
    <2> DEFINE new == [job[a] EXCEPT !.doomed = doomed]
    <2>1. /\ new \in Job /\ new.bucket = job[a].bucket
          /\ new.revision = job[a].revision /\ new.restoring = job[a].restoring
      <3>1. job[a] \in Job
        BY <1>0
      <3> QED BY <3>1 DEF Job
    <2> HIDE DEF new
    <2>2. pc' = [pc EXCEPT ![a] = "delete"] /\ job' = [job EXCEPT ![a] = new]
      BY <1>6 DEF new
    <2>3. pc' \in [Actors -> Locations] /\ job' \in [Actors -> Job]
      BY <1>0, <2>1, <2>2 DEF Locations
    <2>4. /\ pc'[a] = "delete" /\ job'[a] = new
          /\ \A p \in Actors : p # a => pc'[p] = pc[p] /\ job'[p] = job[p]
      BY <1>0, <2>2
    <2>5. LocalsInv'
      BY <1>0, <1>6, <2>1, <2>4 DEF LocalsInv
    <2> QED BY <2>3, <2>5
  <1>7. ASSUME NEW a \in Actors, Lists(a), UNCHANGED active
        PROVE  Kept
    <2>1. objects[job[a].bucket] \in Seq(Object)
      BY <1>0, <1>7 DEF Lists, LocalsInv
    <2>2. Doomed(objects[job[a].bucket]) \in Seq(Revision)
      BY <2>1, DoomedRows
    <2> QED BY <1>6, <1>7, <2>2 DEF Lists
  <1>8. ASSUME NEW a \in Actors, Deletes(a), UNCHANGED active
        PROVE  Kept
    <2>1. job[a].doomed \in Seq(Revision)
      BY <1>0 DEF Job
    <2>2. Tail(job[a].doomed) \in Seq(Revision)
      BY <1>8, <2>1 DEF Deletes
    <2> QED BY <1>6, <1>8, <2>2 DEF Deletes
  <1>9. ASSUME NEW a \in Actors, pc[a] = "get", NEW i \in DOMAIN objects[job[a].bucket],
               Verified(objects[job[a].bucket][i]), UNCHANGED active,
               Moves(a, "validate", [job[a] EXCEPT !.config = objects[job[a].bucket][i].config])
        PROVE  Kept
    <2> DEFINE o == objects[job[a].bucket][i]
               new == [job[a] EXCEPT !.config = o.config]
    <2>1. o \in Object
      <3>1. objects[job[a].bucket] \in Seq(Object)
        BY <1>0, <1>9 DEF LocalsInv
      <3> QED BY <1>9, <3>1
    <2>2. o.config \in Configs
      BY <1>9, <2>1 DEF Verified, Object
    <2> HIDE DEF o
    <2>3. /\ new \in Job /\ new.bucket = job[a].bucket
          /\ new.revision = job[a].revision /\ new.restoring = job[a].restoring
      <3>1. job[a] \in Job
        BY <1>0
      <3> QED BY <2>2, <3>1 DEF Job
    <2> HIDE DEF new
    <2>4. pc' = [pc EXCEPT ![a] = "validate"] /\ job' = [job EXCEPT ![a] = new]
      BY <1>9 DEF new, o
    <2>5. pc' \in [Actors -> Locations] /\ job' \in [Actors -> Job]
      BY <1>0, <2>3, <2>4 DEF Locations
    <2>6. pc'[a] = "validate" /\ job'[a].restoring = job[a].restoring
      BY <1>0, <2>3, <2>4
    <2>7. \A p \in Actors : p # a => pc'[p] = pc[p] /\ job'[p] = job[p]
      BY <1>0, <2>4
    <2> QED BY <1>0, <1>9, <2>5, <2>6, <2>7 DEF LocalsInv
  <1>10. ASSUME NEW a \in Actors, Restores(a), UNCHANGED active
         PROVE  Kept
    BY <1>5, <1>9, <1>10 DEF Restores
  <1> HIDE DEF Moves
  <1> QED BY <1>1, <1>2, <1>3, <1>4, <1>5, <1>7, <1>8, <1>10, Steps
          DEF BackupsInv, Others, Damages, ActorStep

RecordOf(a) == [revision |-> job[a].revision, bucket |-> job[a].bucket, status |-> "uploaded"]

(* A backup is recorded for an upload that ended, or noted as failed.      *)
RecordsStep ==
    \/ UNCHANGED records
    \/ \E a \in Actors : /\ pc[a] = "record" /\ UNCHANGED <<active, objects>>
                         /\ records' = records \cup {RecordOf(a)}
    \/ /\ pc[Scheduler] = "note" /\ UNCHANGED active
       /\ records' = records \cup {[revision |-> job[Scheduler].revision,
                                    bucket |-> NoBucket, status |-> "failed"]}

(* Every step changes the backups table in one of these ways or not at all. *)
LEMMA RecordsSteps == [Next]_vars => RecordsStep
  <1> SUFFICES ASSUME [Next]_vars PROVE RecordsStep
    OBVIOUS
  <1>1. ASSUME NEW a \in Actors, Record(a)
        PROVE  RecordsStep
    BY <1>1 DEF Record, RecordsStep, RecordOf
  <1>2. CASE Note
    BY <1>2 DEF Note, RecordsStep
  <1>3. CASE UNCHANGED records
    BY <1>3 DEF RecordsStep
  <1> QED BY <1>1, <1>2, <1>3
          DEF Next, vars, Upload, Activate, SaveProfile, SaveSecrets, SaveCut, ReadActive,
              Check, StartRestore, LoadProfile, LoadSecrets, Put, PutFails, List, Delete,
              PruneFails, Get, Validate, SaveDraft, Stop, Damage

(* The records are of revisions that were uploaded, or tried to be.        *)
LEMMA RecordsType ==
    ASSUME BackupsInv, [Next]_vars
    PROVE  records' \subseteq
             [revision : Revision, bucket : Buckets, status : {"uploaded"}]
             \cup [revision : Revision, bucket : {NoBucket}, status : {"failed"}]
  <1>0. /\ records \subseteq
             [revision : Revision, bucket : Buckets, status : {"uploaded"}]
             \cup [revision : Revision, bucket : {NoBucket}, status : {"failed"}]
        /\ \A r \in 1 .. active : r \in Revision
    BY DEF BackupsInv, TypeOK, Revision
  <1>1. ASSUME NEW a \in Actors, pc[a] = "record"
        PROVE  RecordOf(a) \in [revision : Revision, bucket : Buckets, status : {"uploaded"}]
    BY <1>0, <1>1 DEF BackupsInv, LocalsInv, RecordOf
  <1>2. pc[Scheduler] = "note" => job[Scheduler].revision \in Revision
    BY <1>0 DEF BackupsInv, LocalsInv, Actors
  <1> QED BY <1>0, <1>1, <1>2, RecordsSteps DEF RecordsStep

(* The other variables keep their types.                                   *)
LEMMA SettingsStep ==
    ASSUME BackupsInv, [Next]_vars
    PROVE  /\ active' \in 0 .. MaxRevisions
           /\ {profile', secrets', saving'} \subseteq Buckets \cup {NoBucket}
           /\ faults' \in 0 .. MaxFaults /\ saves' \in 0 .. MaxSaves
  <1>0. /\ active \in 0 .. MaxRevisions
        /\ {profile, secrets, saving} \subseteq Buckets \cup {NoBucket}
        /\ faults \in 0 .. MaxFaults /\ saves \in 0 .. MaxSaves
    BY DEF BackupsInv, TypeOK
  <1>1. CASE Activate
    BY <1>0, <1>1 DEF Activate, settings
  <1>2. ASSUME NEW b \in Buckets, NEW fresh \in BOOLEAN, SaveProfile(b, fresh)
        PROVE  /\ active' \in 0 .. MaxRevisions
               /\ {profile', secrets', saving'} \subseteq Buckets \cup {NoBucket}
               /\ faults' \in 0 .. MaxFaults /\ saves' \in 0 .. MaxSaves
    BY <1>0, <1>2 DEF SaveProfile
  <1>3. CASE SaveSecrets
    BY <1>0, <1>3 DEF SaveSecrets
  <1>4. CASE SaveCut
    BY <1>0, <1>4 DEF SaveCut, Fault
  <1>5. CASE UNCHANGED <<active, settings>> /\ (UNCHANGED faults \/ Fault)
    BY <1>0, <1>5 DEF settings, Fault
  <1>6. CASE UNCHANGED vars
    BY <1>0, <1>6 DEF vars
  <1> QED BY <1>1, <1>2, <1>3, <1>4, <1>5, <1>6
          DEF Next, Upload, ReadActive, Check, StartRestore, LoadProfile, LoadSecrets, Put,
              PutFails, List, Delete, PruneFails, Record, Note, Get, Validate, SaveDraft,
              Stop, Damage

(* Together: every step keeps the types and what the actors rely on.       *)
LEMMA BackupsStep == BackupsInv /\ [Next]_vars => BackupsInv'
  BY ObjectsStep, LocalsStep, RecordsType, SettingsStep DEF BackupsInv, TypeOK

(* Nothing is stored and no actor works at first.                          *)
LEMMA BackupsInit == Init => BackupsInv
  <1> SUFFICES ASSUME Init PROVE BackupsInv
    OBVIOUS
  <1>1. NoJob \in Job /\ NoJob.restoring = FALSE
    BY DEF NoJob, Job
  <1>2. objects \in [Buckets -> Seq(Object)]
    BY DEF Init
  <1>3. TypeOK
    BY <1>1, <1>2 DEF Init, TypeOK, Locations
  <1>4. LocalsInv
    BY <1>1 DEF Init, LocalsInv
  <1>5. ObjectsInv
    BY DEF Init, ObjectsInv, Distinct
  <1> QED BY <1>3, <1>4, <1>5 DEF BackupsInv

(* The invariant that the others are proved from.                          *)
LEMMA BackupsAlways == Spec => []BackupsInv
  BY BackupsInit, BackupsStep, PTL DEF Spec

(* Every reachable state is well-typed: an actor that uploads has read a   *)
(* revision that was active (service.rs:115), one that talks to the store  *)
(* has loaded the settings of a bucket (s3.rs:110).                        *)
THEOREM TypeCorrect == Spec => []TypeOK
  BY BackupsAlways, PTL DEF BackupsInv

------------------------------------------------------------------------------
(* What is restored.                                                       *)

RestoredInv ==
    \A a \in Actors :
        /\ pc[a] \in {"validate", "save"}
             => \E i \in 1 .. active : ConfigOf[i] = job[a].config
        /\ pc[a] = "save" => job[a].config \notin Rejected

(* A configuration comes from an object whose checksum is the one of a     *)
(* revision there was; later it is only looked at.                         *)
LEMMA RestoredStep ==
    ASSUME BackupsInv, RestoredInv, [Next]_vars
    PROVE  RestoredInv'
  <1> USE DEF RestoredInv
  <1>0. /\ pc \in [Actors -> Locations] /\ job \in [Actors -> Job]
        /\ active \in Nat /\ objects \in [Buckets -> Seq(Object)]
    BY DEF BackupsInv, TypeOK
  <1>1. CASE UNCHANGED <<pc, job>> /\ active' \in {active, active + 1}
    BY <1>0, <1>1
  <1>2. ASSUME NEW a \in Actors, NEW location, NEW new, Moves(a, location, new),
               UNCHANGED active, location \notin {"validate", "save"}
        PROVE  RestoredInv'
    BY <1>0, <1>2 DEF Moves
  <1>3. ASSUME NEW a \in Actors, Restores(a), UNCHANGED active
        PROVE  RestoredInv'
    <2>1. ASSUME pc[a] = "get", NEW i \in DOMAIN objects[job[a].bucket],
                 Verified(objects[job[a].bucket][i]),
                 Moves(a, "validate",
                       [job[a] EXCEPT !.config = objects[job[a].bucket][i].config])
          PROVE  RestoredInv'
      <3> DEFINE o == objects[job[a].bucket][i]
                 new == [job[a] EXCEPT !.config = o.config]
      <3>1. job[a].bucket \in Buckets
        BY <2>1 DEF BackupsInv, LocalsInv
      <3>2. o.revision \in 1 .. active /\ ConfigOf[o.revision] = o.sum
        BY <2>1, <3>1 DEF BackupsInv, ObjectsInv
      <3>3. new.config = o.config /\ o.sum = o.config
        BY <1>0, <2>1 DEF Verified, Job
      <3>4. pc' = [pc EXCEPT ![a] = "validate"] /\ job' = [job EXCEPT ![a] = new]
        BY <2>1 DEF Moves
      <3> HIDE DEF new, o
      <3> QED BY <1>0, <1>3, <3>2, <3>3, <3>4
    <2>2. ASSUME pc[a] = "validate", job[a].config \notin Rejected, Moves(a, "save", job[a])
          PROVE  RestoredInv'
      BY <1>0, <1>3, <2>2 DEF Moves
    <2> QED BY <1>3, <2>1, <2>2 DEF Restores
  <1>4. ASSUME NEW a \in Actors, ActorStep(a), ~Restores(a)
        PROVE  RestoredInv'
    <2>0. "idle" \notin {"validate", "save"} /\ "note" \notin {"validate", "save"}
      OBVIOUS
    <2>1. CASE Quits(a)
      BY <1>2, <1>4, <2>0, <2>1 DEF ActorStep, Quits
    <2>2. CASE Begins(a)
      BY <1>2, <1>4, <2>2 DEF ActorStep, Begins
    <2>3. CASE Prepares(a)
      BY <1>2, <1>4, <2>3 DEF ActorStep, Prepares
    <2>4. CASE Uploads(a) \/ Lists(a) \/ Deletes(a) \/ Finishes(a)
      BY <1>2, <1>4, <2>4 DEF ActorStep, Uploads, Lists, Deletes, Finishes
    <2> QED BY <1>4, <2>1, <2>2, <2>3, <2>4 DEF ActorStep
  <1> QED BY <1>1, <1>3, <1>4, Steps DEF BackupsInv, Others, Damages, ActorStep

(* A restored draft is valid today and has once been active, also when     *)
(* objects are replaced, pruned or damaged meanwhile (README.md:59,        *)
(* s3.rs:187, api.rs:551).                                                 *)
THEOREM RestoredWasActiveHolds == Spec => []RestoredWasActive
  <1>1. Init => RestoredInv
    BY DEF Init, RestoredInv
  <1>2. RestoredInv => RestoredWasActive
    BY DEF RestoredInv, RestoredWasActive, Actors
  <1> QED BY <1>1, <1>2, BackupsAlways, RestoredStep, PTL DEF Spec

------------------------------------------------------------------------------
(* Why pruning spares the active revision.                                 *)

(* Uploads of older revisions, each of which will push it down by one.     *)
Behind ==
    {a \in Actors : /\ pc[a] \in {"check", "load", "secrets", "put"}
                    /\ job[a].revision \in 1 .. active /\ job[a].revision # active}

(* Its object has room for all of them before the place where pruning      *)
(* starts.                                                                 *)
HighEnough ==
    \A b \in Buckets : \A p \in DOMAIN objects[b] :
        objects[b][p].revision = active => p + Cardinality(Behind) <= Cardinality(Actors)

DoomedOlder ==
    \A a \in Actors : pc[a] = "delete" =>
        \A i \in DOMAIN job[a].doomed : job[a].doomed[i] \in 1 .. active
                                        /\ job[a].doomed[i] # active

UploadedThere ==
    \A a \in Actors : pc[a] \in {"list", "delete", "record"} /\ job[a].revision = active =>
        active \in NamesOf(objects[job[a].bucket])

RecordedThere ==
    \A r \in records :
        /\ r.revision \in 1 .. active
        /\ r.revision = active /\ r.status = "uploaded" => active \in NamesOf(objects[r.bucket])

KeptInv == HighEnough /\ DoomedOlder /\ UploadedThere /\ RecordedThere

(* What an actor's step changes for the other actors.                      *)
LEMMA AloneSteps ==
    ASSUME BackupsInv, NEW a \in Actors, ActorStep(a)
    PROVE  /\ UNCHANGED active
           /\ \A p \in Actors : p # a => pc'[p] = pc[p] /\ job'[p] = job[p]
           /\ pc[a] = "put" => pc'[a] \notin {"check", "load", "secrets", "put"}
           /\ pc'[a] \in {"check", "load", "secrets", "put"} =>
                \/ job'[a].revision \in {0, active}
                \/ /\ pc[a] \in {"check", "load", "secrets", "put"}
                   /\ job'[a].revision = job[a].revision
  <1>0. pc \in [Actors -> Locations] /\ job \in [Actors -> Job]
    BY DEF BackupsInv, TypeOK
  <1>1. ASSUME NEW location, NEW new, Moves(a, location, new)
        PROVE  /\ pc'[a] = location /\ job'[a] = new
               /\ \A p \in Actors : p # a => pc'[p] = pc[p] /\ job'[p] = job[p]
    BY <1>0, <1>1 DEF Moves
  <1>2. job[a] \in Job /\ UNCHANGED active
    BY <1>0 DEF ActorStep
  <1> DEFINE Goal == /\ \A p \in Actors : p # a => pc'[p] = pc[p] /\ job'[p] = job[p]
                     /\ pc[a] = "put" => pc'[a] \notin {"check", "load", "secrets", "put"}
                     /\ pc'[a] \in {"check", "load", "secrets", "put"} =>
                          \/ job'[a].revision \in {0, active}
                          \/ /\ pc[a] \in {"check", "load", "secrets", "put"}
                             /\ job'[a].revision = job[a].revision
  <1>3. CASE Quits(a)
    <2>1. pc'[a] = "idle" \/ pc'[a] = "note"
      BY <1>1, <1>3 DEF Quits
    <2>2. \A p \in Actors : p # a => pc'[p] = pc[p] /\ job'[p] = job[p]
      BY <1>1, <1>3 DEF Quits
    <2> QED BY <1>2, <2>1, <2>2
  <1>4. CASE Begins(a)
    <2>1. job[a].revision = 0
      BY <1>4 DEF BackupsInv, LocalsInv, Begins, NoJob
    <2>2. /\ [job[a] EXCEPT !.revision = active].revision = active
          /\ [job[a] EXCEPT !.restoring = TRUE].revision = 0
      BY <1>2, <2>1 DEF Job
    <2>3. CASE Moves(a, "load", [job[a] EXCEPT !.restoring = TRUE])
      BY <1>1, <1>4, <2>2, <2>3, <1>2 DEF Begins
    <2>4. ASSUME NEW location \in {"check", "load"},
                 Moves(a, location, [job[a] EXCEPT !.revision = active])
          PROVE  Goal
      BY <1>1, <1>4, <2>2, <2>4 DEF Begins
    <2> QED BY <1>2, <1>4, <2>3, <2>4 DEF Begins
  <1>5. CASE Prepares(a)
    <2>1. [job[a] EXCEPT !.bucket = profile].revision = job[a].revision
      BY <1>2 DEF Job
    <2> QED BY <1>1, <1>2, <1>5, <2>1 DEF Prepares
  <1>6. CASE Uploads(a) \/ Finishes(a) \/ Lists(a) \/ Deletes(a)
    BY <1>1, <1>2, <1>6 DEF Uploads, Finishes, Lists, Deletes
  <1>7. CASE Restores(a)
    <2>1. pc[a] # "put" /\ (pc'[a] = "validate" \/ pc'[a] = "save")
      BY <1>1, <1>7 DEF Restores
    <2>2. \A p \in Actors : p # a => pc'[p] = pc[p] /\ job'[p] = job[p]
      BY <1>1, <1>7 DEF Restores
    <2> QED BY <1>2, <2>1, <2>2
  <1> QED BY <1>2, <1>3, <1>4, <1>5, <1>6, <1>7 DEF ActorStep

(* No actor falls behind but by a new active revision.                     *)
LEMMA BehindStep ==
    ASSUME BackupsInv, [Next]_vars, UNCHANGED active
    PROVE  /\ IsFiniteSet(Behind) /\ IsFiniteSet(Behind')
           /\ Cardinality(Behind') \in Nat /\ Cardinality(Behind') <= Cardinality(Behind)
           /\ \A a \in Actors : ActorStep(a) /\ pc[a] = "put" =>
                /\ Cardinality(Behind') + 1 <= Cardinality(Actors)
                /\ a \in Behind => Cardinality(Behind') + 1 <= Cardinality(Behind)
  <1>0. IsFiniteSet(Actors) /\ Cardinality(Actors) \in Nat
    BY KeepAssumption, FS_CardinalityType
  <1>1. Behind \subseteq Actors /\ Behind' \subseteq Actors
    BY DEF Behind
  <1>2. IsFiniteSet(Behind) /\ IsFiniteSet(Behind')
    BY <1>0, <1>1, FS_Subset
  <1>3. Cardinality(Behind) \in Nat /\ Cardinality(Behind') \in Nat
    BY <1>2, FS_CardinalityType
  <1>4. Behind' \subseteq Behind
    <2>1. CASE UNCHANGED <<pc, job>>
      BY <2>1 DEF Behind
    <2>2. ASSUME NEW a \in Actors, ActorStep(a)
          PROVE  Behind' \subseteq Behind
      <3>1. active \in Nat
        BY DEF BackupsInv, TypeOK
      <3> QED BY <2>2, <3>1, AloneSteps DEF Behind
    <2> QED BY <2>1, <2>2, Steps DEF BackupsInv, Others, Damages
  <1>5. ASSUME NEW a \in Actors, ActorStep(a), pc[a] = "put"
        PROVE  /\ Cardinality(Behind') + 1 <= Cardinality(Actors)
               /\ a \in Behind => Cardinality(Behind') + 1 <= Cardinality(Behind)
    <2>1. a \notin Behind'
      BY <1>5, AloneSteps DEF Behind
    <2>2. Behind' \subseteq Actors \ {a} /\ Behind' \subseteq Behind \ {a}
      BY <1>1, <1>4, <2>1
    <2>3. /\ IsFiniteSet(Actors \ {a}) /\ Cardinality(Actors \ {a}) = Cardinality(Actors) - 1
          /\ IsFiniteSet(Behind \ {a})
          /\ a \in Behind => Cardinality(Behind \ {a}) = Cardinality(Behind) - 1
      BY <1>0, <1>2, FS_RemoveElement
    <2>4. /\ Cardinality(Behind') <= Cardinality(Actors \ {a})
          /\ Cardinality(Behind') <= Cardinality(Behind \ {a})
      BY <2>2, <2>3, FS_Subset
    <2> QED BY <1>0, <1>3, <2>3, <2>4
  <1>6. Cardinality(Behind') <= Cardinality(Behind)
    BY <1>2, <1>4, FS_Subset
  <1> QED BY <1>2, <1>3, <1>5, <1>6

(* What became of the objects of a bucket.                                 *)
LEMMA BucketSteps ==
    ASSUME BackupsInv, [Next]_vars, NEW b \in Buckets
    PROVE  \/ UNCHANGED objects
           \/ Damages
           \/ \E a \in Actors : ActorStep(a) /\ pc[a] = "put" /\ objects' = Stored(a)
           \/ \E a \in Actors : ActorStep(a) /\ Deletes(a)
  BY Steps DEF BackupsInv, Others, ActorStep, Quits, Begins, Prepares, Uploads, Lists,
               Finishes, Restores

(* A deletion deletes what was doomed when the bucket was listed.          *)
LEMMA DeletesOlder ==
    ASSUME BackupsInv, DoomedOlder, NEW a \in Actors, Deletes(a)
    PROVE  Head(job[a].doomed) # active
  <1>1. job[a].doomed \in Seq(Revision)
    BY DEF BackupsInv, TypeOK, Job
  <1>2. 1 \in DOMAIN job[a].doomed /\ Head(job[a].doomed) = job[a].doomed[1]
    BY <1>1 DEF Deletes
  <1> QED BY <1>2 DEF DoomedOlder, Deletes

(* The active revision's object stays in its bucket.                       *)
LEMMA ActiveStays ==
    ASSUME BackupsInv, DoomedOlder, [Next]_vars, NEW b \in Buckets,
           active \in NamesOf(objects[b])
    PROVE  active \in NamesOf(objects'[b])
  <1>1. CASE Damages
    <2>1. /\ DOMAIN objects'[b] = DOMAIN objects[b]
          /\ \A p \in DOMAIN objects[b] : objects'[b][p].revision = objects[b][p].revision
      BY <1>1, DamagedBuckets
    <2> QED BY <2>1 DEF NamesOf
  <1>2. ASSUME NEW a \in Actors, pc[a] = "put", objects' = Stored(a)
        PROVE  active \in NamesOf(objects'[b])
    BY <1>2, StoredBuckets
  <1>3. ASSUME NEW a \in Actors, Deletes(a)
        PROVE  active \in NamesOf(objects'[b])
    <2>1. Head(job[a].doomed) # active
      BY <1>3, DeletesOlder
    <2>2. /\ b # job[a].bucket => objects'[b] = objects[b]
          /\ b = job[a].bucket =>
               NamesOf(objects'[b]) = NamesOf(objects[b]) \ {Head(job[a].doomed)}
      BY <1>3, DeletedBuckets
    <2> QED BY <2>1, <2>2
  <1> QED BY <1>1, <1>2, <1>3, BucketSteps

(* The active revision's object keeps its room.                            *)
LEMMA HighEnoughStep ==
    ASSUME BackupsInv, HighEnough, [Next]_vars
    PROVE  HighEnough'
  <1>0. /\ active \in Nat /\ objects \in [Buckets -> Seq(Object)]
        /\ Cardinality(Actors) \in Nat
        /\ \A b \in Buckets : DOMAIN objects[b] \subseteq Nat
    BY KeepAssumption, FS_CardinalityType DEF BackupsInv, TypeOK
  <1>1. CASE active' # active
    <2>1. active' = active + 1 /\ UNCHANGED objects
      BY <1>1, Steps DEF BackupsInv, Others, Damages, ActorStep
    <2>2. \A b \in Buckets : \A p \in DOMAIN objects[b] : objects[b][p].revision # active'
      BY <1>0, <2>1 DEF BackupsInv, ObjectsInv
    <2> QED BY <2>1, <2>2 DEF HighEnough
  <1>2. ASSUME active' = active
        PROVE  HighEnough'
    <2> DEFINE n == Cardinality(Behind)
               m == Cardinality(Behind')
    <2>0. /\ IsFiniteSet(Behind) /\ m \in Nat /\ m <= n
          /\ \A a \in Actors : ActorStep(a) /\ pc[a] = "put" =>
               m + 1 <= Cardinality(Actors) /\ (a \in Behind => m + 1 <= n)
      BY <1>2, BehindStep
    <2>a. n \in Nat
      BY <2>0, FS_CardinalityType
    <2>b. \A b \in Buckets : \A p \in DOMAIN objects[b] :
            objects[b][p].revision = active => p + n <= Cardinality(Actors)
      BY DEF HighEnough
    <2> HIDE DEF n, m
    <2> SUFFICES ASSUME NEW b \in Buckets, NEW p \in DOMAIN objects'[b],
                        objects'[b][p].revision = active
                 PROVE  p + m <= Cardinality(Actors)
      BY <1>2 DEF HighEnough, n, m
    <2>1. ASSUME NEW q \in DOMAIN objects[b], p \in Nat, p <= q,
                 objects[b][q].revision = active
          PROVE  p + m <= Cardinality(Actors)
      <3>1. q + n <= Cardinality(Actors) /\ q \in Nat
        BY <1>0, <2>1, <2>b
      <3> QED BY <1>0, <2>0, <2>a, <2>1, <3>1
    <2>2. CASE UNCHANGED objects
      BY <1>0, <2>1, <2>2
    <2>3. CASE Damages
      <3>1. /\ DOMAIN objects'[b] = DOMAIN objects[b]
            /\ objects'[b][p].revision = objects[b][p].revision
        BY <2>3, DamagedBuckets
      <3>2. p \in DOMAIN objects[b] /\ p \in Nat /\ p <= p
        BY <1>0, <3>1
      <3> QED BY <2>1, <3>1, <3>2
    <2>4. ASSUME NEW a \in Actors, Deletes(a)
          PROVE  p + m <= Cardinality(Actors)
      <3>1. objects'[b] \in Seq(Object)
        BY <2>4, DeletedBuckets
      <3>2. p \in Nat
        BY <3>1
      <3> QED BY <2>1, <2>4, <3>2, DeletedBuckets
    <2>5. ASSUME NEW a \in Actors, ActorStep(a), pc[a] = "put", objects' = Stored(a)
          PROVE  p + m <= Cardinality(Actors)
      <3>1. objects'[b] \in Seq(Object) /\ Distinct(objects'[b])
        BY <2>5, StoredBuckets
      <3>2. p \in Nat /\ DOMAIN objects'[b] = 1 .. Len(objects'[b])
        BY <3>1
      <3>3. CASE p = 1
        BY <2>0, <2>5, <3>3
      <3>4. CASE b # job[a].bucket
        BY <2>1, <2>5, <3>2, <3>4, StoredBuckets
      <3>5. ASSUME p # 1, b = job[a].bucket
            PROVE  p + m <= Cardinality(Actors)
        <4>1. 1 \in DOMAIN objects'[b] /\ objects'[b][1] = Fresh(a)
          BY <2>5, <3>5, StoredBuckets
        <4>2. job[a].revision # active
          BY <3>1, <3>5, <4>1 DEF Distinct, Fresh
        <4>3. a \in Behind
          BY <2>5, <4>2 DEF BackupsInv, LocalsInv, Behind
        <4>4. PICK q \in DOMAIN objects[b] : p <= q + 1 /\ objects'[b][p] = objects[b][q]
          BY <2>5, <3>5, StoredBuckets
        <4>5. q + n <= Cardinality(Actors) /\ q \in Nat
          BY <1>0, <2>b, <4>4
        <4>6. m + 1 <= n
          BY <2>0, <2>5, <4>3
        <4> QED BY <1>0, <2>0, <2>a, <3>2, <4>4, <4>5, <4>6
      <3> QED BY <3>3, <3>4, <3>5
    <2> QED BY <2>2, <2>3, <2>4, <2>5, BucketSteps
  <1> QED BY <1>1, <1>2

(* A listing dooms no object that has room before the place where pruning  *)
(* starts.                                                                 *)
LEMMA DoomedOlderStep ==
    ASSUME BackupsInv, HighEnough, DoomedOlder, [Next]_vars
    PROVE  DoomedOlder'
  <1>0. /\ active \in Nat /\ pc \in [Actors -> Locations] /\ job \in [Actors -> Job]
        /\ objects \in [Buckets -> Seq(Object)]
    BY DEF BackupsInv, TypeOK
  <1>1. CASE UNCHANGED <<pc, job>> /\ active' \in {active, active + 1}
    BY <1>0, <1>1 DEF DoomedOlder
  <1>2. ASSUME NEW a \in Actors, ActorStep(a)
        PROVE  DoomedOlder'
    <2>0. /\ UNCHANGED active
          /\ \A p \in Actors : p # a => pc'[p] = pc[p] /\ job'[p] = job[p]
      BY <1>2, AloneSteps
    <2> SUFFICES ASSUME pc'[a] = "delete", NEW i \in DOMAIN job'[a].doomed
                 PROVE  job'[a].doomed[i] \in 1 .. active /\ job'[a].doomed[i] # active
      BY <2>0 DEF DoomedOlder
    <2>1. CASE Lists(a)
      <3> DEFINE bucket == objects[job[a].bucket]
      <3>1. bucket \in Seq(Object) /\ job[a].bucket \in Buckets
        BY <1>0, <2>1 DEF Lists, BackupsInv, LocalsInv
      <3>2. job'[a].doomed = Doomed(bucket)
        BY <1>0, <2>1 DEF Lists, Moves, Job
      <3>3. /\ Keep + i \in DOMAIN bucket /\ i > 0
            /\ job'[a].doomed[i] = bucket[Keep + i].revision
        BY <3>1, <3>2, DoomedRows
      <3>4. bucket[Keep + i].revision \in 1 .. active
        BY <3>1, <3>3 DEF BackupsInv, ObjectsInv
      <3>5. i \in Nat /\ Keep \in Nat
        <4>1. Doomed(bucket) \in Seq(Revision)
          BY <3>1, DoomedRows
        <4>2. i \in DOMAIN Doomed(bucket)
          BY <3>2
        <4> QED BY <4>1, <4>2, KeepAssumption
      <3>6. bucket[Keep + i].revision # active
        <4>1. SUFFICES ASSUME bucket[Keep + i].revision = active PROVE FALSE
          OBVIOUS
        <4>2. Keep + i + Cardinality(Behind) <= Cardinality(Actors)
          BY <3>1, <3>3, <4>1 DEF HighEnough
        <4>3. Cardinality(Behind) \in Nat /\ Cardinality(Actors) \in Nat
          BY KeepAssumption, FS_Subset, FS_CardinalityType DEF Behind
        <4> QED BY <3>3, <3>5, <4>2, <4>3, KeepAssumption
      <3> QED BY <3>3, <3>4, <3>6
    <2>2. CASE Deletes(a)
      <3>1. job[a].doomed \in Seq(Revision) /\ job[a].doomed # <<>>
        BY <1>0, <2>2 DEF Deletes, Job
      <3>2. job'[a].doomed = Tail(job[a].doomed)
        BY <1>0, <2>2 DEF Deletes, Moves, Job
      <3>3. i + 1 \in DOMAIN job[a].doomed /\ job'[a].doomed[i] = job[a].doomed[i + 1]
        BY <3>1, <3>2
      <3> QED BY <2>2, <3>3 DEF DoomedOlder, Deletes
    <2>3. CASE ~Lists(a) /\ ~Deletes(a)
      BY <1>0, <1>2, <2>3 DEF ActorStep, Quits, Begins, Prepares, Uploads, Finishes, Restores, Moves
    <2> QED BY <2>1, <2>2, <2>3
  <1> QED BY <1>1, <1>2, Steps DEF BackupsInv, Others, Damages

(* An upload of the active revision is found where it was uploaded to.     *)
LEMMA UploadedThereStep ==
    ASSUME BackupsInv, DoomedOlder, UploadedThere, [Next]_vars
    PROVE  UploadedThere'
  <1>0. /\ active \in Nat /\ pc \in [Actors -> Locations] /\ job \in [Actors -> Job]
    BY DEF BackupsInv, TypeOK
  <1>1. ASSUME NEW a \in Actors, pc[a] \in {"list", "delete", "record"}
        PROVE  job[a].revision \in 1 .. active /\ job[a].bucket \in Buckets
    BY <1>1 DEF BackupsInv, LocalsInv
  <1> SUFFICES ASSUME NEW a \in Actors, pc'[a] \in {"list", "delete", "record"},
                      job'[a].revision = active'
               PROVE  active' \in NamesOf(objects'[job'[a].bucket])
    BY DEF UploadedThere
  <1>2. CASE pc'[a] = pc[a] /\ job'[a] = job[a]
    <2>1. active' = active
      BY <1>0, <1>1, <1>2, Steps DEF BackupsInv, Others, Damages, ActorStep
    <2>2. active \in NamesOf(objects[job[a].bucket])
      BY <1>2, <2>1 DEF UploadedThere
    <2> QED BY <1>1, <1>2, <2>1, <2>2, ActiveStays
  <1>3. ASSUME ActorStep(a), Uploads(a)
        PROVE  active' \in NamesOf(objects'[job'[a].bucket])
    <2>1. job'[a] = job[a] /\ active' = active
      BY <1>0, <1>3 DEF Uploads, Moves, ActorStep
    <2>2. job[a].bucket \in Buckets
      BY <1>3 DEF Uploads, BackupsInv, LocalsInv
    <2>3. NamesOf(objects'[job[a].bucket])
            = NamesOf(objects[job[a].bucket]) \cup {job[a].revision}
      BY <1>3, <2>2, StoredBuckets DEF Uploads
    <2> QED BY <2>1, <2>3
  <1>4. ASSUME ActorStep(a), Lists(a) \/ Deletes(a) \/ Finishes(a)
        PROVE  active' \in NamesOf(objects'[job'[a].bucket])
    <2>1. /\ job'[a].revision = job[a].revision /\ job'[a].bucket = job[a].bucket
          /\ pc[a] \in {"list", "delete", "record"} /\ active' = active
      <3>1. job[a] \in Job
        BY <1>0
      <3> QED BY <1>0, <1>4, <3>1 DEF Lists, Deletes, Finishes, Moves, ActorStep, Job
    <2>2. active \in NamesOf(objects[job[a].bucket])
      BY <2>1 DEF UploadedThere
    <2> QED BY <1>1, <2>1, <2>2, ActiveStays
  <1>5. CASE ActorStep(a)
    BY <1>0, <1>3, <1>4, <1>5 DEF ActorStep, Quits, Begins, Prepares, Restores, Moves
  <1>6. ASSUME NEW p \in Actors, ActorStep(p), p # a
        PROVE  pc'[a] = pc[a] /\ job'[a] = job[a]
    BY <1>6, AloneSteps
  <1> QED BY <1>2, <1>5, <1>6, Steps DEF BackupsInv, Others, Damages

(* A backup of the active revision that is recorded is found there too.    *)
LEMMA RecordedThereStep ==
    ASSUME BackupsInv, DoomedOlder, UploadedThere, RecordedThere, [Next]_vars
    PROVE  RecordedThere'
  <1>0. /\ active \in Nat
        /\ \A r \in records : r.status = "uploaded" => r.bucket \in Buckets
    BY DEF BackupsInv, TypeOK
  <1>1. active' \in {active, active + 1}
    BY Steps DEF BackupsInv, Others, Damages, ActorStep
  <1>2. ASSUME NEW r \in records
        PROVE  /\ r.revision \in 1 .. active'
               /\ r.revision = active' /\ r.status = "uploaded"
                    => active' \in NamesOf(objects'[r.bucket])
    <2>1. r.revision \in 1 .. active
      BY DEF RecordedThere
    <2>2. CASE active' = active
      <3>1. r.revision = active /\ r.status = "uploaded"
              => active \in NamesOf(objects[r.bucket])
        BY DEF RecordedThere
      <3> QED BY <1>0, <2>1, <2>2, <3>1, ActiveStays
    <2>3. CASE active' = active + 1
      BY <1>0, <2>1, <2>3
    <2> QED BY <1>1, <2>2, <2>3
  <1>3. CASE UNCHANGED records
    BY <1>2, <1>3 DEF RecordedThere
  <1>4. ASSUME NEW a \in Actors, pc[a] = "record", UNCHANGED <<active, objects>>,
               records' = records \cup {RecordOf(a)}
        PROVE  RecordedThere'
    <2>1. job[a].revision \in 1 .. active
      BY <1>4 DEF BackupsInv, LocalsInv
    <2>2. job[a].revision = active => active \in NamesOf(objects[job[a].bucket])
      BY <1>4 DEF UploadedThere
    <2>3. RecordOf(a).revision = job[a].revision /\ RecordOf(a).bucket = job[a].bucket
      BY DEF RecordOf
    <2> QED BY <1>2, <1>4, <2>1, <2>2, <2>3 DEF RecordedThere
  <1>5. ASSUME pc[Scheduler] = "note", UNCHANGED active,
               records' = records \cup {[revision |-> job[Scheduler].revision,
                                         bucket |-> NoBucket, status |-> "failed"]}
        PROVE  RecordedThere'
    <2>1. job[Scheduler].revision \in 1 .. active
      BY <1>5 DEF BackupsInv, LocalsInv, Actors
    <2> QED BY <1>2, <1>5, <2>1 DEF RecordedThere
  <1> QED BY <1>3, <1>4, <1>5, RecordsSteps DEF RecordsStep

(* No pruning deletes the recorded backup of the active revision: as many  *)
(* backups can run at a time as objects are kept, each of an older         *)
(* revision pushes it down by one, and a listing dooms what is behind the  *)
(* kept ones (service.rs:113, s3.rs:245).                                  *)
THEOREM ActiveKeptHolds == Spec => []ActiveKept
  <1>1. Init => KeptInv
    BY DEF Init, KeptInv, HighEnough, DoomedOlder, UploadedThere, RecordedThere
  <1>2. BackupsInv /\ KeptInv /\ [Next]_vars => KeptInv'
    BY HighEnoughStep, DoomedOlderStep, UploadedThereStep, RecordedThereStep DEF KeptInv
  <1>3. KeptInv => ActiveKept
    BY DEF KeptInv, RecordedThere, ActiveKept, NamesOf
  <1> QED BY <1>1, <1>2, <1>3, BackupsAlways, PTL DEF Spec

------------------------------------------------------------------------------
(* Why no more objects are left than pruning keeps, and some for uploads   *)
(* that are under way or failed.                                           *)

Listing(b) == {a \in Actors : job[a].bucket = b /\ pc[a] = "list"}
Deleting(b) == {a \in Actors : job[a].bucket = b /\ pc[a] = "delete"}

(* The names left in a bucket when the prunings T have done their work.    *)
Left(b, T) == NamesOf(objects[b]) \ UNION {Range(job[a].doomed) : a \in T}

(* Whichever prunings go on to delete what they listed, what is left is    *)
(* what is kept, what failures left, and one for each upload whose pruning *)
(* lists later or does not go on.                                          *)
PrunedInv ==
    \A b \in Buckets : \A T \in SUBSET Deleting(b) :
        Cardinality(Left(b, T)) <=
            Keep + faults + Cardinality(Listing(b)) + Cardinality(Deleting(b) \ T)

(* All these sets are finite, before and after a step.                     *)
LEMMA PrunedFinite ==
    ASSUME BackupsInv, [Next]_vars, NEW b \in Buckets
    PROVE  /\ Keep \in Nat /\ faults \in Nat /\ faults' \in Nat /\ faults <= faults'
           /\ IsFiniteSet(Listing(b)) /\ IsFiniteSet(Listing(b)')
           /\ Cardinality(Listing(b)) \in Nat /\ Cardinality(Listing(b)') \in Nat
           /\ IsFiniteSet(Deleting(b)) /\ IsFiniteSet(Deleting(b)')
           /\ \A T : /\ IsFiniteSet(Deleting(b) \ T) /\ Cardinality(Deleting(b) \ T) \in Nat
                     /\ IsFiniteSet(Deleting(b)' \ T) /\ Cardinality(Deleting(b)' \ T) \in Nat
           /\ IsFiniteSet(NamesOf(objects[b])) /\ IsFiniteSet(NamesOf(objects'[b]))
  <1>1. /\ Listing(b) \in SUBSET Actors /\ Listing(b)' \in SUBSET Actors
        /\ Deleting(b) \in SUBSET Actors /\ Deleting(b)' \in SUBSET Actors
    BY DEF Listing, Deleting
  <1>2. IsFiniteSet(Actors) /\ Keep \in Nat
    BY KeepAssumption
  <1>3. /\ IsFiniteSet(Listing(b)) /\ IsFiniteSet(Listing(b)')
        /\ IsFiniteSet(Deleting(b)) /\ IsFiniteSet(Deleting(b)')
    BY <1>1, <1>2, FS_Subset
  <1>4. \A T : IsFiniteSet(Deleting(b) \ T) /\ IsFiniteSet(Deleting(b)' \ T)
    <2> TAKE T
    <2>1. Deleting(b) \ T \in SUBSET Deleting(b) /\ Deleting(b)' \ T \in SUBSET Deleting(b)'
      OBVIOUS
    <2> QED BY <1>3, <2>1, FS_Subset
  <1>5. /\ objects[b] \in Seq(Object) /\ Distinct(objects[b])
        /\ objects'[b] \in Seq(Object) /\ Distinct(objects'[b])
    BY ObjectsStep DEF BackupsInv, TypeOK, ObjectsInv
  <1>6. IsFiniteSet(NamesOf(objects[b])) /\ IsFiniteSet(NamesOf(objects'[b]))
    BY <1>5, NamesCount
  <1>7. faults \in Nat /\ faults' \in Nat /\ faults <= faults'
    BY Steps DEF BackupsInv, TypeOK
  <1> QED BY <1>2, <1>3, <1>4, <1>6, <1>7, FS_CardinalityType

(* One name more at most is one more that is left.                         *)
LEMMA LeftCount ==
    ASSUME NEW S, IsFiniteSet(S), NEW U, NEW x
    PROVE  /\ U \subseteq S => Cardinality(U) <= Cardinality(S)
           /\ U \subseteq S \cup {x} => Cardinality(U) <= Cardinality(S) + 1
           /\ U \subseteq S \cup {x} => IsFiniteSet(U) /\ Cardinality(U) \in Nat
           /\ Cardinality(S) \in Nat
  <1>1. Cardinality(S) \in Nat
    BY FS_CardinalityType
  <1>2. /\ IsFiniteSet(S \cup {x})
        /\ Cardinality(S \cup {x}) \in {Cardinality(S), Cardinality(S) + 1}
    BY FS_AddElement
  <1>3. U \subseteq S \cup {x} => /\ IsFiniteSet(U) /\ Cardinality(U) \in Nat
                                  /\ Cardinality(U) <= Cardinality(S \cup {x})
    BY <1>2, FS_Subset, FS_CardinalityType
  <1>4. U \subseteq S => Cardinality(U) <= Cardinality(S)
    BY FS_Subset
  <1> QED BY <1>1, <1>2, <1>3, <1>4

(* What is left when a pruning that has just listed has done its work.     *)
LEMMA DoomedLeaves ==
    ASSUME NEW bucket \in Seq(Object), NEW U,
           U \subseteq NamesOf(bucket) \ Range(Doomed(bucket))
    PROVE  Cardinality(U) <= Keep
  <1>0. Keep \in Nat /\ DOMAIN bucket = 1 .. Len(bucket)
    BY KeepAssumption
  <1> DEFINE n == IF Len(bucket) < Keep THEN Len(bucket) ELSE Keep
             name == [i \in 1 .. n |-> bucket[i].revision]
             kept == Range(name)
  <1>1. n \in Nat /\ n <= Keep /\ \A p \in 1 .. Len(bucket) : p <= Keep => p \in 1 .. n
    BY <1>0
  <1> HIDE DEF n
  <1>2. IsFiniteSet(kept) /\ Cardinality(kept) <= Keep
    <2>1. IsFiniteSet(1 .. n) /\ Cardinality(1 .. n) = n
      BY <1>1, FS_Interval
    <2>2. name \in Surjection(1 .. n, kept)
      BY DEF Surjection, Range
    <2> HIDE DEF name, kept
    <2>3. IsFiniteSet(kept) /\ Cardinality(kept) <= n
      BY <2>1, <2>2, FS_Surjection
    <2>4. Cardinality(kept) \in Nat
      BY <2>3, FS_CardinalityType
    <2> QED BY <1>0, <1>1, <2>3, <2>4
  <1>3. U \subseteq kept
    <2> SUFFICES ASSUME NEW u \in U PROVE u \in kept
      OBVIOUS
    <2>1. PICK p \in DOMAIN bucket : u = bucket[p].revision
      BY DEF NamesOf
    <2>2. ~(p > Keep)
      BY <2>1, DoomedRows
    <2>3. p \in 1 .. n
      BY <1>0, <1>1, <2>2
    <2>4. p \in DOMAIN name /\ name[p] = u
      BY <2>1, <2>3
    <2> QED BY <2>4 DEF Range
  <1> HIDE DEF kept
  <1>4. Cardinality(U) <= Cardinality(kept) /\ Cardinality(U) \in Nat /\ Cardinality(kept) \in Nat
    BY <1>2, <1>3, LeftCount
  <1> QED BY <1>0, <1>2, <1>4

(* Two sets that differ in one element at most.                            *)
LEMMA MemberCount ==
    ASSUME NEW S, NEW R, IsFiniteSet(S), NEW x, R \ {x} = S \ {x}
    PROVE  /\ (x \in R <=> x \in S) => Cardinality(R) = Cardinality(S)
           /\ x \in R /\ x \notin S => Cardinality(R) = Cardinality(S) + 1
           /\ x \notin R /\ x \in S => Cardinality(R) = Cardinality(S) - 1
  <1>0. \A y : y # x => (y \in R <=> y \in S)
    <2> TAKE y
    <2>1. (y \in R /\ y # x <=> y \in R \ {x}) /\ (y \in S /\ y # x <=> y \in S \ {x})
      OBVIOUS
    <2> QED BY <2>1
  <1>1. ASSUME x \in R <=> x \in S PROVE R = S
    <2>1. \A y : y \in R <=> y \in S
      BY <1>0, <1>1
    <2> QED BY <2>1
  <1>2. ASSUME x \in R, x \notin S PROVE R = S \cup {x}
    <2>1. \A y : y \in R <=> y \in S \cup {x}
      BY <1>0, <1>2
    <2> QED BY <2>1
  <1>3. ASSUME x \notin R, x \in S PROVE R = S \ {x}
    <2>1. \A y : y \in R <=> y \in S \ {x}
      BY <1>0, <1>3
    <2> QED BY <2>1
  <1> QED BY <1>1, <1>2, <1>3, FS_AddElement, FS_RemoveElement

(* What is left depends on what the prunings have still to delete.         *)
LEMMA LeftStep ==
    ASSUME NEW b, NEW T, \A a \in T : Range(job'[a].doomed) = Range(job[a].doomed), NEW x
    PROVE  /\ NamesOf(objects'[b]) \subseteq NamesOf(objects[b])
                => Left(b, T)' \subseteq Left(b, T)
           /\ NamesOf(objects'[b]) \subseteq NamesOf(objects[b]) \cup {x}
                => Left(b, T)' \subseteq Left(b, T) \cup {x}
  <1>1. \A u : /\ u \in Left(b, T) <=> /\ u \in NamesOf(objects[b])
                                      /\ \A a \in T : u \notin Range(job[a].doomed)
               /\ u \in Left(b, T)' <=> /\ u \in NamesOf(objects'[b])
                                       /\ \A a \in T : u \notin Range(job'[a].doomed)
    <2>1. \A u : u \in NamesOf(objects[b])' <=> u \in NamesOf(objects'[b])
      BY DEF NamesOf
    <2> QED BY <2>1 DEF Left
  <1> QED BY <1>1

(* The goal of the next lemmas for a bucket and the prunings that go on.   *)
Bounded(b, T) ==
    Cardinality(Left(b, T)) <=
        Keep + faults + Cardinality(Listing(b)) + Cardinality(Deleting(b) \ T)

(* A name at most is left that was not, and there is room for it.          *)
LEMMA BoundedStep ==
    ASSUME BackupsInv, PrunedInv, [Next]_vars, NEW b \in Buckets,
           NEW T \in SUBSET (Deleting(b)'), NEW U \in SUBSET Deleting(b),
           NEW x, NEW more \in {0, 1},
           Left(b, T)' \subseteq IF more = 1 THEN Left(b, U) \cup {x} ELSE Left(b, U),
           faults + Cardinality(Listing(b)) + Cardinality(Deleting(b) \ U) + more
             <= faults' + Cardinality(Listing(b)') + Cardinality(Deleting(b)' \ T)
    PROVE  Bounded(b, T)'
  <1>1. /\ Keep \in Nat /\ faults \in Nat /\ faults' \in Nat
        /\ Cardinality(Listing(b)) \in Nat /\ Cardinality(Listing(b)') \in Nat
        /\ Cardinality(Deleting(b) \ U) \in Nat /\ Cardinality(Deleting(b)' \ T) \in Nat
        /\ IsFiniteSet(NamesOf(objects[b]))
    BY PrunedFinite
  <1>2. Cardinality(Left(b, U)) <=
          Keep + faults + Cardinality(Listing(b)) + Cardinality(Deleting(b) \ U)
    BY DEF PrunedInv
  <1>3. IsFiniteSet(Left(b, U))
    <2>1. Left(b, U) \in SUBSET NamesOf(objects[b])
      BY DEF Left
    <2> QED BY <1>1, <2>1, FS_Subset
  <1>4. /\ Cardinality(Left(b, T)') \in Nat /\ Cardinality(Left(b, U)) \in Nat
        /\ Cardinality(Left(b, T)') <= Cardinality(Left(b, U)) + more
    <2>1. more = 0 \/ more = 1
      OBVIOUS
    <2>2. Left(b, T)' \subseteq Left(b, U) \cup {x}
      BY <2>1
    <2>3. more = 0 => Left(b, T)' \subseteq Left(b, U)
      OBVIOUS
    <2>4. /\ Cardinality(Left(b, T)') \in Nat /\ Cardinality(Left(b, U)) \in Nat
          /\ Cardinality(Left(b, T)') <= Cardinality(Left(b, U)) + 1
          /\ more = 0 => Cardinality(Left(b, T)') <= Cardinality(Left(b, U))
      BY <1>3, <2>2, <2>3, LeftCount
    <2> QED BY <2>1, <2>4
  <1> DEFINE before == faults + Cardinality(Listing(b)) + Cardinality(Deleting(b) \ U)
             f1 == faults'
             l1 == Cardinality(Listing(b)')
             d1 == Cardinality(Deleting(b)' \ T)
  <1>5. before \in Nat /\ more \in Nat /\ f1 \in Nat /\ l1 \in Nat /\ d1 \in Nat
    BY <1>1
  <1>6. Cardinality(Left(b, U)) <= Keep + before
    BY <1>1, <1>2
  <1>7. before + more <= f1 + l1 + d1
    OBVIOUS
  <1> HIDE DEF before, f1, l1, d1
  <1>8. Cardinality(Left(b, T)') <= Keep + f1 + l1 + d1
    <2> DEFINE after == f1 + l1 + d1
    <2>1. after \in Nat /\ before + more <= after /\ Keep + after = Keep + f1 + l1 + d1
      BY <1>1, <1>5, <1>7
    <2> HIDE DEF after
    <2>2. Cardinality(Left(b, T)') <= Keep + after
      BY <1>1, <1>4, <1>5, <1>6, <2>1
    <2> QED BY <2>1, <2>2
  <1> QED BY <1>8 DEF Bounded, f1, l1, d1

(* A step of one actor: it uploads, lists, deletes, goes on or gives up.   *)
LEMMA BoundedActorStep ==
    ASSUME BackupsInv, PrunedInv, [Next]_vars, NEW a \in Actors, ActorStep(a),
           NEW b \in Buckets, NEW T \in SUBSET (Deleting(b)')
    PROVE  Bounded(b, T)'
  <1> DEFINE c == job[a].bucket
             f1 == faults'
             l0 == Cardinality(Listing(b))
             l1 == Cardinality(Listing(b)')
             d0 == Cardinality(Deleting(b) \ T)
             d1 == Cardinality(Deleting(b)' \ T)
  <1>0. /\ pc \in [Actors -> Locations] /\ job \in [Actors -> Job] /\ job[a] \in Job
        /\ objects \in [Buckets -> Seq(Object)]
    BY DEF BackupsInv, TypeOK
  <1>1. \A p \in Actors : p # a => pc'[p] = pc[p] /\ job'[p] = job[p]
    BY AloneSteps
  <1>2. /\ faults \in Nat /\ f1 \in Nat /\ faults <= f1
        /\ IsFiniteSet(Listing(b)) /\ IsFiniteSet(Deleting(b) \ T)
        /\ l0 \in Nat /\ l1 \in Nat /\ d0 \in Nat /\ d1 \in Nat
    BY PrunedFinite
  <1>3. /\ a \in Listing(b) <=> pc[a] = "list" /\ c = b
        /\ a \in Deleting(b) <=> pc[a] = "delete" /\ c = b
        /\ a \in Listing(b)' <=> pc'[a] = "list" /\ job'[a].bucket = b
        /\ a \in Deleting(b)' <=> pc'[a] = "delete" /\ job'[a].bucket = b
    BY DEF Listing, Deleting
  <1>4. /\ Listing(b)' \ {a} = Listing(b) \ {a}
        /\ (Deleting(b)' \ T) \ {a} = (Deleting(b) \ T) \ {a}
        /\ \A p \in T : p # a => p \in Deleting(b)
    BY <1>1 DEF Listing, Deleting
  <1>5. /\ (a \in Listing(b)' <=> a \in Listing(b)) => l1 = l0
        /\ a \in Listing(b)' /\ a \notin Listing(b) => l1 = l0 + 1
        /\ a \notin Listing(b)' /\ a \in Listing(b) => l1 = l0 - 1
    BY <1>2, <1>4, MemberCount
  <1>6. /\ (a \in Deleting(b)' \ T <=> a \in Deleting(b) \ T) => d1 = d0
        /\ a \in Deleting(b)' \ T /\ a \notin Deleting(b) \ T => d1 = d0 + 1
        /\ a \notin Deleting(b)' \ T /\ a \in Deleting(b) \ T => d1 = d0 - 1
    BY <1>2, <1>4, MemberCount
  <1> HIDE DEF f1, l0, l1, d0, d1
  <1>7. ASSUME a \notin T
        PROVE  /\ T \in SUBSET Deleting(b)
               /\ \A p \in T : Range(job'[p].doomed) = Range(job[p].doomed)
    <2>1. \A p \in T : p # a /\ p \in Actors
      BY <1>4, <1>7 DEF Deleting
    <2> QED BY <1>1, <1>4, <2>1
  <1>8. ASSUME a \notin T, UNCHANGED objects, faults + l0 + d0 <= f1 + l1 + d1
        PROVE  Bounded(b, T)'
    <2>1. Left(b, T)' \subseteq Left(b, T)
      BY <1>7, <1>8, LeftStep
    <2>2. /\ 0 \in {0, 1} /\ T \in SUBSET Deleting(b)
          /\ faults + l0 + d0 + 0 <= f1 + l1 + d1
      BY <1>2, <1>7, <1>8
    <2> QED BY <2>1, <2>2, BoundedStep DEF f1, l0, l1, d0, d1
  <1>9. ASSUME a \notin T, pc[a] = "put", objects' = Stored(a), c = b,
               faults + l0 + d0 + 1 <= f1 + l1 + d1
        PROVE  Bounded(b, T)'
    <2>1. NamesOf(objects'[b]) = NamesOf(objects[b]) \cup {job[a].revision}
      BY <1>9, StoredBuckets
    <2>2. Left(b, T)' \subseteq Left(b, T) \cup {job[a].revision}
      BY <1>7, <1>9, <2>1, LeftStep
    <2>3. 1 \in {0, 1} /\ T \in SUBSET Deleting(b)
      BY <1>7, <1>9
    <2> QED BY <1>9, <2>2, <2>3, BoundedStep DEF f1, l0, l1, d0, d1
  <1>10. ASSUME a \notin T, pc[a] = "put", objects' = Stored(a), c # b,
                faults + l0 + d0 <= f1 + l1 + d1
         PROVE  Bounded(b, T)'
    <2>1. objects'[b] = objects[b]
      BY <1>10, StoredBuckets
    <2>2. Left(b, T)' \subseteq Left(b, T)
      BY <1>7, <1>10, <2>1, LeftStep
    <2>3. /\ 0 \in {0, 1} /\ T \in SUBSET Deleting(b)
          /\ faults + l0 + d0 + 0 <= f1 + l1 + d1
      BY <1>2, <1>7, <1>10
    <2> QED BY <2>2, <2>3, BoundedStep DEF f1, l0, l1, d0, d1
  <1> HIDE DEF c
  <1>11. CASE Quits(a)
    <2>1. pc'[a] \in {"idle", "note"}
      BY <1>0, <1>11 DEF Quits, Moves
    <2>2. a \notin Listing(b)' /\ a \notin Deleting(b)' /\ a \notin T
      BY <1>3, <2>1
    <2>3. ~(a \in Listing(b) /\ a \in Deleting(b) \ T)
      BY <1>3
    <2>4. a \in Listing(b) \/ a \in Deleting(b) \ T => f1 = faults + 1
      BY <1>3, <1>11 DEF Quits, f1
    <2>5. faults + l0 + d0 <= f1 + l1 + d1
      BY <1>2, <1>5, <1>6, <2>2, <2>3, <2>4
    <2>6. CASE UNCHANGED objects
      BY <1>8, <2>2, <2>5, <2>6
    <2>7. CASE pc[a] = "put" /\ objects' = Stored(a) /\ f1 = faults + 1
      <3>1. l1 = l0 /\ d1 = d0
        BY <1>3, <1>5, <1>6, <2>2, <2>7
      <3>2. faults + l0 + d0 + 1 <= f1 + l1 + d1
        BY <1>2, <2>7, <3>1
      <3> QED BY <1>9, <1>10, <2>2, <2>5, <2>7, <3>2
    <2> QED BY <1>11, <2>6, <2>7 DEF Quits, f1
  <1>12. CASE Begins(a) \/ Prepares(a) \/ Restores(a)
    <2>1. /\ UNCHANGED objects /\ pc[a] \notin {"list", "delete"}
          /\ pc'[a] \notin {"list", "delete"}
      BY <1>0, <1>12 DEF Begins, Prepares, Restores, Moves
    <2>2. l1 = l0 /\ d1 = d0 /\ a \notin T
      BY <1>3, <1>5, <1>6, <2>1
    <2>3. faults + l0 + d0 <= f1 + l1 + d1
      BY <1>2, <2>2
    <2> QED BY <1>8, <2>1, <2>2, <2>3
  <1>13. CASE Uploads(a)
    <2>1. /\ pc[a] = "put" /\ objects' = Stored(a) /\ pc'[a] = "list"
          /\ job'[a].bucket = c
      BY <1>0, <1>13 DEF Uploads, Moves, c
    <2>2. /\ d1 = d0 /\ a \notin T
          /\ c = b => l1 = l0 + 1
          /\ c # b => l1 = l0
      BY <1>3, <1>5, <1>6, <2>1
    <2>3. /\ c = b => faults + l0 + d0 + 1 <= f1 + l1 + d1
          /\ c # b => faults + l0 + d0 <= f1 + l1 + d1
      BY <1>2, <2>2
    <2> QED BY <1>9, <1>10, <2>1, <2>2, <2>3
  <1>14. CASE Lists(a)
    <2>1. /\ pc[a] = "list" /\ UNCHANGED objects /\ pc'[a] = "delete"
          /\ job'[a].bucket = c /\ job'[a].doomed = Doomed(objects[c])
      BY <1>0, <1>14 DEF Lists, Moves, c, Job
    <2>2. CASE a \notin T
      <3>1. l1 + d1 = l0 + d0
        BY <1>2, <1>3, <1>5, <1>6, <2>1, <2>2
      <3>2. faults + l0 + d0 <= f1 + l1 + d1
        BY <1>2, <3>1
      <3> QED BY <1>8, <2>1, <2>2, <3>2
    <2>3. CASE a \in T
      <3>1. c = b
        BY <1>3, <2>1, <2>3
      <3>2. Left(b, T)' \subseteq NamesOf(objects[b]) \ Range(Doomed(objects[b]))
        <4>1. Left(b, T)' \subseteq NamesOf(objects[b])
          BY <2>1 DEF Left, NamesOf
        <4>2. Left(b, T)' \cap Range(job'[a].doomed) = {}
          BY <2>3 DEF Left
        <4> QED BY <2>1, <3>1, <4>1, <4>2
      <3>3. Cardinality(Left(b, T)') <= Keep
        BY <1>0, <3>2, DoomedLeaves
      <3>4. Cardinality(Left(b, T)') \in Nat
        <4>1. IsFiniteSet(NamesOf(objects[b])) /\ Left(b, T)' \in SUBSET NamesOf(objects[b])
          BY <3>2, PrunedFinite
        <4>2. IsFiniteSet(Left(b, T)')
          BY <4>1, FS_Subset
        <4> QED BY <4>2, FS_CardinalityType
      <3>5. Cardinality(Left(b, T)') <= Keep + f1 + l1 + d1
        BY <1>2, <3>3, <3>4, KeepAssumption
      <3> QED BY <3>5 DEF Bounded, f1, l1, d1
    <2> QED BY <2>2, <2>3
  <1>15. CASE Deletes(a)
    <2>1. /\ pc[a] = "delete" /\ pc'[a] = "delete" /\ job'[a].bucket = c
          /\ job'[a].doomed = Tail(job[a].doomed)
          /\ job[a].doomed \in Seq(Revision) /\ job[a].doomed # <<>>
      BY <1>0, <1>15 DEF Deletes, Moves, c, Job
    <2>2. T \in SUBSET Deleting(b) /\ l1 = l0 /\ d1 = d0
      BY <1>3, <1>4, <1>5, <1>6, <2>1
    <2>3. Range(job[a].doomed) \subseteq Range(job'[a].doomed) \cup {Head(job[a].doomed)}
      <3> DEFINE doomed == job[a].doomed
      <3>1. doomed \in Seq(Revision) /\ doomed # <<>> /\ DOMAIN doomed = 1 .. Len(doomed)
        BY <2>1
      <3>2. ASSUME NEW i \in DOMAIN doomed, i # 1
            PROVE  i - 1 \in DOMAIN Tail(doomed) /\ Tail(doomed)[i - 1] = doomed[i]
        BY <3>1, <3>2
      <3>3. Head(doomed) = doomed[1]
        BY <3>1
      <3> HIDE DEF doomed
      <3>4. Range(doomed) \subseteq Range(Tail(doomed)) \cup {Head(doomed)}
        <4>1. ASSUME NEW i \in DOMAIN doomed
              PROVE  doomed[i] \in Range(Tail(doomed)) \cup {Head(doomed)}
          <5>1. CASE i = 1
            BY <3>3, <5>1
          <5>2. CASE i # 1
            BY <3>2, <4>1, <5>2 DEF Range
          <5> QED BY <5>1, <5>2
        <4> QED BY <4>1 DEF Range
      <3> QED BY <2>1, <3>4 DEF doomed
    <2>4. Left(b, T)' \subseteq Left(b, T)
      <3> SUFFICES ASSUME NEW u \in Left(b, T)' PROVE u \in Left(b, T)
        OBVIOUS
      <3>1. u \in NamesOf(objects'[b]) /\ \A p \in T : u \notin Range(job'[p].doomed)
        BY DEF Left, NamesOf
      <3>2. /\ b # c => objects'[b] = objects[b]
            /\ b = c => NamesOf(objects'[b]) = NamesOf(objects[b]) \ {Head(job[a].doomed)}
        BY <1>15, DeletedBuckets DEF c
      <3>3. u \in NamesOf(objects[b])
        BY <3>1, <3>2
      <3>4. ASSUME NEW p \in T
            PROVE  u \notin Range(job[p].doomed)
        <4>1. CASE p # a
          BY <1>1, <2>2, <3>1, <4>1 DEF Deleting
        <4>2. CASE p = a
          <5>1. b = c
            BY <1>3, <2>2, <4>2
          <5> QED BY <2>3, <3>1, <3>2, <4>2, <5>1
        <4> QED BY <4>1, <4>2
      <3> QED BY <3>3, <3>4 DEF Left
    <2>5. 0 \in {0, 1} /\ faults + l0 + d0 + 0 <= f1 + l1 + d1
      BY <1>2, <2>2
    <2> QED BY <2>2, <2>4, <2>5, BoundedStep DEF f1, l0, l1, d0, d1
  <1>16. CASE Finishes(a)
    <2>1. /\ pc[a] = "delete" /\ pc'[a] = "record" /\ job[a].doomed = <<>>
          /\ UNCHANGED objects
      BY <1>0, <1>16 DEF Finishes, Moves
    <2> DEFINE U == IF c = b THEN T \cup {a} ELSE T
    <2>2. a \notin T /\ U \in SUBSET Deleting(b)
      BY <1>3, <1>4, <2>1
    <2>3. l1 = l0
      BY <1>3, <1>5, <2>1
    <2>4. Deleting(b)' \ T = Deleting(b) \ U
      BY <1>1, <1>3, <1>4, <2>1
    <2>5. Left(b, T)' \subseteq Left(b, U)
      <3>1. \A p \in T : job'[p] = job[p]
        BY <1>1, <1>4, <2>2 DEF Deleting
      <3>2. Range(job[a].doomed) = {}
        BY <2>1 DEF Range
      <3> SUFFICES ASSUME NEW u \in Left(b, T)' PROVE u \in Left(b, U)
        OBVIOUS
      <3>3. u \in NamesOf(objects[b]) /\ \A p \in T : u \notin Range(job[p].doomed)
        BY <2>1, <3>1 DEF Left, NamesOf
      <3> QED BY <3>2, <3>3 DEF Left
    <2>6. d1 = Cardinality(Deleting(b) \ U)
      BY <2>4 DEF d1
    <2>7. 0 \in {0, 1} /\ faults + l0 + d1 + 0 <= f1 + l1 + d1
      BY <1>2, <2>3
    <2> HIDE DEF U
    <2> QED BY <2>2, <2>5, <2>6, <2>7, BoundedStep DEF f1, l0, l1, d1
  <1> QED BY <1>11, <1>12, <1>13, <1>14, <1>15, <1>16 DEF ActorStep

(* The bound for every choice of prunings is kept by every step.           *)
LEMMA PrunedStep ==
    ASSUME BackupsInv, PrunedInv, [Next]_vars
    PROVE  PrunedInv'
  <1> SUFFICES ASSUME NEW b \in Buckets, NEW T \in SUBSET (Deleting(b)')
               PROVE  Bounded(b, T)'
    BY DEF PrunedInv, Bounded
  <1>1. CASE UNCHANGED <<pc, job>> /\ NamesOf(objects'[b]) = NamesOf(objects[b])
    <2>1. Listing(b)' = Listing(b) /\ Deleting(b)' = Deleting(b)
      BY <1>1 DEF Listing, Deleting
    <2>2. Left(b, T)' \subseteq Left(b, T)
      BY <1>1, LeftStep
    <2> DEFINE f1 == faults'
               l0 == Cardinality(Listing(b))
               d0 == Cardinality(Deleting(b) \ T)
    <2>3. /\ faults \in Nat /\ f1 \in Nat /\ faults <= f1 /\ l0 \in Nat /\ d0 \in Nat
      BY PrunedFinite
    <2> HIDE DEF f1, l0, d0
    <2>4. faults + l0 + d0 + 0 <= f1 + l0 + d0
      BY <2>3
    <2>5. 0 \in {0, 1} /\ T \in SUBSET Deleting(b)
      BY <2>1
    <2> QED BY <2>1, <2>2, <2>4, <2>5, BoundedStep DEF f1, l0, d0
  <1>2. CASE Others
    BY <1>1, <1>2 DEF Others
  <1>3. CASE Damages
    <2>1. /\ DOMAIN objects'[b] = DOMAIN objects[b]
          /\ \A p \in DOMAIN objects[b] : objects'[b][p].revision = objects[b][p].revision
      BY <1>3, DamagedBuckets
    <2>2. NamesOf(objects'[b]) = NamesOf(objects[b])
      BY <2>1 DEF NamesOf
    <2> QED BY <1>1, <1>3, <2>2 DEF Damages
  <1> QED BY <1>2, <1>3, BoundedActorStep, Steps DEF BackupsInv

(* "keeps the newest ten remote objects" (README.md:59): more are there    *)
(* only while uploads are under way, and one for each that failed or was   *)
(* cut short (s3.rs:225, s3.rs:245).                                       *)
THEOREM AtMostKeptHolds == Spec => []AtMostKept
  <1>1. Init => PrunedInv
    <2> SUFFICES ASSUME Init, NEW b \in Buckets, NEW T \in SUBSET Deleting(b)
                 PROVE  Cardinality(Left(b, T)) <=
                          Keep + faults + Cardinality(Listing(b)) + Cardinality(Deleting(b) \ T)
      BY DEF PrunedInv
    <2>1. Left(b, T) = {} /\ Listing(b) = {} /\ Deleting(b) \ T = {}
      BY DEF Init, Left, NamesOf, Listing, Deleting
    <2>2. Keep \in Nat /\ faults = 0 /\ Cardinality({}) = 0
      BY FS_EmptySet, KeepAssumption DEF Init
    <2>3. 0 <= Keep + 0 + 0 + 0
      BY <2>2
    <2> QED BY <2>1, <2>2, <2>3
  <1>2. BackupsInv /\ PrunedInv => AtMostKept
    <2> SUFFICES ASSUME BackupsInv, PrunedInv, NEW b \in Buckets
                 PROVE  Len(objects[b]) <=
                          Keep + faults
                          + Cardinality({a \in Actors : job[a].bucket = b
                                                        /\ pc[a] \in {"list", "delete"}})
      BY DEF AtMostKept
    <2>1. Left(b, {}) = NamesOf(objects[b]) /\ Deleting(b) \ {} = Deleting(b)
      BY DEF Left
    <2>2. Cardinality(NamesOf(objects[b])) <=
            Keep + faults + Cardinality(Listing(b)) + Cardinality(Deleting(b))
      <3>1. {} \in SUBSET Deleting(b)
        OBVIOUS
      <3> QED BY <2>1, <3>1 DEF PrunedInv
    <2>3. Cardinality(NamesOf(objects[b])) = Len(objects[b])
      BY NamesCount DEF BackupsInv, TypeOK, ObjectsInv
    <2>4. {a \in Actors : job[a].bucket = b /\ pc[a] \in {"list", "delete"}}
            = Listing(b) \cup Deleting(b)
      BY DEF Listing, Deleting
    <2>5. Listing(b) \cap Deleting(b) = {}
      BY DEF Listing, Deleting
    <2>6. IsFiniteSet(Listing(b)) /\ IsFiniteSet(Deleting(b))
      <3>1. Listing(b) \in SUBSET Actors /\ Deleting(b) \in SUBSET Actors
        BY DEF Listing, Deleting
      <3> QED BY <3>1, KeepAssumption, FS_Subset
    <2>7. Cardinality(Listing(b) \cup Deleting(b))
            = Cardinality(Listing(b)) + Cardinality(Deleting(b))
      <3>1. Cardinality(Listing(b) \cup Deleting(b))
              = Cardinality(Listing(b)) + Cardinality(Deleting(b))
                  - Cardinality(Listing(b) \cap Deleting(b))
        BY <2>6, FS_Union
      <3>2. Cardinality(Listing(b)) \in Nat /\ Cardinality(Deleting(b)) \in Nat
        BY <2>6, FS_CardinalityType
      <3>3. Cardinality(Listing(b) \cap Deleting(b)) = 0
        BY <2>5, FS_EmptySet
      <3> QED BY <3>1, <3>2, <3>3
    <2>8. /\ Cardinality(Listing(b)) \in Nat /\ Cardinality(Deleting(b)) \in Nat
          /\ Keep \in Nat /\ faults \in Nat
      BY <2>6, FS_CardinalityType, KeepAssumption DEF BackupsInv, TypeOK
    <2> DEFINE l == Cardinality(Listing(b))
               d == Cardinality(Deleting(b))
    <2>9. l \in Nat /\ d \in Nat /\ Keep \in Nat /\ faults \in Nat
      BY <2>8
    <2> HIDE DEF l, d
    <2>10. Keep + faults + l + d = Keep + faults + (l + d)
      BY <2>9
    <2> QED BY <2>2, <2>3, <2>4, <2>7, <2>10 DEF l, d
  <1> QED BY <1>1, <1>2, BackupsAlways, PrunedStep, PTL DEF Spec
===============================================================================
