------------------------------- MODULE Backups -------------------------------
(***************************************************************************)
(* Backups of the active revision to an S3 bucket, by the daily scheduler  *)
(* and by the backup request and command, and their restoration as a draft *)
(* (s3.rs, service.rs, api.rs, db.rs).  A bucket stands for the profile's  *)
(* bucket and prefix; every object under it was uploaded by Portalis.  A   *)
(* revision is its position among the revisions that were active.          *)
(***************************************************************************)
EXTENDS Integers, FiniteSets, SequencesExt

CONSTANTS
    Configs,
    ConfigOf,      \* the configuration of each revision
    Rejected,      \* those that the sshd_config of today rejects
    Garbage,       \* what the bytes of a damaged object would decode to
    Buckets,
    Scheduler,     \* backup_scheduler
    Manual,        \* requests and commands that back up or restore
    Keep,          \* 10: the objects that pruning keeps
    MaxRevisions,  \* bound on the revisions made active
    MaxFaults,     \* bound on failed calls and stopped actors
    MaxSaves,      \* bound on the saves of S3 settings
    NoBucket, NoConfig

Actors == {Scheduler} \cup Manual

ASSUME ActorsAssumption == Scheduler \notin Manual
ASSUME ConfigsAssumption ==
    Rejected \subseteq Configs /\ Garbage \notin Configs /\ NoConfig \notin Configs \cup {Garbage}
ASSUME BucketsAssumption == NoBucket \notin Buckets
(* At most ten backups run at a time.                                   *)
ASSUME KeepAssumption == Keep \in Nat /\ IsFiniteSet(Actors) /\ Cardinality(Actors) <= Keep
ASSUME BoundsAssumption == MaxRevisions \in Nat /\ MaxFaults \in Nat /\ MaxSaves \in Nat
ASSUME RevisionsAssumption == ConfigOf \in [1 .. MaxRevisions -> Configs]

VARIABLES
    active,     \* the active revision, 0 if none; those before it were
    profile, secrets,  \* s3-profile.json, s3-secrets.json: for which bucket
    saving,     \* the bucket whose secrets are still to be written
    objects,    \* of each bucket, the last modified first
    records,    \* the backups table
    pc, job,    \* of each actor, where it is and its locals
    faults, saves

vars == <<active, profile, secrets, saving, objects, records, pc, job,
          faults, saves>>

settings == <<profile, secrets, saving, saves>>
locals == <<pc, job>>

Revision == 1 .. MaxRevisions

NoJob == [revision |-> 0, bucket |-> NoBucket, doomed |-> <<>>,
          restoring |-> FALSE, config |-> NoConfig]

Return(a) == /\ pc' = [pc EXCEPT ![a] = "idle"]
             /\ job' = [job EXCEPT ![a] = NoJob]

Goto(a, location) == pc' = [pc EXCEPT ![a] = location] /\ UNCHANGED job

(* At most one object is stored under the name of a revision.              *)
Without(seq, revision) == RemoveFirstMatch(seq, LAMBDA o : o.revision = revision)

Fault == faults < MaxFaults /\ faults' = faults + 1

(* Mutant: a failed upload is recorded like another.                       *)
UploadFailsUnseen(a) == Goto(a, "record")

(* upload_active fails: the scheduler notes it, a request only answers.    *)
UploadFails(a) == IF a = Scheduler THEN Goto(a, "note") ELSE Return(a)

------------------------------------------------------------------------------
(* The settings may have been saved before.                                *)
Init ==
    /\ active = 0
    /\ profile \in Buckets \cup {NoBucket} /\ secrets = profile /\ saving = NoBucket
    /\ objects = [b \in Buckets |-> <<>>] /\ records = {}
    /\ pc = [a \in Actors |-> "idle"] /\ job = [a \in Actors |-> NoJob]
    /\ faults = 0 /\ saves = 0

(* An apply or rollback marks a revision active (ApplyPipeline).           *)
Activate ==
    /\ active < MaxRevisions
    /\ active' = active + 1
    /\ UNCHANGED <<settings, objects, records, locals, faults>>

(* save_s3_settings, with the secrets of the bucket or, if some are kept,  *)
(* without: the profile is written before the secrets.                     *)
SaveProfile(b, fresh) ==
    /\ saves < MaxSaves /\ saving = NoBucket
    /\ fresh \/ secrets # NoBucket
    /\ profile' = b /\ saves' = saves + 1
    /\ saving' = IF fresh THEN b ELSE NoBucket
    /\ UNCHANGED <<active, secrets, objects, records, locals, faults>>

SaveSecrets ==
    /\ saving # NoBucket
    /\ secrets' = saving /\ saving' = NoBucket
    /\ UNCHANGED <<active, profile, saves, objects, records, locals, faults>>

SaveCut ==
    /\ saving # NoBucket
    /\ Fault /\ saving' = NoBucket
    /\ UNCHANGED <<active, profile, secrets, saves, objects, records, locals>>

------------------------------------------------------------------------------
(* The revision is read under the database lock, once.                     *)
ReadActive(a) ==
    /\ pc[a] = "idle" /\ active # 0
    /\ pc' = [pc EXCEPT ![a] = IF a = Scheduler THEN "check" ELSE "load"]
    /\ job' = [job EXCEPT ![a].revision = active]
    /\ UNCHANGED <<active, settings, objects, records, faults>>

(* Mutant: a failed backup counts.                                         *)
AnyBackup(revision) == \E r \in records : r.revision = revision

HasSuccessfulBackup(revision) ==
    \E r \in records : r.revision = revision /\ r.status = "uploaded"

Check ==
    /\ pc[Scheduler] = "check"
    /\ IF HasSuccessfulBackup(job[Scheduler].revision)
       THEN Return(Scheduler) ELSE Goto(Scheduler, "load")
    /\ UNCHANGED <<active, settings, objects, records, faults>>

StartRestore(a) ==
    /\ pc[a] = "idle" /\ a \in Manual
    /\ pc' = [pc EXCEPT ![a] = "load"]
    /\ job' = [job EXCEPT ![a].restoring = TRUE]
    /\ UNCHANGED <<active, settings, objects, records, faults>>

(* load_profile: the two files, one after the other.                       *)
LoadProfile(a) ==
    /\ pc[a] = "load"
    /\ IF profile = NoBucket \/ secrets = NoBucket
       THEN UploadFails(a)
       ELSE /\ pc' = [pc EXCEPT ![a] = "secrets"]
            /\ job' = [job EXCEPT ![a].bucket = profile]
    /\ UNCHANGED <<active, settings, objects, records, faults>>

(* With the secrets of another bucket the store refuses every call, so the *)
(* first one fails.                                                        *)
LoadSecrets(a) ==
    /\ pc[a] = "secrets"
    /\ IF secrets # job[a].bucket
       THEN UploadFails(a)
       ELSE Goto(a, IF job[a].restoring THEN "get" ELSE "put")
    /\ UNCHANGED <<active, settings, objects, records, faults>>

------------------------------------------------------------------------------
(* upload_active: the object is named after the revision.                  *)
Stored(a) ==
    LET b == job[a].bucket
        config == ConfigOf[job[a].revision]
    IN  [objects EXCEPT ![b] =
           <<[revision |-> job[a].revision, config |-> config, sum |-> config]>>
             \o Without(@, job[a].revision)]

Put(a) ==
    /\ pc[a] = "put"
    /\ objects' = Stored(a)
    /\ Goto(a, "list")
    /\ UNCHANGED <<active, settings, records, faults>>

(* The upload fails, or only its answer is lost.                           *)
PutFails(a) ==
    /\ pc[a] = "put"
    /\ Fault /\ UploadFails(a)
    /\ objects' = objects \/ objects' = Stored(a)
    /\ UNCHANGED <<active, settings, records>>

(* Mutant: the newest are deleted.                                         *)
DoomedNewest(bucket) == [i \in 1 .. Len(bucket) - Keep |-> bucket[i].revision]

(* Mutant: one more is kept.                                               *)
DoomedLess(bucket) ==
    [i \in 1 .. Len(bucket) - Keep - 1 |-> bucket[Keep + 1 + i].revision]

(* prune_old_backups: what comes after the newest is to be deleted.        *)
Doomed(bucket) ==
    [i \in 1 .. Len(bucket) - Keep |-> bucket[Keep + i].revision]

List(a) ==
    /\ pc[a] = "list"
    /\ pc' = [pc EXCEPT ![a] = "delete"]
    /\ job' = [job EXCEPT ![a].doomed = Doomed(objects[job[a].bucket])]
    /\ UNCHANGED <<active, settings, objects, records, faults>>

Delete(a) ==
    /\ pc[a] = "delete"
    /\ IF job[a].doomed = <<>>
       THEN Goto(a, "record") /\ UNCHANGED objects
       ELSE /\ objects' = [objects EXCEPT ![job[a].bucket] =
                             Without(@, Head(job[a].doomed))]
            /\ job' = [job EXCEPT ![a].doomed = Tail(@)]
            /\ UNCHANGED pc
    /\ UNCHANGED <<active, settings, records, faults>>

PruneFails(a) ==
    /\ pc[a] = "list" \/ (pc[a] = "delete" /\ job[a].doomed # <<>>)
    /\ Fault /\ UploadFails(a)
    /\ UNCHANGED <<active, settings, objects, records>>

(* backup_record; a failing insert is only reported.                       *)
Record(a) ==
    /\ pc[a] = "record"
    /\ Return(a)
    /\ \/ /\ records' = records \cup {[revision |-> job[a].revision,
                                       bucket |-> job[a].bucket, status |-> "uploaded"]}
          /\ UNCHANGED faults
       \/ Fault /\ UNCHANGED records
    /\ UNCHANGED <<active, settings, objects>>

Note ==
    /\ pc[Scheduler] = "note"
    /\ Return(Scheduler)
    /\ \/ /\ records' = records \cup {[revision |-> job[Scheduler].revision,
                                       bucket |-> NoBucket, status |-> "failed"]}
          /\ UNCHANGED faults
       \/ Fault /\ UNCHANGED records
    /\ UNCHANGED <<active, settings, objects>>

------------------------------------------------------------------------------
(* Mutant: the checksum of an object is not compared.                      *)
AnyObject(o) == TRUE

Verified(o) == o.sum = o.config

Named(b, revision) ==
    {objects[b][i] : i \in {j \in DOMAIN objects[b] : objects[b][j].revision = revision}}

(* download_config of the named revision (the key of the request).         *)
Get(a, revision) ==
    /\ pc[a] = "get"
    /\ LET found == {o \in Named(job[a].bucket, revision) : Verified(o)} IN
       \/ found = {} /\ Return(a)
       \/ \E o \in found :
            /\ pc' = [pc EXCEPT ![a] = "validate"]
            /\ job' = [job EXCEPT ![a].config = o.config]
    /\ UNCHANGED <<active, settings, objects, records, faults>>

(* restore_backup: a configuration that is not valid (any more) is refused *)
(* before the database is asked for.                                       *)
Validate(a) ==
    /\ pc[a] = "validate"
    /\ IF job[a].config \in Rejected THEN Return(a) ELSE Goto(a, "save")
    /\ UNCHANGED <<active, settings, objects, records, faults>>

(* It becomes the draft (ApplyPipeline's SaveDraft) and nothing else.      *)
SaveDraft(a) ==
    /\ pc[a] = "save"
    /\ Return(a)
    /\ UNCHANGED <<active, settings, objects, records, faults>>

(* A client disconnects, a command is killed, the daemon ends.             *)
Stop(a) ==
    /\ pc[a] # "idle"
    /\ Fault /\ Return(a)
    /\ UNCHANGED <<active, settings, objects, records>>

(* The bytes of an object change, its metadata do not.                     *)
Damage(b, i) ==
    /\ Fault
    /\ objects' = [objects EXCEPT ![b][i].config = Garbage]
    /\ UNCHANGED <<active, settings, records, locals>>

Upload(a) ==
    \/ ReadActive(a) \/ LoadProfile(a) \/ LoadSecrets(a)
    \/ Put(a) \/ List(a) \/ Delete(a) \/ Record(a)

Next ==
    \/ Activate
    \/ \E b \in Buckets, fresh \in BOOLEAN : SaveProfile(b, fresh)
    \/ SaveSecrets \/ SaveCut
    \/ \E a \in Actors : \/ Upload(a) \/ PutFails(a) \/ PruneFails(a) \/ Stop(a)
                         \/ StartRestore(a) \/ Validate(a) \/ SaveDraft(a)
                         \/ \E revision \in Revision : Get(a, revision)
    \/ Check \/ Note
    \/ \E b \in Buckets : \E i \in DOMAIN objects[b] : Damage(b, i)

(* The scheduler's loop comes round every day, and the runtime runs it.    *)
Fairness == WF_vars(Upload(Scheduler) \/ Check \/ Note)

Spec == Init /\ [][Next]_vars /\ Fairness

------------------------------------------------------------------------------
Object == [revision : Revision, config : Configs \cup {Garbage}, sum : Configs]

Locations == {"idle", "check", "load", "secrets", "put", "list", "delete", "record",
              "note", "get", "validate", "save"}

Job == [revision : 0 .. MaxRevisions, bucket : Buckets \cup {NoBucket}, doomed : Seq(Revision),
        restoring : BOOLEAN, config : Configs \cup {NoConfig}]

TypeOK ==
    /\ active \in 0 .. MaxRevisions
    /\ {profile, secrets, saving} \subseteq Buckets \cup {NoBucket}
    /\ objects \in [Buckets -> Seq(Object)]
    /\ records \subseteq
         [revision : Revision, bucket : Buckets, status : {"uploaded"}]
         \cup [revision : Revision, bucket : {NoBucket}, status : {"failed"}]
    /\ pc \in [Actors -> Locations]
    /\ job \in [Actors -> Job]
    /\ faults \in 0 .. MaxFaults /\ saves \in 0 .. MaxSaves

(* The scheduler never uploads the active revision again once a backup of  *)
(* it is recorded (service.rs:113), so no pruning may delete that backup,  *)
(* whoever uploads older revisions or prunes by an older listing meanwhile *)
(* (s3.rs:245).                                                            *)
ActiveKept ==
    \A r \in records : r.revision = active /\ r.status = "uploaded" =>
        \E i \in DOMAIN objects[r.bucket] : objects[r.bucket][i].revision = active

(* "keeps the newest ten remote objects" (README.md:59): more are there    *)
(* only while uploads are under way, and one for each that was cut short.  *)
AtMostKept ==
    \A b \in Buckets :
        Len(objects[b]) <=
            Keep + faults
            + Cardinality({a \in Actors : job[a].bucket = b /\ pc[a] \in {"list", "delete"}})

(* "Restore verifies SHA-256 metadata, imports a draft" (README.md:59): a  *)
(* restored draft is valid and was once active, also when objects are      *)
(* replaced, pruned or damaged meanwhile.                                  *)
RestoredWasActive ==
    \A a \in Manual : pc[a] = "save" =>
        job[a].config \notin Rejected /\ \E i \in 1 .. active : ConfigOf[i] = job[a].config

(* Whatever failed before, once the settings stay complete the active      *)
(* revision gets a backup (service.rs:107-143).                            *)
BackedUp ==
    <>[](profile # NoBucket /\ profile = secrets)
      => <>[](active # 0 =>
               \E r \in records : r.revision = active /\ r.status = "uploaded")
===============================================================================
