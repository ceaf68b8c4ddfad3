------------------------- MODULE ApplyPipelineProofs -------------------------
(***************************************************************************)
(* What holds of ApplyPipeline for every value of its constants: any       *)
(* number of requests and commands, any configurations, any faults.        *)
(***************************************************************************)
EXTENDS ApplyPipeline, TLAPS

------------------------------------------------------------------------------
(* What the operators of Revisions return and preserve.                    *)

Kinds == {"draft", "active"}

(* A row just built is a revision.                                         *)
LEMMA RowType ==
    ASSUME NEW kind \in Kinds, NEW c \in Configs
    PROVE  Row(kind, c) \in Revision
  BY DEF Row, Revision, Kinds

(* Where the rows of the table are after an insert.                        *)
LEMMA InsertRows ==
    ASSUME NEW rows \in Seq(Revision), NEW kind \in Kinds, NEW c \in Configs
    PROVE  /\ Insert(rows, kind, c) \in Seq(Revision)
           /\ Len(Insert(rows, kind, c)) = Len(rows) + 1
           /\ DOMAIN Insert(rows, kind, c) = DOMAIN rows \cup {Len(rows) + 1}
           /\ Insert(rows, kind, c)[Len(rows) + 1] = Row(kind, c)
           /\ \A i \in DOMAIN rows : Insert(rows, kind, c)[i] = rows[i]
           /\ \A i \in DOMAIN rows : i \in 1..Len(rows)
  BY RowType DEF Insert

(* A table with one more row is a table.                                   *)
LEMMA InsertType ==
    ASSUME NEW rows \in Seq(Revision), NEW c \in Configs
    PROVE  /\ Insert(rows, "draft", c) \in Seq(Revision)
           /\ Insert(rows, "active", c) \in Seq(Revision)
  BY InsertRows DEF Kinds

(* latest_revision of the kind just inserted is the new row.               *)
LEMMA InsertLatest ==
    ASSUME NEW rows \in Seq(Revision), NEW kind \in Kinds, NEW c \in Configs
    PROVE  /\ Has(Insert(rows, kind, c), kind)
           /\ LatestConfig(Insert(rows, kind, c), kind) = c
  <1> DEFINE new == Insert(rows, kind, c)
             n == Len(rows) + 1
  <1>1. /\ DOMAIN new = DOMAIN rows \cup {n}
        /\ new[n].kind = kind /\ new[n].config = c
        /\ \A i \in DOMAIN rows : i \in Nat /\ i < n
        /\ n \in Nat
    <2>1. /\ DOMAIN new = DOMAIN rows \cup {n}
          /\ new[n] = Row(kind, c)
          /\ \A i \in DOMAIN rows : i \in 1..Len(rows)
      BY InsertRows
    <2>2. Row(kind, c).kind = kind /\ Row(kind, c).config = c
      BY DEF Row
    <2>3. Len(rows) \in Nat
      OBVIOUS
    <2> QED BY <2>1, <2>2, <2>3
  <1>2. Latest(new, kind) = {n}
    BY <1>1 DEF Latest
  <1>3. LatestIndex(new, kind) = n
    BY <1>2 DEF LatestIndex
  <1> QED BY <1>1, <1>2, <1>3 DEF Has, LatestConfig

(* Inserting a row of one kind does not change the latest of the other.    *)
LEMMA InsertOther ==
    ASSUME NEW rows \in Seq(Revision), NEW kind \in Kinds, NEW c \in Configs,
           NEW other \in Kinds, other # kind
    PROVE  /\ Has(Insert(rows, kind, c), other) <=> Has(rows, other)
           /\ Has(rows, other) => LatestConfig(Insert(rows, kind, c), other)
                                    = LatestConfig(rows, other)
  <1> DEFINE new == Insert(rows, kind, c)
             n == Len(rows) + 1
  <1>1. /\ DOMAIN new = DOMAIN rows \cup {n}
        /\ new[n].kind # other
        /\ \A i \in DOMAIN rows : new[i] = rows[i]
    <2>1. /\ DOMAIN new = DOMAIN rows \cup {n}
          /\ new[n] = Row(kind, c)
          /\ \A i \in DOMAIN rows : new[i] = rows[i]
      BY InsertRows
    <2>2. Row(kind, c).kind = kind
      BY DEF Row
    <2> QED BY <2>1, <2>2
  <1>2. Latest(new, other) = Latest(rows, other)
    BY <1>1 DEF Latest
  <1>3. LatestIndex(new, other) = LatestIndex(rows, other)
    BY <1>2 DEF LatestIndex
  <1>4. Has(rows, other) => LatestIndex(rows, other) \in DOMAIN rows
    BY DEF Has, Latest, LatestIndex
  <1> QED BY <1>1, <1>2, <1>3, <1>4 DEF Has, LatestConfig

(* latest_revision returns a row of the table of the kind asked for.       *)
LEMMA LatestRow ==
    ASSUME NEW rows \in Seq(Revision), NEW kind \in Kinds, Has(rows, kind)
    PROVE  /\ LatestIndex(rows, kind) \in DOMAIN rows
           /\ LatestIndex(rows, kind) \in Nat
           /\ rows[LatestIndex(rows, kind)].kind = kind
           /\ LatestConfig(rows, kind) \in Configs
           /\ \E i \in DOMAIN rows : LatestConfig(rows, kind) = rows[i].config
  <1>1. LatestIndex(rows, kind) \in Latest(rows, kind)
    BY DEF Has, LatestIndex
  <1>2. /\ LatestIndex(rows, kind) \in DOMAIN rows
        /\ rows[LatestIndex(rows, kind)].kind = kind
    BY <1>1 DEF Latest
  <1>3. rows[LatestIndex(rows, kind)] \in Revision
    BY <1>2
  <1> QED BY <1>2, <1>3 DEF LatestConfig, Revision

(* The active configuration is one of the table, or the empty default.     *)
LEMMA ActiveRow ==
    ASSUME NEW rows \in Seq(Revision)
    PROVE  /\ ActiveConfig(rows) \in Configs
           /\ \/ ActiveConfig(rows) = Default
              \/ \E i \in DOMAIN rows : /\ rows[i].kind = "active"
                                        /\ ActiveConfig(rows) = rows[i].config
  <1>1. CASE Has(rows, "active")
    BY <1>1, LatestRow DEF ActiveConfig, Kinds, LatestConfig
  <1>2. CASE ~Has(rows, "active")
    BY <1>2, DefaultAssumption DEF ActiveConfig
  <1> QED BY <1>1, <1>2

(* mark_active changes the active configuration, save_draft does not.      *)
LEMMA InsertActive ==
    ASSUME NEW rows \in Seq(Revision), NEW c \in Configs
    PROVE  /\ ActiveConfig(Insert(rows, "active", c)) = c
           /\ ActiveConfig(Insert(rows, "draft", c)) = ActiveConfig(rows)
  BY InsertLatest, InsertOther DEF ActiveConfig, Kinds

(* mark_apply_error changes neither the rows' kinds and configurations nor *)
(* which one is active.                                                    *)
LEMMA FlagRows ==
    ASSUME NEW rows \in Seq(Revision), NEW id \in Nat
    PROVE  /\ FlagError(rows, id) \in Seq(Revision)
           /\ DOMAIN FlagError(rows, id) = DOMAIN rows
           /\ Len(FlagError(rows, id)) = Len(rows)
           /\ \A i \in DOMAIN rows :
                /\ FlagError(rows, id)[i].kind = rows[i].kind
                /\ FlagError(rows, id)[i].config = rows[i].config
                /\ i # id => FlagError(rows, id)[i] = rows[i]
           /\ ActiveConfig(FlagError(rows, id)) = ActiveConfig(rows)
  <1> DEFINE new == FlagError(rows, id)
  <1>1. /\ DOMAIN new = DOMAIN rows
        /\ \A i \in DOMAIN rows :
             new[i] = IF i = id THEN [rows[i] EXCEPT !.failed = TRUE] ELSE rows[i]
    BY DEF FlagError
  <1>2. \A i \in DOMAIN rows : /\ new[i] \in Revision
                               /\ new[i].kind = rows[i].kind
                               /\ new[i].config = rows[i].config
    <2>1. \A i \in DOMAIN rows : rows[i] \in Revision
      OBVIOUS
    <2> HIDE DEF new
    <2> QED BY <1>1, <2>1 DEF Revision
  <1>3. new \in Seq(Revision) /\ Len(new) = Len(rows)
    <2>1. DOMAIN rows = 1..Len(rows) /\ Len(rows) \in Nat
      OBVIOUS
    <2>2. new \in [DOMAIN rows -> Revision]
      <3>1. rows \in [DOMAIN rows -> Revision]
        OBVIOUS
      <3>2. \A i \in DOMAIN rows : [rows[i] EXCEPT !.failed = TRUE] \in Revision
        BY <3>1 DEF Revision
      <3> QED BY <3>1, <3>2 DEF FlagError
    <2>3. new \in [1..Len(rows) -> Revision]
      BY <2>1, <2>2
    <2> HIDE DEF new
    <2> QED BY <2>1, <2>3
  <1>4. Latest(new, "active") = Latest(rows, "active")
    BY <1>1, <1>2 DEF Latest
  <1>5. LatestIndex(new, "active") = LatestIndex(rows, "active")
    BY <1>4 DEF LatestIndex
  <1>6. Has(rows, "active") => LatestIndex(rows, "active") \in DOMAIN rows
    BY LatestRow DEF Kinds
  <1>7. ActiveConfig(new) = ActiveConfig(rows)
    BY <1>2, <1>4, <1>5, <1>6 DEF ActiveConfig, Has, LatestConfig
  <1> QED BY <1>1, <1>2, <1>3, <1>7

------------------------------------------------------------------------------
USE ActorsAssumption, FamiliesAssumption, ConfigAssumption,
    BoundAssumption, DefaultAssumption

(* The building blocks of the actions keep the types.                      *)

LocalsOK == pc \in [Actors -> Locations] /\ job \in [Actors -> Job]

(* Moving an actor to a location keeps the locals well-typed.              *)
LEMMA GotoType ==
    ASSUME LocalsOK, NEW p \in Actors, NEW l \in Locations, Goto(p, l)
    PROVE  pc' \in [Actors -> Locations]
  BY DEF LocalsOK, Goto

(* The locals a call starts with are well-typed.                           *)
LEMMA NewJobType ==
    ASSUME NEW op \in {"none", "open", "apply", "rollback", "save"},
           NEW c \in Configs, NEW d \in Nat
    PROVE  /\ NoJob \in Job
           /\ [NoJob EXCEPT !.op = op, !.goal = c] \in Job
           /\ [NoJob EXCEPT !.op = op, !.draft = d, !.goal = c] \in Job
  BY DEF NoJob, Job

(* Ending a call keeps the locals well-typed.                              *)
LEMMA ReturnType ==
    ASSUME LocalsOK, NEW p \in Actors, Return(p) \/ Opened(p)
    PROVE  LocalsOK'
  <1>1. NoJob \in Job
    BY DEF NoJob, Job
  <1>2. "idle" \in Locations /\ "ready" \in Locations
    BY DEF Locations
  <1>3. pc' \in [Actors -> Locations]
    BY <1>2, GotoType DEF Return, Opened
  <1>4. job' \in [Actors -> Job]
    BY <1>1 DEF Return, Opened, LocalsOK
  <1> QED BY <1>3, <1>4 DEF LocalsOK

(* So do listing the tables and letting go of the mutex after the batch.   *)
LEMMA ListedType ==
    ASSUME LocalsOK, NEW p \in Actors, NEW l \in {"no", "present", "absent"}
    PROVE  [job EXCEPT ![p].listed = l] \in [Actors -> Job]
  <1>1. job[p] \in Job
    BY DEF LocalsOK
  <1>2. [job[p] EXCEPT !.listed = l] \in Job
    BY <1>1 DEF Job
  <1> QED BY <1>2 DEF LocalsOK

(* The move that goes with letting go of it does too.                      *)
LEMMA UnlistType ==
    ASSUME LocalsOK, NEW p \in Actors, NEW l \in Locations, Goto(p, l), Unlist(p)
    PROVE  LocalsOK'
  BY GotoType, ListedType DEF LocalsOK, Unlist

(* So does failing one.                                                    *)
LEMMA FailType ==
    ASSUME LocalsOK, NEW p \in Actors, Fail(p)
    PROVE  LocalsOK'
  <1>1. "noteError" \in Locations
    BY DEF Locations
  <1>2. CASE Return(p)
    BY <1>2, ReturnType
  <1>3. CASE Goto(p, "noteError") /\ Unlist(p)
    BY <1>1, <1>3, GotoType, ListedType DEF LocalsOK, Unlist
  <1> QED BY <1>2, <1>3 DEF Fail

(* So does stopping a set of actors.                                       *)
LEMMA StopType ==
    ASSUME LocalsOK, NEW killed, Stop(killed)
    PROVE  LocalsOK'
  BY DEF LocalsOK, Stop, Locations, NoJob, Job

(* The bookkeeping of overlaps and disturbances keeps its type.            *)
GhostsOK == overlapped \subseteq Actors /\ disturbed \subseteq {"kernel", "forwarding"}

(* Opening and closing an agreement keeps the bookkeeping well-typed.      *)
LEMMA GhostType ==
    ASSUME GhostsOK, NEW p \in Actors
    PROVE  /\ Begin(p) => GhostsOK'
           /\ \A S : Agreed(p, S) => disturbed' \subseteq {"kernel", "forwarding"}
           /\ \A S \in SUBSET {"kernel", "forwarding"} :
                Disturb(S) => disturbed' \subseteq {"kernel", "forwarding"}
  BY DEF GhostsOK, Begin, Others, Agreed, Disturb

(* ensure_forwarding enables families only.                                *)
LEMMA ForwardingType ==
    ASSUME fwd \subseteq Families, fwdFile \subseteq Families, NEW c \in Configs,
           EnsureForwarding(c) \/ PartialForwarding(c)
    PROVE  fwd' \subseteq Families /\ fwdFile' \subseteq Families
  <1>1. Needs[c] \subseteq Families
    OBVIOUS
  <1> QED BY <1>1 DEF EnsureForwarding, PartialForwarding

(* The locals of an actor are what the record says.                        *)
LEMMA JobFields ==
    ASSUME LocalsOK, NEW p \in Actors
    PROVE  /\ job[p] \in Job
           /\ job[p].goal \in Configs /\ job[p].previous \in Configs
           /\ job[p].draft \in Nat
  BY DEF LocalsOK, Job

(* A batch leaves a table of configurations.                               *)
LEMMA CommitType ==
    ASSUME TypeOK, NEW p \in Actors, NEW c \in Configs, Commit(p, c) \/ Reject(p)
    PROVE  kernel' \in Seq(Configs) /\ installed' \subseteq Configs
  <1>1. <<c>> \in Seq(Configs) /\ Append(kernel, c) \in Seq(Configs)
    BY DEF TypeOK
  <1> QED BY <1>1 DEF TypeOK, Commit, Reject

------------------------------------------------------------------------------
(* Every step keeps the types.                                             *)
LEMMA TypeStep == TypeOK /\ [Next]_vars => TypeOK'
  <1> SUFFICES ASSUME TypeOK, [Next]_vars PROVE TypeOK'
    OBVIOUS
  <1> USE DEF host, ghosts
  <1>0. LocalsOK /\ GhostsOK
    BY DEF TypeOK, LocalsOK, GhostsOK
  <1>1. CASE StartDaemon
    BY <1>0, <1>1, GotoType DEF StartDaemon, TypeOK, LocalsOK, GhostsOK, Locations, Actors
  <1>2. ASSUME NEW p \in Actors, NEW c \in Configs, SaveRequest(p, c) PROVE TypeOK'
    <2>1. LocalsOK'
      BY <1>0, <1>2, NewJobType, GotoType DEF SaveRequest, LocalsOK, Locations
    <2> QED BY <1>0, <1>2, <2>1 DEF SaveRequest, TypeOK, LocalsOK, GhostsOK
  <1>3. ASSUME NEW p \in Actors, ApplyRequest(p) PROVE TypeOK'
    <2>1. LocalsOK'
      BY <1>0, <1>3, NewJobType, GotoType, LatestRow DEF ApplyRequest, LocalsOK, Locations, TypeOK, Kinds
    <2> QED BY <1>0, <1>3, <2>1 DEF ApplyRequest, TypeOK, LocalsOK, GhostsOK
  <1>4. ASSUME NEW p \in Actors, NEW i \in DOMAIN revs, RollbackRequest(p, i) PROVE TypeOK'
    <2>1. revs[i].config \in Configs
      <3>1. revs[i] \in Revision
        BY DEF TypeOK
      <3> QED BY <3>1 DEF Revision
    <2>2. LocalsOK'
      BY <1>0, <1>4, <2>1, NewJobType, GotoType DEF RollbackRequest, LocalsOK, Locations
    <2> QED BY <1>4, <2>2 DEF RollbackRequest, TypeOK, LocalsOK
  <1>5. ASSUME NEW p \in Actors, StartCommand(p) PROVE TypeOK'
    BY <1>0, <1>5, GotoType DEF StartCommand, TypeOK, LocalsOK, GhostsOK, Locations
  <1>6. ASSUME NEW p \in Actors, Quit(p) PROVE TypeOK'
    <2>1. LocalsOK'
      BY <1>0, <1>6, ReturnType DEF Quit, LocalsOK, Locations
    <2> QED BY <1>0, <1>6, <2>1 DEF Quit, TypeOK, LocalsOK, GhostsOK
  <1>7. ASSUME NEW p \in Actors, OpenRead(p) PROVE TypeOK'
    <2>1. Active \in Configs
      BY ActiveRow DEF Active, TypeOK
    <2>2. LocalsOK'
      <3>1. CASE Goto(p, "openStatus") /\ job' = [job EXCEPT ![p] =
                               [NoJob EXCEPT !.op = "open", !.goal = Active]]
        BY <1>0, <2>1, <3>1, NewJobType, GotoType DEF LocalsOK, Locations
      <3>2. CASE Opened(p)
        BY <1>0, <3>2, ReturnType
      <3>3. CASE Goto(p, IF p = Daemon THEN "down" ELSE "idle") /\ UNCHANGED job
        BY <1>0, <3>3, GotoType DEF LocalsOK, Locations
      <3> QED BY <1>7, <3>1, <3>2, <3>3 DEF OpenRead
    <2> QED BY <1>0, <1>7, <2>2, GhostType DEF OpenRead, TypeOK, LocalsOK, GhostsOK
  <1>8. ASSUME NEW p \in Actors, OpenStatus(p) PROVE TypeOK'
    <2>1. LocalsOK'
      BY <1>0, <1>8, ReturnType, GotoType DEF OpenStatus, LocalsOK, Locations
    <2> QED BY <1>0, <1>8, <2>1, GhostType DEF OpenStatus, TypeOK, LocalsOK, GhostsOK
  <1>9. ASSUME NEW p \in Actors, OpenInstall(p) PROVE TypeOK'
    <2>1. LocalsOK'
      <3>1. "openForward" \in Locations
        BY DEF Locations
      <3> QED BY <1>0, <1>9, <3>1, ReturnType, UnlistType DEF OpenInstall
    <2>2. kernel' \in Seq(Configs) /\ installed' \subseteq Configs
      BY <1>0, <1>9, JobFields, CommitType DEF OpenInstall
    <2>3. disturbed' \subseteq {"kernel", "forwarding"}
      BY <1>0, <1>9, GhostType DEF OpenInstall
    <2> QED BY <1>9, <2>1, <2>2, <2>3 DEF OpenInstall, TypeOK, LocalsOK
  <1>10. ASSUME NEW p \in Actors, OpenForward(p) PROVE TypeOK'
    <2>1. LocalsOK'
      BY <1>0, <1>10, ReturnType DEF OpenForward, LocalsOK, Locations
    <2> QED BY <1>0, <1>10, <2>1, GhostType, JobFields, ForwardingType DEF OpenForward, TypeOK, LocalsOK, GhostsOK
  <1>11. ASSUME NEW p \in Actors, SaveDraft(p) PROVE TypeOK'
    <2>1. LocalsOK'
      BY <1>0, <1>11, ReturnType DEF SaveDraft, LocalsOK, Locations
    <2>2. Insert(revs, "draft", job[p].goal) \in Seq(Revision)
      BY <1>0, JobFields, InsertType DEF TypeOK
    <2> QED BY <1>11, <2>1, <2>2 DEF SaveDraft, TypeOK, LocalsOK
  <1>12. ASSUME NEW p \in Actors, Validate(p) PROVE TypeOK'
    <2>1. LocalsOK'
      BY <1>0, <1>12, ReturnType, GotoType DEF Validate, LocalsOK, Locations
    <2> QED BY <1>0, <1>12, <2>1 DEF Validate, TypeOK, LocalsOK, GhostsOK
  <1>13. ASSUME NEW p \in Actors, ReadPrevious(p) PROVE TypeOK'
    <2>1. Active \in Configs
      BY ActiveRow DEF Active, TypeOK
    <2>2. [job[p] EXCEPT !.previous = Active] \in Job
      BY <1>0, <2>1, JobFields DEF Job
    <2>3. LocalsOK'
      BY <1>0, <1>13, <2>2, GotoType, ReturnType DEF ReadPrevious, LocalsOK, Locations
    <2> QED BY <1>0, <1>13, <2>3, GhostType DEF ReadPrevious, TypeOK, LocalsOK, GhostsOK
  <1>14. ASSUME NEW p \in Actors, Reuse(p) PROVE TypeOK'
    <2>1. LocalsOK'
      BY <1>0, <1>14, ReturnType, GotoType DEF Reuse, LocalsOK, Locations
    <2> QED BY <1>0, <1>14, <2>1, GhostType DEF Reuse, TypeOK, LocalsOK, GhostsOK
  <1>15. ASSUME NEW p \in Actors, SnapshotFails(p) PROVE TypeOK'
    <2>1. LocalsOK'
      BY <1>0, <1>15, ReturnType DEF SnapshotFails, LocalsOK, Locations
    <2> QED BY <1>0, <1>15, <2>1 DEF SnapshotFails, TypeOK, LocalsOK, GhostsOK
  <1>16. ASSUME NEW p \in Actors, Install(p) PROVE TypeOK'
    <2>1. LocalsOK'
      <3>1. "forward" \in Locations
        BY DEF Locations
      <3> QED BY <1>0, <1>16, <3>1, FailType, UnlistType DEF Install
    <2>2. kernel' \in Seq(Configs) /\ installed' \subseteq Configs
      BY <1>0, <1>16, JobFields, CommitType DEF Install
    <2>3. disturbed' \subseteq {"kernel", "forwarding"}
      BY <1>0, <1>16, GhostType DEF Install, GhostsOK
    <2> QED BY <1>16, <2>1, <2>2, <2>3 DEF Install, TypeOK, LocalsOK
  <1>17. ASSUME NEW p \in Actors, Forward(p) PROVE TypeOK'
    <2>1. LocalsOK'
      BY <1>0, <1>17, GotoType DEF Forward, LocalsOK, Locations
    <2> QED BY <1>0, <1>17, <2>1, JobFields, ForwardingType DEF Forward, TypeOK, LocalsOK, GhostsOK
  <1>18. ASSUME NEW p \in Actors, Undo(p) PROVE TypeOK'
    <2>1. LocalsOK'
      BY <1>0, <1>18, FailType DEF Undo, LocalsOK, Locations
    <2>2. kernel' \in Seq(Configs) /\ installed' \subseteq Configs
      BY <1>0, <1>18, JobFields, CommitType DEF Undo, PutBack
    <2>3. disturbed' \subseteq {"kernel", "forwarding"}
      BY <1>0, <1>18, GhostType DEF Undo, GhostsOK, PutBack
    <2> QED BY <1>18, <2>1, <2>2, <2>3 DEF Undo, TypeOK, LocalsOK
  <1>19. ASSUME NEW p \in Actors, Record(p) PROVE TypeOK'
    <2>1. LocalsOK'
      BY <1>0, <1>19, ReturnType, GotoType DEF Record, LocalsOK, Locations
    <2>2. Insert(revs, "active", job[p].goal) \in Seq(Revision)
      BY <1>0, JobFields, InsertType DEF TypeOK
    <2>3. disturbed' \subseteq {"kernel", "forwarding"}
      BY <1>0, <1>19, GhostType DEF Record, GhostsOK
    <2> QED BY <1>19, <2>1, <2>2, <2>3 DEF Record, TypeOK, LocalsOK
  <1>20. ASSUME NEW p \in Actors, UndoLocked(p) PROVE TypeOK'
    <2>1. LocalsOK'
      BY <1>0, <1>20, ReturnType DEF UndoLocked, LocalsOK, Locations
    <2>2. kernel' \in Seq(Configs) /\ installed' \subseteq Configs
      BY <1>0, <1>20, JobFields, CommitType DEF UndoLocked, PutBack
    <2>3. disturbed' \subseteq {"kernel", "forwarding"}
      BY <1>0, <1>20, GhostType DEF UndoLocked, GhostsOK, PutBack
    <2> QED BY <1>20, <2>1, <2>2, <2>3 DEF UndoLocked, TypeOK, LocalsOK
  <1>21. ASSUME NEW p \in Actors, NoteError(p) PROVE TypeOK'
    <2>1. LocalsOK'
      BY <1>0, <1>21, ReturnType DEF NoteError, LocalsOK, Locations
    <2> QED BY <1>0, <1>21, <2>1, JobFields, FlagRows DEF NoteError, TypeOK, LocalsOK, GhostsOK
  <1>22. ASSUME NEW p \in Actors, Disconnect(p) PROVE TypeOK'
    <2>1. LocalsOK'
      BY <1>0, <1>22, StopType DEF Disconnect, LocalsOK, Locations
    <2> QED BY <1>0, <1>22, <2>1, GhostType DEF Disconnect, TypeOK, LocalsOK, GhostsOK, LostAspects
  <1>23. ASSUME NEW p \in Actors, KillCommand(p) PROVE TypeOK'
    <2>1. LocalsOK'
      BY <1>0, <1>23, StopType DEF KillCommand, LocalsOK, Locations
    <2>2. outages' \in Nat
      BY <1>23 DEF KillCommand, TypeOK
    <2>3. disturbed' \subseteq {"kernel", "forwarding"}
      BY <1>0, <1>23, GhostType DEF KillCommand, LostAspects
    <2> QED BY <1>23, <2>1, <2>2, <2>3 DEF KillCommand, TypeOK, LocalsOK
  <1>24. CASE Crash
    <2>1. LocalsOK'
      BY <1>0, <1>24, StopType DEF Crash, LocalsOK, Locations
    <2> QED BY <1>0, <1>24, <2>1, GhostType DEF Crash, TypeOK, LocalsOK, GhostsOK, LostAspects, Disturb
  <1>25. CASE Reboot
    <2>1. LocalsOK'
      BY <1>0, <1>25, StopType DEF Reboot, LocalsOK, Locations
    <2> QED BY <1>0, <1>25, <2>1 DEF Reboot, TypeOK, LocalsOK, GhostsOK, Disturb
  <1>26. ASSUME NEW s \in SshStates, SshdChange(s) PROVE TypeOK'
    BY <1>26 DEF SshdChange, TypeOK
  <1>27. CASE TableRemoved
    BY <1>27 DEF TableRemoved, TypeOK, Disturb
  <1>28. CASE UNCHANGED vars
    BY <1>28 DEF vars, TypeOK
  <1>29. ASSUME NEW p \in Actors, List(p) PROVE TypeOK'
    <2>1. LocalsOK'
      BY <1>0, <1>29, ListedType DEF List, LocalsOK
    <2> QED BY <1>29, <2>1 DEF List, TypeOK, LocalsOK
  <1> QED BY <1>1, <1>2, <1>3, <1>4, <1>5, <1>6, <1>7, <1>8, <1>9, <1>10, <1>11, <1>12, <1>13, <1>14, <1>15, <1>16, <1>17, <1>18, <1>19, <1>20, <1>21, <1>22, <1>23, <1>24, <1>25, <1>26, <1>27, <1>28, <1>29 DEF Next, Calls, Continue, Environment

(* Every variable keeps its type.                                          *)
THEOREM TypeCorrect == Spec => []TypeOK
  <1>1. Init => TypeOK
    BY DEF Init, TypeOK, Locations, Job, NoJob
  <1> QED BY <1>1, TypeStep, PTL DEF Spec

------------------------------------------------------------------------------
(* Whoever has listed the tables has not sent its batch yet, and is the    *)
(* only one of its process.                                                *)
ListedInv ==
    /\ \A p \in Actors : job[p].listed # "no" => pc[p] \in Listing
    /\ \A p, q \in Actors :
         p # q /\ ProcessOf(p) = ProcessOf(q) /\ job[p].listed # "no"
            => job[q].listed = "no"

(* What an actor has listed it forgets when it moves.                      *)
ListedStep(p) ==
    \/ job'[p].listed = "no"
    \/ job'[p].listed = job[p].listed /\ pc'[p] = pc[p]
    \/ List(p)

(* Every step does one of these to each actor.                             *)
LEMMA ListedSteps ==
    TypeOK /\ ListedInv /\ [Next]_vars => \A p \in Actors : ListedStep(p)
  <1> SUFFICES ASSUME TypeOK, ListedInv, [Next]_vars, NEW a \in Actors
               PROVE  ListedStep(a)
    OBVIOUS
  <1>0. LocalsOK /\ (pc[a] \in Listing \/ job[a].listed = "no")
    BY DEF TypeOK, LocalsOK, ListedInv
  <1> USE DEF ListedStep, LocalsOK, Listing, Job, NoJob, host, ghosts
  <1>1. CASE StartDaemon
    BY <1>0, <1>1 DEF StartDaemon, Goto
  <1>2. ASSUME NEW p \in Actors, NEW c \in Configs, SaveRequest(p, c) PROVE ListedStep(a)
    BY <1>0, <1>2 DEF SaveRequest, Goto
  <1>3. ASSUME NEW p \in Actors, ApplyRequest(p) PROVE ListedStep(a)
    BY <1>0, <1>3 DEF ApplyRequest, Goto
  <1>4. ASSUME NEW p \in Actors, NEW i \in DOMAIN revs, RollbackRequest(p, i) PROVE ListedStep(a)
    BY <1>0, <1>4 DEF RollbackRequest, Goto
  <1>5. ASSUME NEW p \in Actors, StartCommand(p) PROVE ListedStep(a)
    BY <1>0, <1>5 DEF StartCommand, Goto
  <1>6. ASSUME NEW p \in Actors, Quit(p) PROVE ListedStep(a)
    BY <1>0, <1>6 DEF Quit, Return, Goto
  <1>7. ASSUME NEW p \in Actors, OpenRead(p) PROVE ListedStep(a)
    <2>1. CASE a # p
      BY <1>0, <1>7, <2>1 DEF OpenRead, Opened, Goto
    <2>2. CASE a = p
      <3>1. job[a].listed = "no"
        BY <1>0, <1>7, <2>2 DEF OpenRead
      <3>2. job'[a].listed = "no"
        <4>1. [NoJob EXCEPT !.op = "open", !.goal = Active].listed = "no"
          BY DEF NoJob
        <4>2. \/ job' = [job EXCEPT ![p] = [NoJob EXCEPT !.op = "open", !.goal = Active]]
              \/ job' = [job EXCEPT ![p] = NoJob]
              \/ job' = job
          BY <1>7 DEF OpenRead, Opened
        <4> QED BY <1>0, <2>2, <3>1, <4>1, <4>2
      <3> QED BY <3>2
    <2> QED BY <2>1, <2>2
  <1>8. ASSUME NEW p \in Actors, OpenStatus(p) PROVE ListedStep(a)
    <2>1. CASE a # p
      BY <1>0, <1>8, <2>1 DEF OpenStatus, Opened, Goto
    <2>2. CASE a = p
      <3>1. job[a].listed = "no"
        BY <1>0, <1>8, <2>2 DEF OpenStatus
      <3>2. job'[a].listed = "no"
        BY <1>0, <1>8, <2>2, <3>1 DEF OpenStatus, Opened, Goto
      <3> QED BY <3>2
    <2> QED BY <2>1, <2>2
  <1>9. ASSUME NEW p \in Actors, OpenInstall(p) PROVE ListedStep(a)
    BY <1>0, <1>9 DEF OpenInstall, Opened, Unlist, Goto
  <1>10. ASSUME NEW p \in Actors, OpenForward(p) PROVE ListedStep(a)
    BY <1>0, <1>10 DEF OpenForward, Opened, Goto
  <1>11. ASSUME NEW p \in Actors, SaveDraft(p) PROVE ListedStep(a)
    BY <1>0, <1>11 DEF SaveDraft, Return, Goto
  <1>12. ASSUME NEW p \in Actors, Validate(p) PROVE ListedStep(a)
    BY <1>0, <1>12 DEF Validate, Return, Goto
  <1>13. ASSUME NEW p \in Actors, ReadPrevious(p) PROVE ListedStep(a)
    BY <1>0, <1>13 DEF ReadPrevious, Return, Goto
  <1>14. ASSUME NEW p \in Actors, Reuse(p) PROVE ListedStep(a)
    BY <1>0, <1>14 DEF Reuse, Return, Goto
  <1>15. ASSUME NEW p \in Actors, SnapshotFails(p) PROVE ListedStep(a)
    BY <1>0, <1>15 DEF SnapshotFails, Return, Goto
  <1>16. ASSUME NEW p \in Actors, Install(p) PROVE ListedStep(a)
    BY <1>0, <1>16 DEF Install, Fail, Return, Unlist, Goto
  <1>17. ASSUME NEW p \in Actors, Forward(p) PROVE ListedStep(a)
    BY <1>0, <1>17 DEF Forward, Goto
  <1>18. ASSUME NEW p \in Actors, Undo(p) PROVE ListedStep(a)
    BY <1>0, <1>18 DEF Undo, Fail, Return, Unlist, Goto
  <1>19. ASSUME NEW p \in Actors, Record(p) PROVE ListedStep(a)
    <2>1. CASE a # p
      BY <1>0, <1>19, <2>1 DEF Record, Return, Goto
    <2>2. CASE a = p
      <3>1. job[a].listed = "no"
        BY <1>0, <1>19, <2>2 DEF Record
      <3>2. job'[a].listed = "no"
        BY <1>0, <1>19, <2>2, <3>1 DEF Record, Return, Goto
      <3> QED BY <3>2
    <2> QED BY <2>1, <2>2
  <1>20. ASSUME NEW p \in Actors, UndoLocked(p) PROVE ListedStep(a)
    BY <1>0, <1>20 DEF UndoLocked, Return, Goto
  <1>21. ASSUME NEW p \in Actors, NoteError(p) PROVE ListedStep(a)
    BY <1>0, <1>21 DEF NoteError, Return, Goto
  <1>22. ASSUME NEW p \in Actors, Disconnect(p) PROVE ListedStep(a)
    BY <1>0, <1>22 DEF Disconnect, Stop
  <1>23. ASSUME NEW p \in Actors, KillCommand(p) PROVE ListedStep(a)
    BY <1>0, <1>23 DEF KillCommand, Stop
  <1>24. CASE Crash
    BY <1>0, <1>24 DEF Crash, Stop
  <1>25. CASE Reboot
    BY <1>0, <1>25 DEF Reboot, Stop
  <1>26. ASSUME NEW s \in SshStates, SshdChange(s) PROVE ListedStep(a)
    BY <1>0, <1>26 DEF SshdChange
  <1>27. CASE TableRemoved
    BY <1>0, <1>27 DEF TableRemoved
  <1>28. ASSUME NEW p \in Actors, List(p) PROVE ListedStep(a)
    BY <1>0, <1>28 DEF List
  <1>29. CASE UNCHANGED vars
    BY <1>29 DEF vars
  <1> QED BY <1>1, <1>2, <1>3, <1>4, <1>5, <1>6, <1>7, <1>8, <1>9, <1>10, <1>11, <1>12, <1>13, <1>14, <1>15, <1>16, <1>17, <1>18, <1>19, <1>20, <1>21, <1>22, <1>23, <1>24, <1>25, <1>26, <1>27, <1>28, <1>29 DEF Next, Calls, Continue, Environment

(* Every step keeps it.                                                    *)
LEMMA ListedInvStep == TypeOK /\ ListedInv /\ [Next]_vars => ListedInv'
  <1> SUFFICES ASSUME TypeOK, ListedInv, [Next]_vars PROVE ListedInv'
    OBVIOUS
  <1>0. \A p \in Actors : ListedStep(p)
    BY ListedSteps
  <1>1. ASSUME NEW p \in Actors, job'[p].listed # "no"
        PROVE  pc'[p] \in Listing
    BY <1>0, <1>1 DEF ListedStep, ListedInv, List
  <1>2. ASSUME NEW p \in Actors, NEW q \in Actors, p # q,
               ProcessOf(p) = ProcessOf(q),
               job'[p].listed # "no", job'[q].listed # "no"
        PROVE  FALSE
    <2>1. ASSUME NEW a \in Actors, NEW b \in Actors, a # b, List(a),
                 ProcessOf(a) = ProcessOf(b)
          PROVE  job'[b].listed = "no"
      BY <2>1 DEF List, NftFree, TypeOK
    <2>2. ~List(p) /\ ~List(q)
      BY <1>2, <2>1
    <2> QED BY <1>0, <1>2, <2>2 DEF ListedStep, ListedInv
  <1> QED BY <1>1, <1>2 DEF ListedInv, ProcessOf

(* Between its listing and its batch a caller keeps the other callers of   *)
(* its process out (nft.rs:57).                                            *)
THEOREM ListedHolds == Spec => []ListedInv
  <1>1. Init => ListedInv
    BY DEF Init, ListedInv, NoJob
  <1> QED BY <1>1, ListedInvStep, TypeCorrect, PTL DEF Spec
==============================================================================
