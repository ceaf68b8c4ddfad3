---------------------------- MODULE HistoryProofs ----------------------------
(***************************************************************************)
(* What the revisions table, the kernel and the sysctls of ApplyPipeline   *)
(* hold, for every value of the constants.  Three lemmas first say how a   *)
(* step changes the table, the kernel and the locals of an actor; the      *)
(* invariants follow from them without looking at the actions again.       *)
(***************************************************************************)
EXTENDS ApplyPipelineProofs, FiniteSetTheorems

USE DefaultAssumption

(* The table grows by a draft or an active row, or one row is flagged.     *)
RowsStep ==
    \/ UNCHANGED revs
    \/ \E p \in Actors : /\ pc[p] = "saveDraft"
                         /\ revs' = Insert(revs, "draft", job[p].goal)
    \/ \E p \in Actors : /\ pc[p] = "record"
                         /\ revs' = Insert(revs, "active", job[p].goal)
    \/ \E p \in Actors : /\ pc[p] = "noteError"
                         /\ revs' = FlagError(revs, job[p].draft)

(* Every step changes the table in one of these ways or not at all.        *)
LEMMA RowsSteps == [Next]_vars => RowsStep
  BY DEF RowsStep,
         host, ghosts, Next, Calls, Continue, Environment, vars,
         StartDaemon, SaveRequest, ApplyRequest, RollbackRequest,
         StartCommand, Quit, OpenRead, OpenStatus, OpenInstall,
         OpenForward, SaveDraft, Validate, ReadPrevious, Reuse,
         SnapshotFails, List, Install, Forward, Undo, Record, UndoLocked,
         NoteError, Disconnect, KillCommand, Crash, Reboot, SshdChange,
         TableRemoved

(* An actor that has listed the tables gives the kernel its goal or its    *)
(* previous configuration and lets go of the mutex, or the table is lost.  *)
KernelStep ==
    \/ UNCHANGED <<kernel, installed>>
    \/ kernel' = <<>> /\ UNCHANGED installed
    \/ \E p \in Actors :
          /\ job'[p].listed = "no"
          /\ \/ pc[p] \in {"openInstall", "install"} /\ Commit(p, job[p].goal)
             \/ pc[p] \in {"undo", "undoLocked"} /\ Commit(p, job[p].previous)

(* Every step changes the kernel in one of these ways or not at all.       *)
LEMMA KernelSteps == TypeOK /\ [Next]_vars => KernelStep
  <1> SUFFICES ASSUME TypeOK, [Next]_vars PROVE KernelStep
    OBVIOUS
  <1>0. \A p \in Actors : Unlist(p) \/ Return(p) \/ Opened(p) => job'[p].listed = "no"
    BY DEF TypeOK, Unlist, Return, Opened, NoJob, Job
  <1>1. ASSUME NEW p \in Actors, OpenInstall(p) PROVE KernelStep
    BY <1>0, <1>1 DEF OpenInstall, Reject, KernelStep
  <1>2. \A p \in Actors : Fail(p) => job'[p].listed = "no"
    BY <1>0 DEF Fail
  <1>3. ASSUME NEW p \in Actors, Install(p) PROVE KernelStep
    BY <1>0, <1>2, <1>3 DEF Install, Reject, KernelStep
  <1>4. ASSUME NEW p \in Actors, Undo(p) \/ UndoLocked(p) PROVE KernelStep
    BY <1>0, <1>2, <1>4 DEF Undo, UndoLocked, PutBack, Reject, KernelStep
  <1>5. CASE Reboot \/ TableRemoved
    BY <1>5 DEF Reboot, TableRemoved, KernelStep
  <1>6. ASSUME NEW p \in Actors, Calls(p) \/ Disconnect(p) \/ KillCommand(p)
        PROVE  UNCHANGED <<kernel, installed>>
    BY <1>6 DEF host, ghosts, Calls, SaveRequest, ApplyRequest, RollbackRequest,
       StartCommand, Quit, Disconnect, KillCommand
  <1>7. ASSUME NEW p \in Actors,
               \/ OpenRead(p) \/ OpenStatus(p) \/ OpenForward(p) \/ SaveDraft(p)
               \/ Validate(p) \/ ReadPrevious(p) \/ Reuse(p) \/ SnapshotFails(p)
               \/ List(p) \/ Forward(p) \/ Record(p) \/ NoteError(p)
        PROVE  UNCHANGED <<kernel, installed>>
    BY <1>7 DEF host, ghosts, OpenRead, OpenStatus, OpenForward, SaveDraft,
       Validate, ReadPrevious, Reuse, SnapshotFails, List, Forward, Record, NoteError
  <1>8. ASSUME StartDaemon \/ Crash \/ (\E t \in SshStates : SshdChange(t)) \/ UNCHANGED vars
        PROVE  UNCHANGED <<kernel, installed>>
    BY <1>8 DEF host, ghosts, StartDaemon, Crash, SshdChange, vars
  <1> QED BY <1>1, <1>3, <1>4, <1>5, <1>6, <1>7, <1>8
          DEF Next, Continue, Environment, KernelStep

(* The batches of a table were there, or are of such a configuration.      *)
LEMMA KernelRows ==
    ASSUME TypeOK, KernelStep, NEW i \in DOMAIN kernel'
    PROVE  \/ \E j \in DOMAIN kernel : kernel'[i] = kernel[j]
           \/ \E p \in Actors : /\ pc[p] \in {"openInstall", "install"}
                                /\ kernel'[i] = job[p].goal
           \/ \E p \in Actors : kernel'[i] = job[p].previous
  <1>1. kernel \in Seq(Configs)
    BY DEF TypeOK
  <1>2. ASSUME NEW p \in Actors, NEW c \in Configs, Commit(p, c)
        PROVE  kernel'[i] = c \/ \E j \in DOMAIN kernel : kernel'[i] = kernel[j]
    <2>1. CASE kernel' = <<c>>
      BY <2>1
    <2>2. CASE kernel' = Append(kernel, c)
      BY <1>1, <2>2
    <2> QED BY <1>2, <2>1, <2>2 DEF Commit
  <1>3. \A p \in Actors : job[p].goal \in Configs /\ job[p].previous \in Configs
    BY DEF TypeOK, Job
  <1>4. CASE kernel' = <<>>
    BY <1>4
  <1> QED BY <1>2, <1>3, <1>4 DEF KernelStep

(* The locals of an actor stay but for what it knows of the tables, are    *)
(* cleared, are set when a call starts, or receive the active              *)
(* configuration as the previous one.                                      *)
LocalsStep(p) ==
    \/ job'[p] = job[p] /\ (pc[p] = "saveDraft" => pc'[p] = "saveDraft")
    \/ \E l \in {"no", "present", "absent"} :
          pc[p] # "saveDraft" /\ job'[p] = [job[p] EXCEPT !.listed = l]
    \/ job'[p] = NoJob
    \/ \E c \in ValidIn[sshd] :
          /\ pc'[p] = "saveDraft"
          /\ job'[p] = [NoJob EXCEPT !.op = "save", !.goal = c]
    \/ /\ Has(revs, "draft")
       /\ job'[p] = [NoJob EXCEPT !.op = "apply",
                                  !.draft = LatestIndex(revs, "draft"),
                                  !.goal = LatestConfig(revs, "draft")]
    \/ \E i \in DOMAIN revs :
          job'[p] = [NoJob EXCEPT !.op = "rollback", !.goal = revs[i].config]
    \/ job'[p] = [NoJob EXCEPT !.op = "open", !.goal = Active]
    \/ /\ pc[p] = "readPrevious"
       /\ job'[p] = [job[p] EXCEPT !.previous = Active]

(* Every step changes the locals of an actor in one of these ways.         *)
LEMMA LocalsSteps ==
    TypeOK /\ [Next]_vars => \A p \in Actors : LocalsStep(p)
  <1> SUFFICES ASSUME TypeOK, [Next]_vars, NEW a \in Actors PROVE LocalsStep(a)
    OBVIOUS
  <1>0. LocalsOK
    BY DEF TypeOK, LocalsOK
  <1> USE DEF LocalsStep, LocalsOK
  <1>1. CASE StartDaemon
    BY <1>1, <1>0 DEF StartDaemon, Goto
  <1>2. ASSUME NEW p \in Actors, NEW c \in Configs, SaveRequest(p, c) PROVE LocalsStep(a)
    BY <1>2, <1>0 DEF SaveRequest, Goto
  <1>3. ASSUME NEW p \in Actors, ApplyRequest(p) PROVE LocalsStep(a)
    BY <1>3, <1>0 DEF ApplyRequest, Goto
  <1>4. ASSUME NEW p \in Actors, NEW i \in DOMAIN revs, RollbackRequest(p, i) PROVE LocalsStep(a)
    BY <1>4, <1>0 DEF RollbackRequest, Goto
  <1>5. ASSUME NEW p \in Actors, StartCommand(p) PROVE LocalsStep(a)
    BY <1>5, <1>0 DEF StartCommand, Goto
  <1>6. ASSUME NEW p \in Actors, Quit(p) PROVE LocalsStep(a)
    BY <1>6, <1>0 DEF Quit, Return, Goto
  <1>7. ASSUME NEW p \in Actors, OpenRead(p) PROVE LocalsStep(a)
    BY <1>7, <1>0 DEF OpenRead, Opened, Goto
  <1>8. ASSUME NEW p \in Actors, OpenStatus(p) PROVE LocalsStep(a)
    BY <1>8, <1>0 DEF OpenStatus, Opened, Goto
  <1>9. ASSUME NEW p \in Actors, OpenInstall(p) PROVE LocalsStep(a)
    BY <1>9, <1>0 DEF OpenInstall, Opened, Unlist, Goto
  <1>10. ASSUME NEW p \in Actors, OpenForward(p) PROVE LocalsStep(a)
    BY <1>10, <1>0 DEF OpenForward, Opened, Goto
  <1>11. ASSUME NEW p \in Actors, SaveDraft(p) PROVE LocalsStep(a)
    BY <1>11, <1>0 DEF SaveDraft, Return, Goto
  <1>12. ASSUME NEW p \in Actors, Validate(p) PROVE LocalsStep(a)
    BY <1>12, <1>0 DEF Validate, Return, Goto
  <1>13. ASSUME NEW p \in Actors, ReadPrevious(p) PROVE LocalsStep(a)
    BY <1>13, <1>0 DEF ReadPrevious, Return, Goto
  <1>14. ASSUME NEW p \in Actors, Reuse(p) PROVE LocalsStep(a)
    BY <1>14, <1>0 DEF Reuse, Return, Goto
  <1>15. ASSUME NEW p \in Actors, SnapshotFails(p) PROVE LocalsStep(a)
    BY <1>15, <1>0 DEF SnapshotFails, Return, Goto
  <1>16. ASSUME NEW p \in Actors, Install(p) PROVE LocalsStep(a)
    BY <1>16, <1>0 DEF Install, Fail, Unlist, Return, Goto
  <1>17. ASSUME NEW p \in Actors, Forward(p) PROVE LocalsStep(a)
    BY <1>17, <1>0 DEF Forward, Goto
  <1>18. ASSUME NEW p \in Actors, Undo(p) PROVE LocalsStep(a)
    BY <1>18, <1>0 DEF Undo, Fail, Unlist, Return, Goto
  <1>19. ASSUME NEW p \in Actors, Record(p) PROVE LocalsStep(a)
    BY <1>19, <1>0 DEF Record, Return, Goto
  <1>20. ASSUME NEW p \in Actors, UndoLocked(p) PROVE LocalsStep(a)
    BY <1>20, <1>0 DEF UndoLocked, Return, Goto
  <1>21. ASSUME NEW p \in Actors, NoteError(p) PROVE LocalsStep(a)
    BY <1>21, <1>0 DEF NoteError, Return, Goto
  <1>22. ASSUME NEW p \in Actors, Disconnect(p) PROVE LocalsStep(a)
    BY <1>22, <1>0 DEF Disconnect, Stop
  <1>23. ASSUME NEW p \in Actors, KillCommand(p) PROVE LocalsStep(a)
    BY <1>23, <1>0 DEF KillCommand, Stop
  <1>24. CASE Crash
    BY <1>24, <1>0 DEF Crash, Stop
  <1>25. CASE Reboot
    BY <1>25, <1>0 DEF Reboot, Stop
  <1>26. ASSUME NEW s \in SshStates, SshdChange(s) PROVE LocalsStep(a)
    BY <1>26, <1>0 DEF SshdChange
  <1>27. CASE TableRemoved
    BY <1>27, <1>0 DEF TableRemoved
  <1>28. CASE UNCHANGED vars
    BY <1>28 DEF vars
  <1>29. ASSUME NEW p \in Actors, List(p) PROVE LocalsStep(a)
    BY <1>29, <1>0 DEF List, Listing
  <1> QED BY <1>1, <1>2, <1>3, <1>4, <1>5, <1>6, <1>7, <1>8, <1>9, <1>10, <1>11, <1>12, <1>13, <1>14, <1>15, <1>16, <1>17, <1>18, <1>19, <1>20, <1>21, <1>22, <1>23, <1>24, <1>25, <1>26, <1>27, <1>28, <1>29 DEF Next, Calls, Continue, Environment

(* The same, of the two configurations an actor holds.                     *)
LEMMA LocalsFields ==
    ASSUME TypeOK, NEW p \in Actors, LocalsStep(p)
    PROVE  /\ job'[p].previous \in {job[p].previous, Default, Active}
           /\ \/ /\ job'[p].goal = job[p].goal
                 /\ pc[p] = "saveDraft" => pc'[p] = "saveDraft"
              \/ job'[p].goal \in {Default, Active}
              \/ job'[p].goal \in ValidIn[sshd] /\ pc'[p] = "saveDraft"
              \/ Has(revs, "draft") /\ job'[p].goal = LatestConfig(revs, "draft")
              \/ \E i \in DOMAIN revs : job'[p].goal = revs[i].config
  <1>1. job[p] \in Job
    BY DEF TypeOK
  <1>2. \A op, c : /\ [NoJob EXCEPT !.op = op, !.goal = c].goal = c
                   /\ [NoJob EXCEPT !.op = op, !.goal = c].previous = Default
    BY DEF NoJob
  <1>3. \A op, d, c :
          /\ [NoJob EXCEPT !.op = op, !.draft = d, !.goal = c].goal = c
          /\ [NoJob EXCEPT !.op = op, !.draft = d, !.goal = c].previous = Default
    BY DEF NoJob
  <1>4. NoJob.goal = Default /\ NoJob.previous = Default
    BY DEF NoJob
  <1>5. \A c : /\ [job[p] EXCEPT !.previous = c].goal = job[p].goal
               /\ [job[p] EXCEPT !.previous = c].previous = c
    BY <1>1 DEF Job
  <1>6. CASE \/ job'[p] = job[p] /\ (pc[p] = "saveDraft" => pc'[p] = "saveDraft")
             \/ job'[p] = NoJob
    BY <1>4, <1>6
  <1>12. CASE \E l \in {"no", "present", "absent"} :
                pc[p] # "saveDraft" /\ job'[p] = [job[p] EXCEPT !.listed = l]
    BY <1>1, <1>12 DEF Job
  <1>7. CASE \E c \in ValidIn[sshd] :
                /\ pc'[p] = "saveDraft"
                /\ job'[p] = [NoJob EXCEPT !.op = "save", !.goal = c]
    BY <1>2, <1>7
  <1>8. CASE /\ Has(revs, "draft")
             /\ job'[p] = [NoJob EXCEPT !.op = "apply",
                                        !.draft = LatestIndex(revs, "draft"),
                                        !.goal = LatestConfig(revs, "draft")]
    BY <1>3, <1>8
  <1>9. CASE \E i \in DOMAIN revs :
                job'[p] = [NoJob EXCEPT !.op = "rollback", !.goal = revs[i].config]
    BY <1>2, <1>9
  <1>10. CASE job'[p] = [NoJob EXCEPT !.op = "open", !.goal = Active]
    BY <1>2, <1>10
  <1>11. CASE /\ pc[p] = "readPrevious"
              /\ job'[p] = [job[p] EXCEPT !.previous = Active]
    BY <1>5, <1>11
  <1> QED BY <1>6, <1>7, <1>8, <1>9, <1>10, <1>11, <1>12 DEF LocalsStep

------------------------------------------------------------------------------
(* What a step of the table keeps: rows stay where they are, with their    *)
(* kind and configuration, and a new row holds the goal of an actor.       *)
LEMMA RowsKept ==
    ASSUME TypeOK, RowsStep
    PROVE  /\ \A i \in DOMAIN revs : /\ i \in DOMAIN revs'
                                     /\ revs'[i].kind = revs[i].kind
                                     /\ revs'[i].config = revs[i].config
           /\ \A i \in DOMAIN revs' : \/ i \in DOMAIN revs
                                      \/ \E p \in Actors : /\ pc[p] \in {"saveDraft", "record"}
                                                           /\ revs'[i].config = job[p].goal
           /\ Active' = Active \/ \E p \in Actors : pc[p] = "record" /\ Active' = job[p].goal
           /\ \A i \in DOMAIN revs' : /\ revs'[i].kind = "active"
                                      /\ i \notin DOMAIN revs
                => \E p \in Actors : pc[p] = "record" /\ revs'[i].config = job[p].goal
  <1>0. LocalsOK /\ revs \in Seq(Revision)
    BY DEF TypeOK, LocalsOK
  <1>1. CASE UNCHANGED revs
    BY <1>1 DEF Active
  <1>2. ASSUME NEW p \in Actors, NEW kind \in Kinds,
               revs' = Insert(revs, kind, job[p].goal)
        PROVE  /\ \A i \in DOMAIN revs : i \in DOMAIN revs' /\ revs'[i] = revs[i]
               /\ \A i \in DOMAIN revs' : \/ i \in DOMAIN revs
                                          \/ /\ revs'[i].config = job[p].goal
                                             /\ revs'[i].kind = kind
    <2>1. job[p].goal \in Configs
      BY <1>0, JobFields
    <2>2. /\ DOMAIN revs' = DOMAIN revs \cup {Len(revs) + 1}
          /\ revs'[Len(revs) + 1] = Row(kind, job[p].goal)
          /\ \A i \in DOMAIN revs : revs'[i] = revs[i]
      BY <1>0, <1>2, <2>1, InsertRows
    <2> QED BY <2>2 DEF Row
  <1>3. ASSUME NEW p \in Actors, pc[p] = "saveDraft",
               revs' = Insert(revs, "draft", job[p].goal)
        PROVE  Active' = Active
    BY <1>0, <1>3, JobFields, InsertActive DEF Active
  <1>4. ASSUME NEW p \in Actors, pc[p] = "record",
               revs' = Insert(revs, "active", job[p].goal)
        PROVE  Active' = job[p].goal
    BY <1>0, <1>4, JobFields, InsertActive DEF Active
  <1>5. CASE \E p \in Actors : pc[p] = "saveDraft" /\ revs' = Insert(revs, "draft", job[p].goal)
    BY <1>2, <1>3, <1>5 DEF Kinds
  <1>6. CASE \E p \in Actors : pc[p] = "record" /\ revs' = Insert(revs, "active", job[p].goal)
    BY <1>2, <1>4, <1>6 DEF Kinds
  <1>7. CASE \E p \in Actors : pc[p] = "noteError" /\ revs' = FlagError(revs, job[p].draft)
    BY <1>0, <1>7, JobFields, FlagRows DEF Active
  <1> QED BY <1>1, <1>5, <1>6, <1>7 DEF RowsStep

(* Active is the default or the configuration of a row.                    *)
LEMMA ActiveIsRow ==
    ASSUME TypeOK
    PROVE  Active = Default \/ \E i \in DOMAIN revs : Active = revs[i].config
  BY ActiveRow DEF TypeOK, Active

------------------------------------------------------------------------------
(* Everything that can reach the table or the kernel was vetted.           *)
VettedInv ==
    /\ sshd \in sshdSeen
    /\ \A i \in DOMAIN revs : revs[i].config \in Vetted
    /\ \A i \in DOMAIN kernel : kernel[i] \in Vetted
    /\ \A p \in Actors : job[p].goal \in Vetted /\ job[p].previous \in Vetted

(* Only SshdChange touches sshd_config.                                    *)
LEMMA SshdSteps ==
    [Next]_vars => \/ UNCHANGED <<sshd, sshdSeen>>
                   \/ \E s \in SshStates : sshd' = s /\ sshdSeen' = sshdSeen \cup {s}
  BY DEF host, ghosts, Next, Calls, Continue, Environment, vars,
         StartDaemon, SaveRequest, ApplyRequest, RollbackRequest,
         StartCommand, Quit, OpenRead, OpenStatus, OpenInstall,
         OpenForward, SaveDraft, Validate, ReadPrevious, Reuse,
         SnapshotFails, List, Install, Forward, Undo, Record, UndoLocked,
         NoteError, Disconnect, KillCommand, Crash, Reboot, SshdChange,
         TableRemoved

(* Every step keeps what it holds vetted.                                  *)
LEMMA VettedStep == TypeOK /\ VettedInv /\ [Next]_vars => VettedInv'
  <1> SUFFICES ASSUME TypeOK, VettedInv, [Next]_vars PROVE VettedInv'
    OBVIOUS
  <1>1. sshd' \in sshdSeen' /\ Vetted \subseteq Vetted'
    BY SshdSteps DEF VettedInv, Vetted
  <1>2. ValidIn[sshd] \subseteq Vetted
    BY DEF VettedInv, Vetted
  <1>3. Default \in Vetted /\ Active \in Vetted
    <2>1. Default \in Vetted
      BY <1>2, ConfigAssumption DEF TypeOK
    <2> QED BY <2>1, ActiveIsRow DEF VettedInv
  <1>4. \A i \in DOMAIN revs' : revs'[i].config \in Vetted'
    BY <1>1, RowsSteps, RowsKept DEF VettedInv
  <1>5. \A i \in DOMAIN kernel' : kernel'[i] \in Vetted'
    BY <1>1, KernelSteps, KernelRows DEF VettedInv
  <1>6. ASSUME NEW p \in Actors
        PROVE  job'[p].goal \in Vetted /\ job'[p].previous \in Vetted
    <2>1. LocalsStep(p)
      BY LocalsSteps
    <2>2. job[p] \in Job /\ job[p].goal \in Vetted /\ job[p].previous \in Vetted
      BY DEF VettedInv, TypeOK
    <2>3. Has(revs, "draft") => LatestConfig(revs, "draft") \in Vetted
      BY LatestRow DEF VettedInv, TypeOK, Kinds
    <2>4. \A i \in DOMAIN revs : revs[i].config \in Vetted
      BY DEF VettedInv
    <2> QED BY <1>2, <1>3, <2>1, <2>2, <2>3, <2>4, LocalsFields
  <1> QED BY <1>1, <1>4, <1>5, <1>6 DEF VettedInv

(* Whatever is saved, active or installed once passed validate() under an  *)
(* sshd_config there has been, although rollback on the command line and   *)
(* the restoration at start-up install without validating.                 *)
THEOREM VettedHolds == Spec => []VettedOnly
  <1>1. Init => VettedInv
    BY ConfigAssumption DEF Init, VettedInv, Vetted, NoJob
  <1>2. VettedInv => VettedOnly
    BY DEF VettedInv, VettedOnly
  <1> QED BY <1>1, <1>2, VettedStep, TypeCorrect, PTL DEF Spec

------------------------------------------------------------------------------
(* Everything that can reach the kernel is in the table.                   *)
Recorded(c) == c = Default \/ \E i \in DOMAIN revs : revs[i].config = c

RecordedInv ==
    /\ \A i \in DOMAIN kernel : Recorded(kernel[i])
    /\ \A p \in Actors : /\ Recorded(job[p].previous)
                         /\ pc[p] # "saveDraft" => Recorded(job[p].goal)

(* Every step keeps what may reach the kernel in the history.              *)
LEMMA RecordedStep == TypeOK /\ RecordedInv /\ [Next]_vars => RecordedInv'
  <1> SUFFICES ASSUME TypeOK, RecordedInv, [Next]_vars PROVE RecordedInv'
    OBVIOUS
  <1>1. \A c : Recorded(c) => Recorded(c)'
    BY RowsSteps, RowsKept DEF Recorded
  <1>2. Recorded(Default) /\ Recorded(Active)
    BY ActiveIsRow DEF Recorded
  <1>3. \A i \in DOMAIN kernel' : Recorded(kernel'[i])
    <2>1. ASSUME NEW p \in Actors, pc[p] \in {"openInstall", "install"}
          PROVE  Recorded(job[p].goal)
      BY <2>1 DEF RecordedInv
    <2>2. \A p \in Actors : Recorded(job[p].previous)
      BY DEF RecordedInv
    <2>3. \A i \in DOMAIN kernel : Recorded(kernel[i])
      BY DEF RecordedInv
    <2> QED BY <2>1, <2>2, <2>3, KernelSteps, KernelRows
  <1>4. ASSUME NEW p \in Actors
        PROVE  /\ Recorded(job'[p].previous)
               /\ pc'[p] # "saveDraft" => Recorded(job'[p].goal)
    <2>1. LocalsStep(p)
      BY LocalsSteps
    <2>2. /\ job[p] \in Job /\ Recorded(job[p].previous)
          /\ pc[p] # "saveDraft" => Recorded(job[p].goal)
      BY DEF RecordedInv, TypeOK
    <2>3. Has(revs, "draft") => Recorded(LatestConfig(revs, "draft"))
      BY LatestRow DEF Recorded, TypeOK, Kinds
    <2>4. \A i \in DOMAIN revs : Recorded(revs[i].config)
      BY DEF Recorded
    <2> QED BY <1>2, <2>1, <2>2, <2>3, <2>4, LocalsFields
  <1>5. \A i \in DOMAIN kernel' : Recorded(kernel[i])'
    BY <1>1, <1>3 DEF Recorded
  <1>6. \A p \in Actors : /\ Recorded(job[p].previous)'
                          /\ pc'[p] # "saveDraft" => Recorded(job[p].goal)'
    BY <1>1, <1>4 DEF Recorded
  <1> QED BY <1>5, <1>6 DEF RecordedInv

(* The history holds the configuration of every batch in the table, be it  *)
(* a table two processes have merged: no undo, late handler or restart can *)
(* install a configuration that is not in it.                              *)
THEOREM KernelRecordedHolds == Spec => []KernelRecorded
  <1>1. Init => RecordedInv
    BY DEF Init, RecordedInv, Recorded, NoJob
  <1>2. RecordedInv => KernelRecorded
    BY DEF RecordedInv, Recorded, KernelRecorded
  <1> QED BY <1>1, <1>2, RecordedStep, TypeCorrect, PTL DEF Spec

------------------------------------------------------------------------------
(* The draft an apply works on is a draft of the table and holds the       *)
(* configuration it applies; only a request notes an error.                *)
IsDraft(d, c) ==
    d # 0 => /\ d \in DOMAIN revs
             /\ revs[d].kind = "draft" /\ revs[d].config = c

DraftInv ==
    \A p \in Actors : /\ IsDraft(job[p].draft, job[p].goal)
                      /\ pc[p] = "noteError" => p \in Requests

(* A step leaves the draft and the goal of an actor alone, clears the      *)
(* draft, or takes both from the latest.                                   *)
LEMMA LocalsDraft ==
    ASSUME TypeOK, NEW p \in Actors, LocalsStep(p)
    PROVE  \/ job'[p].draft = 0
           \/ job'[p].draft = job[p].draft /\ job'[p].goal = job[p].goal
           \/ /\ Has(revs, "draft")
              /\ job'[p].draft = LatestIndex(revs, "draft")
              /\ job'[p].goal = LatestConfig(revs, "draft")
  <1>1. job[p] \in Job
    BY DEF TypeOK
  <1>2. \A op, c : [NoJob EXCEPT !.op = op, !.goal = c].draft = 0
    BY DEF NoJob
  <1>3. \A op, d, c : /\ [NoJob EXCEPT !.op = op, !.draft = d, !.goal = c].draft = d
                      /\ [NoJob EXCEPT !.op = op, !.draft = d, !.goal = c].goal = c
    BY DEF NoJob
  <1>4. \A c : /\ [job[p] EXCEPT !.previous = c].draft = job[p].draft
               /\ [job[p] EXCEPT !.previous = c].goal = job[p].goal
    BY <1>1 DEF Job
  <1>5. \A l : /\ [job[p] EXCEPT !.listed = l].draft = job[p].draft
               /\ [job[p] EXCEPT !.listed = l].goal = job[p].goal
    BY <1>1 DEF Job
  <1>6. CASE job'[p] = job[p] \/ job'[p] = NoJob
    BY <1>6 DEF NoJob
  <1>7. CASE \E c \in ValidIn[sshd] :
                job'[p] = [NoJob EXCEPT !.op = "save", !.goal = c]
    BY <1>2, <1>7
  <1>8. CASE \E i \in DOMAIN revs :
                job'[p] = [NoJob EXCEPT !.op = "rollback", !.goal = revs[i].config]
    BY <1>2, <1>8
  <1>9. CASE job'[p] = [NoJob EXCEPT !.op = "open", !.goal = Active]
    BY <1>2, <1>9
  <1>10. CASE /\ Has(revs, "draft")
              /\ job'[p] = [NoJob EXCEPT !.op = "apply",
                                         !.draft = LatestIndex(revs, "draft"),
                                         !.goal = LatestConfig(revs, "draft")]
    BY <1>3, <1>10
  <1>11. CASE job'[p] = [job[p] EXCEPT !.previous = Active]
    BY <1>4, <1>11
  <1>12. CASE \E l \in {"no", "present", "absent"} : job'[p] = [job[p] EXCEPT !.listed = l]
    BY <1>5, <1>12
  <1> QED BY <1>6, <1>7, <1>8, <1>9, <1>10, <1>11, <1>12 DEF LocalsStep

(* A request alone comes to note an error.                                 *)
LEMMA NoteSteps ==
    ASSUME TypeOK, [Next]_vars, NEW a \in Actors, pc'[a] = "noteError"
    PROVE  pc[a] = "noteError" \/ a \in Requests
  <1> USE DEF TypeOK, Goto, Return, Opened, host, ghosts
  <1>1. ASSUME NEW p \in Actors, Calls(p) PROVE pc[a] = "noteError"
    BY <1>1 DEF Calls, SaveRequest, ApplyRequest, RollbackRequest, StartCommand, Quit
  <1>2. ASSUME NEW p \in Actors, Undo(p) \/ Install(p)
        PROVE  pc[a] = "noteError" \/ a \in Requests
    BY <1>2 DEF Undo, Install, Fail
  <1>3. ASSUME NEW p \in Actors,
               \/ OpenRead(p) \/ OpenStatus(p) \/ OpenInstall(p) \/ OpenForward(p)
        PROVE  pc[a] = "noteError"
    BY <1>3 DEF OpenRead, OpenStatus, OpenInstall, OpenForward
  <1>4. ASSUME NEW p \in Actors,
               \/ SaveDraft(p) \/ Validate(p) \/ ReadPrevious(p) \/ Reuse(p)
               \/ SnapshotFails(p) \/ List(p)
        PROVE  pc[a] = "noteError"
    BY <1>4 DEF SaveDraft, Validate, ReadPrevious, Reuse, SnapshotFails, List
  <1>5. ASSUME NEW p \in Actors,
               Forward(p) \/ Record(p) \/ UndoLocked(p) \/ NoteError(p)
        PROVE  pc[a] = "noteError"
    BY <1>5 DEF Forward, Record, UndoLocked, NoteError
  <1>6. ASSUME NEW p \in Actors, Disconnect(p) \/ KillCommand(p)
        PROVE  pc[a] = "noteError"
    BY <1>6 DEF Disconnect, KillCommand, Stop
  <1>7. CASE Crash \/ Reboot
    BY <1>7 DEF Crash, Reboot, Stop
  <1>8. ASSUME NEW t \in SshStates, SshdChange(t) PROVE pc[a] = "noteError"
    BY <1>8 DEF SshdChange
  <1>9. CASE StartDaemon \/ TableRemoved \/ UNCHANGED vars
    BY <1>9 DEF StartDaemon, TableRemoved, vars
  <1> QED BY <1>1, <1>2, <1>3, <1>4, <1>5, <1>6, <1>7, <1>8, <1>9
          DEF Next, Continue, Environment

(* Every step keeps it: drafts stay drafts, where they are.                *)
LEMMA DraftStep == TypeOK /\ DraftInv /\ [Next]_vars => DraftInv'
  <1> SUFFICES ASSUME TypeOK, DraftInv, [Next]_vars PROVE DraftInv'
    OBVIOUS
  <1>1. \A d, c : IsDraft(d, c) => IsDraft(d, c)'
    BY RowsSteps, RowsKept DEF IsDraft
  <1>2. Has(revs, "draft") =>
          IsDraft(LatestIndex(revs, "draft"), LatestConfig(revs, "draft"))
    BY LatestRow DEF IsDraft, LatestConfig, TypeOK, Kinds
  <1>3. ASSUME NEW p \in Actors PROVE IsDraft(job'[p].draft, job'[p].goal)
    <2>1. LocalsStep(p)
      BY LocalsSteps
    <2>2. IsDraft(job[p].draft, job[p].goal) /\ IsDraft(0, job'[p].goal)
      BY DEF DraftInv, IsDraft
    <2> QED BY <1>2, <2>1, <2>2, LocalsDraft
  <1>4. \A p \in Actors : IsDraft(job[p].draft, job[p].goal)'
    BY <1>1, <1>3 DEF IsDraft
  <1>5. \A p \in Actors : pc'[p] = "noteError" => p \in Requests
    BY NoteSteps DEF DraftInv
  <1> QED BY <1>4, <1>5 DEF DraftInv

(* What a step may do to the table.                                        *)
AppendOnlyStep ==
    /\ Len(revs') >= Len(revs)
    /\ \A i \in DOMAIN revs :
         \/ revs'[i] = revs[i]
         \/ /\ revs[i].kind = "draft"
            /\ revs'[i] = [revs[i] EXCEPT !.failed = TRUE]
            /\ \E p \in Requests : /\ pc[p] = "noteError"
                                   /\ i = job[p].draft
                                   /\ revs[i].config = job[p].goal

(* Every step appends, or flags the draft an apply took.                   *)
LEMMA HistoryStep == TypeOK /\ DraftInv /\ [Next]_vars => AppendOnlyStep
  <1> SUFFICES ASSUME TypeOK, DraftInv, [Next]_vars PROVE AppendOnlyStep
    OBVIOUS
  <1>0. LocalsOK /\ revs \in Seq(Revision) /\ Len(revs) \in Nat
    BY DEF TypeOK, LocalsOK
  <1>1. CASE UNCHANGED revs
    BY <1>0, <1>1 DEF AppendOnlyStep
  <1>2. ASSUME NEW p \in Actors, NEW kind \in Kinds,
               revs' = Insert(revs, kind, job[p].goal)
        PROVE  AppendOnlyStep
    <2>1. job[p].goal \in Configs
      BY <1>0, JobFields
    <2>2. /\ Len(revs') = Len(revs) + 1
          /\ \A i \in DOMAIN revs : revs'[i] = revs[i]
      BY <1>0, <1>2, <2>1, InsertRows
    <2> QED BY <1>0, <2>2 DEF AppendOnlyStep
  <1>3. ASSUME NEW p \in Actors, pc[p] = "noteError",
               revs' = FlagError(revs, job[p].draft)
        PROVE  AppendOnlyStep
    <2> DEFINE d == job[p].draft
    <2>1. d \in Nat /\ IsDraft(d, job[p].goal) /\ p \in Requests
      BY <1>0, <1>3, JobFields DEF DraftInv
    <2>2. Len(revs') = Len(revs) /\ \A i \in DOMAIN revs : i # d => revs'[i] = revs[i]
      BY <1>0, <1>3, <2>1, FlagRows
    <2>3. d \in DOMAIN revs => revs'[d] = [revs[d] EXCEPT !.failed = TRUE]
      BY <1>3 DEF FlagError
    <2>4. d \in DOMAIN revs => revs[d].kind = "draft" /\ revs[d].config = job[p].goal
      <3>1. 0 \notin DOMAIN revs
        BY <1>0
      <3> QED BY <2>1, <3>1 DEF IsDraft
    <2>7. \A i \in DOMAIN revs : i = d => \E q \in Requests :
            pc[q] = "noteError" /\ i = job[q].draft /\ revs[i].config = job[q].goal
      BY <1>3, <2>1, <2>4
    <2> HIDE DEF d
    <2>5. Len(revs') >= Len(revs)
      BY <1>0, <2>2
    <2>6. ASSUME NEW i \in DOMAIN revs
          PROVE  \/ revs'[i] = revs[i]
                 \/ /\ revs[i].kind = "draft"
                    /\ revs'[i] = [revs[i] EXCEPT !.failed = TRUE]
                    /\ \E q \in Requests : /\ pc[q] = "noteError"
                                           /\ i = job[q].draft
                                           /\ revs[i].config = job[q].goal
      BY <2>2, <2>3, <2>4, <2>7
    <2> QED BY <2>5, <2>6 DEF AppendOnlyStep
  <1> QED BY <1>1, <1>2, <1>3, RowsSteps DEF RowsStep, Kinds

(* The history is append-only, and the only thing that changes of a row is *)
(* the error flag of the draft a request could not apply.                  *)
THEOREM HistoryAppendOnlyHolds == Spec => HistoryAppendOnly
  <1>1. Init => DraftInv
    BY DEF Init, DraftInv, IsDraft, NoJob
  <1>2. TypeOK /\ DraftInv /\ [Next]_vars => [AppendOnlyStep]_vars
    BY HistoryStep
  <1>3. Spec => [][AppendOnlyStep]_vars
    BY <1>1, <1>2, DraftStep, TypeCorrect, PTL DEF Spec
  <1> QED BY <1>3 DEF HistoryAppendOnly, AppendOnlyStep

------------------------------------------------------------------------------
(* Which configurations have been in the kernel, and what that means for   *)
(* the forwarding sysctls and for the revisions marked active.             *)

(* How an actor gets to the locations between the batch and the commit.    *)
PlaceStep(p) ==
    \/ pc'[p] = pc[p] /\ job'[p].goal = job[p].goal
    \/ pc'[p] \notin {"openStatus", "openInstall", "openForward",
                      "forward", "record"}
    \/ pc'[p] = "openStatus" /\ job'[p].goal = Active /\ UNCHANGED revs
    \/ /\ pc[p] = "openStatus" /\ pc'[p] = "openInstall"
       /\ job'[p].goal = job[p].goal
    \/ /\ pc[p] = "openInstall" /\ pc'[p] = "openForward"
       /\ job'[p].goal = job[p].goal /\ Commit(p, job[p].goal)
    \/ /\ pc[p] = "install" /\ pc'[p] = "forward"
       /\ job'[p].goal = job[p].goal /\ Commit(p, job[p].goal)
    \/ /\ pc[p] = "forward" /\ pc'[p] = "record"
       /\ job'[p].goal = job[p].goal /\ EnsureForwarding(job[p].goal)

(* Every step moves an actor in one of these ways.                         *)
LEMMA PlaceSteps ==
    TypeOK /\ [Next]_vars => \A p \in Actors : PlaceStep(p)
  <1> SUFFICES ASSUME TypeOK, [Next]_vars, NEW a \in Actors PROVE PlaceStep(a)
    OBVIOUS
  <1>0. LocalsOK
    BY DEF TypeOK, LocalsOK
  <1> USE DEF PlaceStep, LocalsOK
  <1>1. CASE StartDaemon
    BY <1>0, <1>1 DEF StartDaemon, Goto
  <1>2. ASSUME NEW p \in Actors, NEW c \in Configs, SaveRequest(p, c) PROVE PlaceStep(a)
    BY <1>0, <1>2 DEF SaveRequest, Goto
  <1>3. ASSUME NEW p \in Actors, ApplyRequest(p) PROVE PlaceStep(a)
    BY <1>0, <1>3 DEF ApplyRequest, Goto
  <1>4. ASSUME NEW p \in Actors, NEW i \in DOMAIN revs, RollbackRequest(p, i) PROVE PlaceStep(a)
    BY <1>0, <1>4 DEF RollbackRequest, Goto
  <1>5. ASSUME NEW p \in Actors, StartCommand(p) PROVE PlaceStep(a)
    BY <1>0, <1>5 DEF StartCommand, Goto
  <1>6. ASSUME NEW p \in Actors, Quit(p) PROVE PlaceStep(a)
    BY <1>0, <1>6 DEF Quit, Return, Goto
  <1>7. ASSUME NEW p \in Actors, OpenRead(p) PROVE PlaceStep(a)
    BY <1>0, <1>7 DEF OpenRead, Opened, Goto, NoJob
  <1>8. ASSUME NEW p \in Actors, OpenStatus(p) PROVE PlaceStep(a)
    BY <1>0, <1>8 DEF OpenStatus, Opened, Goto
  <1>9. ASSUME NEW p \in Actors, OpenInstall(p) PROVE PlaceStep(a)
    BY <1>0, <1>9 DEF OpenInstall, Opened, Unlist, Goto, Job
  <1>10. ASSUME NEW p \in Actors, OpenForward(p) PROVE PlaceStep(a)
    BY <1>0, <1>10 DEF OpenForward, Opened, Goto
  <1>11. ASSUME NEW p \in Actors, SaveDraft(p) PROVE PlaceStep(a)
    BY <1>0, <1>11 DEF SaveDraft, Return, Goto
  <1>12. ASSUME NEW p \in Actors, Validate(p) PROVE PlaceStep(a)
    BY <1>0, <1>12 DEF Validate, Return, Goto
  <1>13. ASSUME NEW p \in Actors, ReadPrevious(p) PROVE PlaceStep(a)
    BY <1>0, <1>13 DEF ReadPrevious, Return, Goto
  <1>14. ASSUME NEW p \in Actors, Reuse(p) PROVE PlaceStep(a)
    BY <1>0, <1>14 DEF Reuse, Return, Goto
  <1>15. ASSUME NEW p \in Actors, SnapshotFails(p) PROVE PlaceStep(a)
    BY <1>0, <1>15 DEF SnapshotFails, Return, Goto
  <1>16. ASSUME NEW p \in Actors, Install(p) PROVE PlaceStep(a)
    BY <1>0, <1>16 DEF Install, Fail, Unlist, Return, Goto, Job
  <1>17. ASSUME NEW p \in Actors, Forward(p) PROVE PlaceStep(a)
    BY <1>0, <1>17 DEF Forward, Goto
  <1>18. ASSUME NEW p \in Actors, Undo(p) PROVE PlaceStep(a)
    BY <1>0, <1>18 DEF Undo, Fail, Unlist, Return, Goto, Job
  <1>19. ASSUME NEW p \in Actors, Record(p) PROVE PlaceStep(a)
    BY <1>0, <1>19 DEF Record, Return, Goto
  <1>20. ASSUME NEW p \in Actors, UndoLocked(p) PROVE PlaceStep(a)
    BY <1>0, <1>20 DEF UndoLocked, Return, Goto
  <1>21. ASSUME NEW p \in Actors, NoteError(p) PROVE PlaceStep(a)
    BY <1>0, <1>21 DEF NoteError, Return, Goto
  <1>22. ASSUME NEW p \in Actors, Disconnect(p) PROVE PlaceStep(a)
    BY <1>0, <1>22 DEF Disconnect, Stop
  <1>23. ASSUME NEW p \in Actors, KillCommand(p) PROVE PlaceStep(a)
    BY <1>0, <1>23 DEF KillCommand, Stop
  <1>24. CASE Crash
    BY <1>0, <1>24 DEF Crash, Stop
  <1>25. CASE Reboot
    BY <1>0, <1>25 DEF Reboot, Stop
  <1>26. ASSUME NEW s \in SshStates, SshdChange(s) PROVE PlaceStep(a)
    BY <1>0, <1>26 DEF SshdChange
  <1>27. CASE TableRemoved
    BY <1>0, <1>27 DEF TableRemoved
  <1>28. CASE UNCHANGED vars
    BY <1>28 DEF vars
  <1>29. ASSUME NEW p \in Actors, List(p) PROVE PlaceStep(a)
    BY <1>0, <1>29 DEF List, Job
  <1> QED BY <1>1, <1>2, <1>3, <1>4, <1>5, <1>6, <1>7, <1>8, <1>9, <1>10, <1>11, <1>12, <1>13, <1>14, <1>15, <1>16, <1>17, <1>18, <1>19, <1>20, <1>21, <1>22, <1>23, <1>24, <1>25, <1>26, <1>27, <1>28, <1>29 DEF Next, Calls, Continue, Environment

(* The sysctls only gain what an actor needs that has committed its batch, *)
(* or are reloaded from the file by a reboot.                              *)
SysctlStep ==
    \/ UNCHANGED <<fwd, fwdFile>>
    \/ /\ fwd' = fwdFile /\ UNCHANGED fwdFile
       /\ "forwarding" \in disturbed'
       /\ \A p \in Actors : pc'[p] \in {"idle", "down"}
    \/ \E p \in Actors :
          /\ pc[p] \in {"forward", "openForward"}
          /\ fwd \subseteq fwd'
          /\ fwd' \subseteq fwd \cup Needs[job[p].goal]
          /\ fwdFile' \subseteq fwdFile \cup Needs[job[p].goal]

(* Every step changes the sysctls in one of these ways.                    *)
LEMMA SysctlSteps == [Next]_vars => SysctlStep
  <1> SUFFICES ASSUME [Next]_vars PROVE SysctlStep
    OBVIOUS
  <1> USE DEF SysctlStep, host, ghosts
  <1>1. ASSUME NEW p \in Actors, OpenForward(p) \/ Forward(p) PROVE SysctlStep
    BY <1>1 DEF OpenForward, Forward, EnsureForwarding, PartialForwarding
  <1>2. CASE Reboot
    BY <1>2 DEF Reboot, Stop, Disturb
  <1>3. CASE StartDaemon \/ Crash \/ TableRemoved \/ UNCHANGED vars
    BY <1>3 DEF StartDaemon, Crash, TableRemoved, Stop, vars
  <1>4. ASSUME NEW s \in SshStates, SshdChange(s) PROVE SysctlStep
    BY <1>4 DEF SshdChange
  <1>5. ASSUME NEW p \in Actors, Calls(p) PROVE SysctlStep
    BY <1>5 DEF Calls, SaveRequest, ApplyRequest, RollbackRequest, StartCommand, Quit
  <1>6. ASSUME NEW p \in Actors, Continue(p) PROVE SysctlStep
    BY <1>1, <1>6 DEF Continue, OpenRead, OpenStatus, OpenInstall,
       SaveDraft, Validate, ReadPrevious, Reuse, SnapshotFails, List, Install, Undo,
       Record, UndoLocked, NoteError
  <1>7. ASSUME NEW p \in Actors, Disconnect(p) \/ KillCommand(p) PROVE SysctlStep
    BY <1>7 DEF Disconnect, KillCommand, Stop
  <1> QED BY <1>1, <1>2, <1>3, <1>4, <1>5, <1>6, <1>7 DEF Next, Environment

(* Doubts about the sysctls are only cleared by an actor that has enabled  *)
(* what its goal needs.                                                    *)
TrustStep ==
    "forwarding" \notin disturbed' =>
        \/ "forwarding" \notin disturbed
        \/ \E p \in Actors : /\ pc[p] = "openForward"
                             /\ Needs[job[p].goal] \subseteq fwd'
                             /\ fwd \subseteq fwd'
                             /\ UNCHANGED revs
        \/ \E p \in Actors : /\ pc[p] = "record"
                             /\ revs' = Insert(revs, "active", job[p].goal)
                             /\ UNCHANGED fwd

(* Every step changes what is disturbed in one of these ways.              *)
LEMMA TrustSteps == [Next]_vars => TrustStep
  <1> SUFFICES ASSUME [Next]_vars PROVE TrustStep
    OBVIOUS
  <1> USE DEF TrustStep, host, ghosts
  <1>1. ASSUME NEW p \in Actors, OpenForward(p) PROVE TrustStep
    BY <1>1 DEF OpenForward, EnsureForwarding, PartialForwarding, Agreed, Disturb
  <1>2. ASSUME NEW p \in Actors, Record(p) PROVE TrustStep
    BY <1>2 DEF Record, Agreed, Disturb
  <1>3. ASSUME NEW p \in Actors, OpenStatus(p) \/ OpenInstall(p) \/ Reuse(p)
        PROVE  TrustStep
    BY <1>3 DEF OpenStatus, OpenInstall, Reuse, Agreed, Disturb
  <1>4. CASE Crash \/ Reboot \/ TableRemoved
    BY <1>4 DEF Crash, Reboot, TableRemoved, Stop, Disturb
  <1>5. CASE StartDaemon \/ UNCHANGED vars
    BY <1>5 DEF StartDaemon, vars
  <1>6. ASSUME NEW s \in SshStates, SshdChange(s) PROVE TrustStep
    BY <1>6 DEF SshdChange
  <1>7. ASSUME NEW p \in Actors, Calls(p) PROVE TrustStep
    BY <1>7 DEF Calls, SaveRequest, ApplyRequest, RollbackRequest, StartCommand, Begin, Quit
  <1>8. ASSUME NEW p \in Actors, Install(p) \/ Undo(p) \/ UndoLocked(p)
        PROVE  TrustStep
    BY <1>8 DEF Install, Undo, UndoLocked, PutBack, Disturb
  <1>9. ASSUME NEW p \in Actors, Continue(p) PROVE TrustStep
    BY <1>1, <1>2, <1>3, <1>8, <1>9 DEF Continue, OpenRead, SaveDraft,
       Validate, ReadPrevious, SnapshotFails, List, Forward, NoteError, Begin
  <1>10. ASSUME NEW p \in Actors, Disconnect(p) \/ KillCommand(p) PROVE TrustStep
    BY <1>10 DEF Disconnect, KillCommand, Stop, Disturb
  <1> QED BY <1>4, <1>5, <1>6, <1>7, <1>9, <1>10 DEF Next, Environment

------------------------------------------------------------------------------
(* A goal past its batch has been in the kernel.                           *)
InstalledInv ==
    /\ ActiveWasInstalled
    /\ ForwardingNeeded
    /\ \A p \in Actors : pc[p] \in {"forward", "record", "openForward"}
                          => job[p].goal \in installed

(* Every step keeps it.                                                    *)
LEMMA InstalledStep == TypeOK /\ InstalledInv /\ [Next]_vars => InstalledInv'
  <1> SUFFICES ASSUME TypeOK, InstalledInv, [Next]_vars PROVE InstalledInv'
    OBVIOUS
  <1>1. installed \subseteq installed'
    BY KernelSteps DEF KernelStep, Commit
  <1>2. \A p \in Actors : pc[p] \in {"forward", "record", "openForward"}
                           => job[p].goal \in installed'
    BY <1>1 DEF InstalledInv
  <1>3. ASSUME NEW p \in Actors, pc'[p] \in {"forward", "record", "openForward"}
        PROVE  job'[p].goal \in installed'
    BY <1>2, <1>3, PlaceSteps DEF PlaceStep, Commit
  <1>4. ActiveWasInstalled'
    <2> SUFFICES ASSUME NEW i \in DOMAIN revs', revs'[i].kind = "active"
                 PROVE  revs'[i].config \in installed'
      BY DEF ActiveWasInstalled
    <2>1. CASE i \in DOMAIN revs
      BY <1>1, <2>1, RowsSteps, RowsKept DEF InstalledInv, ActiveWasInstalled
    <2>2. CASE i \notin DOMAIN revs
      BY <1>2, <2>2, RowsSteps, RowsKept
    <2> QED BY <2>1, <2>2
  <1>5. ForwardingNeeded'
    <2>1. \A p \in Actors : pc[p] \in {"forward", "openForward"} =>
            Needs[job[p].goal] \subseteq UNION {Needs[c] : c \in installed'}
      BY <1>2
    <2>2. fwd \cup fwdFile \subseteq UNION {Needs[c] : c \in installed'}
      BY <1>1 DEF InstalledInv, ForwardingNeeded
    <2> QED BY <2>1, <2>2, SysctlSteps DEF SysctlStep, ForwardingNeeded
  <1> QED BY <1>3, <1>4, <1>5 DEF InstalledInv

(* It holds at first.                                                      *)
LEMMA InstalledInit == Init => InstalledInv
  BY DEF Init, InstalledInv, ActiveWasInstalled, ForwardingNeeded

(* A revision is marked active only after the kernel has accepted it.      *)
THEOREM ActiveWasInstalledHolds == Spec => []ActiveWasInstalled
  <1>1. InstalledInv => ActiveWasInstalled
    BY DEF InstalledInv
  <1> QED BY <1>1, InstalledInit, InstalledStep, TypeCorrect, PTL DEF Spec

(* No family is enabled that no installed configuration needed.            *)
THEOREM ForwardingNeededHolds == Spec => []ForwardingNeeded
  <1>1. InstalledInv => ForwardingNeeded
    BY DEF InstalledInv
  <1> QED BY <1>1, InstalledInit, InstalledStep, TypeCorrect, PTL DEF Spec

------------------------------------------------------------------------------
(* The commit of an actor finds the sysctls its goal needs; a restoration  *)
(* is of the active revision, or of one replaced since by an apply that    *)
(* enabled what it needs.                                                  *)
ForwardingInv ==
    /\ ForwardingReady
    /\ \A p \in Actors : pc[p] = "record" => Needs[job[p].goal] \subseteq fwd
    /\ \A p \in Actors : pc[p] \in {"openStatus", "openInstall", "openForward"}
            => job[p].goal = Active \/ Needs[Active] \subseteq fwd

(* Every step keeps it.                                                    *)
LEMMA ForwardingStep == TypeOK /\ ForwardingInv /\ [Next]_vars => ForwardingInv'
  <1> SUFFICES ASSUME TypeOK, ForwardingInv, [Next]_vars PROVE ForwardingInv'
    OBVIOUS
  <1>1. CASE /\ "forwarding" \in disturbed'
             /\ \A p \in Actors : pc'[p] \in {"idle", "down"}
    BY <1>1 DEF ForwardingInv, ForwardingReady
  <1>2. CASE fwd \subseteq fwd'
    <2>1. Active' = Active \/ Needs[Active'] \subseteq fwd'
      BY <1>2, RowsSteps, RowsKept DEF ForwardingInv
    <2>2. ForwardingReady'
      <3>1. CASE "forwarding" \notin disturbed
        BY <1>2, <2>1, <3>1 DEF ForwardingInv, ForwardingReady
      <3>2. ASSUME NEW p \in Actors, pc[p] = "openForward",
                   Needs[job[p].goal] \subseteq fwd', UNCHANGED revs
            PROVE  ForwardingReady'
        <4>1. Active' = Active
          BY <3>2 DEF Active
        <4> QED BY <1>2, <3>2, <4>1 DEF ForwardingInv, ForwardingReady
      <3>3. ASSUME NEW p \in Actors, pc[p] = "record",
                   revs' = Insert(revs, "active", job[p].goal)
            PROVE  ForwardingReady'
        <4>1. Active' = job[p].goal
          BY <3>3, JobFields, InsertActive DEF Active, TypeOK, LocalsOK
        <4> QED BY <1>2, <3>3, <4>1 DEF ForwardingInv, ForwardingReady
      <3>4. CASE "forwarding" \in disturbed'
        BY <3>4 DEF ForwardingReady
      <3> QED BY <3>1, <3>2, <3>3, <3>4, TrustSteps DEF TrustStep
    <2>3. ASSUME NEW p \in Actors, pc'[p] = "record"
          PROVE  Needs[job'[p].goal] \subseteq fwd'
      BY <1>2, <2>3, PlaceSteps DEF PlaceStep, EnsureForwarding, ForwardingInv
    <2>4. ASSUME NEW p \in Actors,
                 pc'[p] \in {"openStatus", "openInstall", "openForward"}
          PROVE  job'[p].goal = Active' \/ Needs[Active'] \subseteq fwd'
      <3>1. CASE pc'[p] = "openStatus" /\ job'[p].goal = Active /\ UNCHANGED revs
        BY <3>1 DEF Active
      <3>2. CASE /\ pc[p] \in {"openStatus", "openInstall", "openForward"}
                 /\ job'[p].goal = job[p].goal
        BY <1>2, <2>1, <3>2 DEF ForwardingInv
      <3> QED BY <2>4, <3>1, <3>2, PlaceSteps DEF PlaceStep
    <2> QED BY <2>2, <2>3, <2>4 DEF ForwardingInv
  <1> QED BY <1>1, <1>2, SysctlSteps DEF SysctlStep

(* The active revision finds the forwarding it needs enabled, unless its   *)
(* restoration at boot failed or was cut short.                            *)
THEOREM ForwardingReadyHolds == Spec => []ForwardingReady
  <1>1. Init => ForwardingInv
    <2> SUFFICES ASSUME Init PROVE ForwardingInv
      OBVIOUS
    <2>1. Active = Default /\ Needs[Default] = {}
      BY DefaultAssumption, ConfigAssumption
         DEF Init, Active, ActiveConfig, Has, Latest
    <2> QED BY <2>1 DEF Init, ForwardingInv, ForwardingReady
  <1>2. ForwardingInv => ForwardingReady
    BY DEF ForwardingInv
  <1> QED BY <1>1, <1>2, ForwardingStep, TypeCorrect, PTL DEF Spec

------------------------------------------------------------------------------
(* The table, over all that happens to it.                                 *)

(* There are finitely many processes, and a set of some of them has fewer  *)
(* members the fewer there are in it.                                      *)
LEMMA FewerProcesses ==
    /\ Cardinality(Processes) \in Nat
    /\ \A S \in SUBSET Processes :
         /\ Cardinality(S) \in Nat
         /\ Cardinality(S) <= Cardinality(Processes)
         /\ \A T \in SUBSET S : Cardinality(T) <= Cardinality(S)
         /\ \A x \in S : \A T \in SUBSET (S \ {x}) : Cardinality(T) + 1 <= Cardinality(S)
  <1>1. IsFiniteSet(Processes)
    <2> DEFINE f == [p \in Commands |-> {p}]
               Own == {{p} : p \in Commands}
    <2>1. f \in Surjection(Commands, Own)
      BY DEF Surjection
    <2>2. IsFiniteSet(Own)
      <3> HIDE DEF f, Own
      <3> QED BY <2>1, ActorsAssumption, FS_Surjection
    <2>3. IsFiniteSet(Own \cup {Requests \cup {Daemon}})
      BY <2>2, FS_AddElement
    <2>4. Processes \subseteq Own \cup {Requests \cup {Daemon}}
      BY DEF Processes, ProcessOf
    <2> HIDE DEF Own
    <2> QED BY <2>3, <2>4, FS_Subset
  <1>2. \A S \in SUBSET Processes : IsFiniteSet(S)
    BY <1>1, FS_Subset
  <1>3. \A S \in SUBSET Processes : Cardinality(S) \in Nat
    BY <1>2, FS_CardinalityType
  <1>4. \A S \in SUBSET Processes : \A T \in SUBSET S : Cardinality(T) <= Cardinality(S)
    BY <1>2, FS_Subset
  <1>5. ASSUME NEW S \in SUBSET Processes, NEW x \in S, NEW T \in SUBSET (S \ {x})
        PROVE  Cardinality(T) + 1 <= Cardinality(S)
    <2>1. Cardinality(S \ {x}) = Cardinality(S) - 1
      BY <1>2, FS_RemoveElement
    <2>2. Cardinality(T) <= Cardinality(S \ {x})
      BY <1>4
    <2> QED BY <1>3, <2>1, <2>2
  <1> QED BY <1>3, <1>4, <1>5

(* The processes about to add a batch without deleting the table.          *)
Adding == {ProcessOf(p) : p \in {q \in Actors : job[q].listed = "absent"}}

(* Every batch in the table came from a process that is no longer adding.  *)
MergeInv == kernel # <<>> => Len(kernel) + Cardinality(Adding) <= Cardinality(Processes)

(* No actor starts to add when there is a table.                           *)
LEMMA AddingShrinks ==
    ASSUME TypeOK, ListedInv, [Next]_vars
    PROVE  /\ \A p \in Actors : List(p) => kernel' = kernel
           /\ (\E p \in Actors : List(p)) /\ kernel # <<>> => Adding' \subseteq Adding
           /\ (\A p \in Actors : ~List(p)) =>
                  \A q \in Actors : job'[q].listed = "absent" => job[q].listed = "absent"
  <1>1. \A p \in Actors : List(p) => kernel' = kernel
    BY DEF List, host
  <1>2. ASSUME NEW p \in Actors, List(p), kernel # <<>>
        PROVE  Adding' \subseteq Adding
    <2>1. job' = [job EXCEPT ![p].listed = "present"]
      BY <1>2 DEF List
    <2>2. \A q \in Actors : job'[q].listed = "absent" => job[q].listed = "absent"
      BY <2>1 DEF TypeOK, Job
    <2> QED BY <2>2 DEF Adding
  <1>3. ASSUME \A p \in Actors : ~List(p), NEW q \in Actors, job'[q].listed = "absent"
        PROVE  job[q].listed = "absent"
    BY <1>3, ListedSteps DEF ListedStep
  <1> QED BY <1>1, <1>2, <1>3

(* A commit ends the part of its process, whatever the others do.          *)
LEMMA CommitEnds ==
    ASSUME TypeOK, ListedInv, [Next]_vars, \A q \in Actors : ~List(q),
           NEW p \in Actors, job[p].listed # "no", job'[p].listed = "no"
    PROVE  Adding' \subseteq Adding \ {ProcessOf(p)}
  <1>1. \A q \in Actors : job'[q].listed = "absent" =>
            job[q].listed = "absent" /\ ProcessOf(q) # ProcessOf(p)
    <2> SUFFICES ASSUME NEW q \in Actors, job'[q].listed = "absent"
                 PROVE  job[q].listed = "absent" /\ ProcessOf(q) # ProcessOf(p)
      OBVIOUS
    <2>1. job[q].listed = "absent" /\ q # p
      BY AddingShrinks
    <2> QED BY <2>1 DEF ListedInv
  <1> QED BY <1>1 DEF Adding

(* A commit that adds its batch to the others of a table leaves room for   *)
(* those still to come.                                                    *)
LEMMA CommitFits ==
    ASSUME TypeOK, ListedInv, MergeInv, [Next]_vars, \A q \in Actors : ~List(q),
           NEW p \in Actors, NEW c \in Configs, Commit(p, c), job'[p].listed = "no"
    PROVE  /\ Len(kernel') + Cardinality(Adding') <= Cardinality(Processes)
           /\ \/ kernel' = <<c>>
              \/ /\ kernel # <<>> /\ Len(kernel) < Cardinality(Processes)
                 /\ kernel' = Append(kernel, c)
  <1>0. /\ Adding \subseteq Processes /\ Adding' \subseteq Processes
        /\ Len(kernel) \in Nat /\ Cardinality(Adding') \in Nat
        /\ Cardinality(Adding) \in Nat /\ Cardinality(Processes) \in Nat
    <2>1. Adding \subseteq Processes /\ Adding' \subseteq Processes
      BY DEF Adding, Processes
    <2> QED BY <2>1, FewerProcesses DEF TypeOK
  <1>1. job[p].listed # "no"
    BY DEF Commit
  <1>2. Adding' \subseteq Adding \ {ProcessOf(p)}
    BY <1>1, CommitEnds
  <1>3. Cardinality(Adding') + 1 <= Cardinality(Processes)
    <2>1. ProcessOf(p) \in Processes
      BY DEF Processes
    <2> QED BY <1>0, <1>2, <2>1, FewerProcesses
  <1>4. CASE kernel' = <<c>>
    <2>1. Len(kernel') = 1
      BY <1>4
    <2> QED BY <1>0, <1>3, <1>4, <2>1
  <1>5. CASE job[p].listed = "absent" /\ kernel' = Append(kernel, c) /\ kernel # <<>>
    <2>1. Len(kernel') = Len(kernel) + 1
      BY <1>5 DEF TypeOK
    <2>2. ProcessOf(p) \in Adding
      BY <1>5 DEF Adding
    <2>3. Cardinality(Adding') + 1 <= Cardinality(Adding)
      BY <1>0, <1>2, <2>2, FewerProcesses
    <2>4. Len(kernel) + Cardinality(Adding) <= Cardinality(Processes)
      BY <1>5 DEF MergeInv
    <2> QED BY <1>0, <1>5, <2>1, <2>3, <2>4
  <1>6. CASE kernel' = Append(kernel, c) /\ kernel = <<>>
    <2>1. Append(<<>>, c) = <<c>>
      OBVIOUS
    <2> QED BY <1>4, <1>6, <2>1
  <1> QED BY <1>4, <1>5, <1>6 DEF Commit

(* Every step keeps the room, and is one of AtomicTable.                   *)
LEMMA AtomicStep ==
    ASSUME TypeOK, ListedInv, MergeInv, [Next]_vars
    PROVE  MergeInv' /\ [Table!Next]_kernel
  <1> USE DEF Table!Next, Table!Replace, Table!Merge, Table!Remove
  <1>0. /\ Adding \subseteq Processes /\ Adding' \subseteq Processes
        /\ Len(kernel) \in Nat /\ Cardinality(Adding') \in Nat
        /\ Cardinality(Adding) \in Nat /\ Cardinality(Processes) \in Nat
    <2>1. Adding \subseteq Processes /\ Adding' \subseteq Processes
      BY DEF Adding, Processes
    <2> QED BY <2>1, FewerProcesses DEF TypeOK
  <1>1. ASSUME kernel' = kernel, kernel # <<>> => Adding' \subseteq Adding
        PROVE  MergeInv' /\ [Table!Next]_kernel
    <2>1. CASE kernel = <<>>
      BY <1>1, <2>1 DEF MergeInv
    <2>2. CASE kernel # <<>>
      <3>1. Cardinality(Adding') <= Cardinality(Adding)
        BY <1>0, <1>1, <2>2, FewerProcesses
      <3>2. Len(kernel) + Cardinality(Adding) <= Cardinality(Processes)
        BY <2>2 DEF MergeInv
      <3>3. Len(kernel) + Cardinality(Adding') <= Cardinality(Processes)
        BY <1>0, <3>1, <3>2
      <3>4. Processes' = Processes
        BY DEF Processes
      <3> QED BY <1>1, <3>3, <3>4 DEF MergeInv
    <2> QED BY <2>1, <2>2
  <1>2. CASE \E p \in Actors : List(p)
    BY <1>1, <1>2, AddingShrinks
  <1>3. ASSUME \A p \in Actors : ~List(p)
        PROVE  MergeInv' /\ [Table!Next]_kernel
    <2>1. Adding' \subseteq Adding
      BY <1>3, AddingShrinks DEF Adding
    <2>2. ASSUME NEW p \in Actors, NEW c \in Configs, Commit(p, c), job'[p].listed = "no"
          PROVE  MergeInv' /\ [Table!Next]_kernel
      <3>1. /\ Len(kernel') + Cardinality(Adding') <= Cardinality(Processes)
            /\ \/ kernel' = <<c>>
               \/ /\ kernel # <<>> /\ Len(kernel) < Cardinality(Processes)
                  /\ kernel' = Append(kernel, c)
        BY <1>3, <2>2, CommitFits
      <3>2. Processes' = Processes
        BY DEF Processes
      <3>3. MergeInv'
        BY <3>1, <3>2 DEF MergeInv
      <3> QED BY <3>1, <3>3
    <2>3. CASE kernel' = <<>>
      BY <2>3 DEF MergeInv
    <2>4. \A p \in Actors : job[p].goal \in Configs /\ job[p].previous \in Configs
      BY DEF TypeOK, Job
    <2> QED BY <1>1, <2>1, <2>2, <2>3, <2>4, KernelSteps DEF KernelStep
  <1> QED BY <1>2, <1>3

(* Whatever the daemon's handlers and any number of commands do, with      *)
(* their undos, restorations, reboots and other programs, the table is     *)
(* replaced or removed as a whole, but that each process beyond the first  *)
(* can add one batch of its own.                                           *)
THEOREM PipelineIsAtomic == Spec => AtomicSpec
  <1>1. Init => MergeInv /\ Table!Init
    BY DEF Init, MergeInv, Table!Init
  <1>2. TypeOK /\ ListedInv /\ MergeInv /\ [Next]_vars
          => MergeInv' /\ [Table!Next]_kernel
    BY AtomicStep
  <1> QED BY <1>1, <1>2, TypeCorrect, ListedHolds, PTL
          DEF Spec, AtomicSpec, Table!Spec
==============================================================================
