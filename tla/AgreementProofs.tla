--------------------------- MODULE AgreementProofs ---------------------------
(***************************************************************************)
(* Outside an apply the kernel implements the active revision              *)
(* (ApplyPipeline!Agreement), for every value of the constants.            *)
(*                                                                         *)
(* The invariant says when an actor may rely on what it read: as long as   *)
(* it has not been overlapped, the previous configuration it holds is the  *)
(* active one, from the batch to the commit its goal is in the kernel, and *)
(* what it has listed is still so when it sends.                           *)
(***************************************************************************)
EXTENDS ApplyPipelineProofs, FiniteSetTheorems

(* The rules of the only batch in a dump are as many as it has.            *)
LEMMA OnlyBatch ==
    ASSUME NEW n \in Nat
    PROVE  Cardinality({1} \X (1 .. n)) = n
  <1>1. IsFiniteSet(1 .. n) /\ Cardinality(1 .. n) = n
    BY FS_Interval
  <1>2. IsFiniteSet({1}) /\ Cardinality({1}) = 1
    BY FS_Singleton
  <1>3. Cardinality({1} \X (1 .. n)) = Cardinality({1}) * Cardinality(1 .. n)
    BY <1>1, <1>2, FS_Product
  <1> QED BY <1>1, <1>2, <1>3

(* A table that holds one batch is not drifted from its configuration, and *)
(* an absent one not from the empty configuration.                         *)
LEMMA OwnTable ==
    /\ \A c \in Configs : ~Drifted(<<c>>, c)
    /\ ~Drifted(<<>>, Default)
  <1>1. ASSUME NEW c \in Configs, NEW k \in Keys
        PROVE  Observed(<<c>>, k) = RulesOf[c][k]
    <2>1. RulesOf[c][k] \in Nat
      BY ConfigAssumption
    <2>2. Dump(<<c>>, k) = {1} \X (1 .. RulesOf[c][k])
      <3>1. DOMAIN <<c>> = {1} /\ <<c>>[1] = c
        OBVIOUS
      <3> QED BY <3>1 DEF Dump
    <2> QED BY <2>1, <2>2, OnlyBatch DEF Observed
  <1>2. ASSUME NEW k \in Keys
        PROVE  Observed(<<>>, k) = 0
    <2>1. Dump(<<>>, k) = {}
      BY DEF Dump
    <2> QED BY <2>1, FS_EmptySet DEF Observed
  <1>3. ASSUME NEW k \in Keys
        PROVE  RulesOf[Default][k] = 0
    <2>1. RulesOf[Default][k] \in Nat /\ ~(RulesOf[Default][k] > 0)
      BY ConfigAssumption, DefaultAssumption DEF HasRules
    <2> QED BY <2>1
  <1> QED BY <1>1, <1>2, <1>3 DEF Drifted

(* What p may rely on between its listing and its batch.                   *)
ListingStands(p) ==
    /\ job[p].listed = "present" => kernel # <<>>
    /\ job[p].listed = "absent" => kernel = <<>>

(* What p may rely on at its present location.                             *)
Relies(p) ==
    /\ pc[p] \in {"openStatus", "openInstall", "reuse"} => job[p].goal = Active
    /\ pc[p] \in {"reuse", "install", "forward", "undo", "record"}
         => job[p].previous = Active
    /\ pc[p] \in Listing => ListingStands(p)
    /\ pc[p] \in {"forward", "record"} => kernel = <<job[p].goal>>
    /\ pc[p] = "undoLocked" /\ "kernel" \notin disturbed
         => job[p].previous = Active

(* Two actors at work at a time have both been marked as overlapped.       *)
OverlapsMarked ==
    \A p, q \in Actors :
        p # q /\ pc[p] \in Sensitive /\ pc[q] \in Sensitive => p \in overlapped

UndisturbedAlone ==
    "kernel" \notin disturbed =>
        \A p \in Actors : pc[p] \in Sensitive => p \notin overlapped

AloneRelies == \A p \in Actors : p \notin overlapped => Relies(p)

AgreesOutsideWindow ==
    "kernel" \notin disturbed /\ (\A p \in Actors : pc[p] \notin Window)
        => ~Drifted(kernel, Active)

AgreementInv == /\ OverlapsMarked
                /\ UndisturbedAlone
                /\ AloneRelies
                /\ AgreesOutsideWindow

------------------------------------------------------------------------------
(* The actors of killed stop relying on anything; nothing else changes     *)
(* that matters here.                                                      *)
LEMMA LeaveStep ==
    ASSUME AgreementInv, NEW killed \in SUBSET Actors,
           \A q \in Actors : q \notin killed => pc'[q] = pc[q] /\ job'[q] = job[q],
           \A q \in killed : pc'[q] \notin Sensitive,
           kernel' = kernel, Active' = Active, overlapped' = overlapped,
           "kernel" \in disturbed => "kernel" \in disturbed',
           (\E q \in killed : pc[q] \in Window) => "kernel" \in disturbed'
    PROVE  AgreementInv'
  <1>1. OverlapsMarked'
    BY DEF AgreementInv, OverlapsMarked
  <1>2. UndisturbedAlone'
    BY DEF AgreementInv, UndisturbedAlone
  <1>3. ASSUME NEW q \in Actors, q \notin overlapped' PROVE Relies(q)'
    <2>1. CASE q \in killed
      <3>1. pc'[q] \notin Sensitive
        BY <2>1
      <3> QED BY <3>1 DEF Relies, Sensitive, Listing
    <2>2. CASE q \notin killed
      <3>1. pc'[q] = pc[q] /\ job'[q] = job[q] /\ Relies(q)
        BY <1>3, <2>2 DEF AgreementInv, AloneRelies
      <3> QED BY <3>1 DEF Relies, ListingStands
    <2> QED BY <2>1, <2>2
  <1>4. AgreesOutsideWindow'
    <2>1. SUFFICES ASSUME "kernel" \notin disturbed',
                          \A p \in Actors : pc'[p] \notin Window
                   PROVE  ~Drifted(kernel, Active)'
      BY DEF AgreesOutsideWindow
    <2>2. \A p \in Actors : pc[p] \notin Window
      BY <2>1
    <2>3. ~Drifted(kernel, Active)
      BY <2>1, <2>2 DEF AgreementInv, AgreesOutsideWindow
    <2> QED BY <2>3 DEF Drifted
  <1> QED BY <1>1, <1>2, <1>3, <1>4 DEF AgreementInv, AloneRelies

(* p starts to rely on the database.                                       *)
LEMMA BeginStep ==
    ASSUME AgreementInv, NEW p \in Actors, Begin(p),
           \A q \in Actors : q # p => pc'[q] = pc[q] /\ job'[q] = job[q],
           pc[p] \notin Sensitive,
           pc'[p] \in Sensitive \ Window,
           kernel' = kernel, Active' = Active,
           Relies(p)'
    PROVE  AgreementInv'
  <1>0. Window \subseteq Sensitive
    BY DEF Window, Sensitive
  <1>1. CASE Others(p) = {}
    <2>1. \A q \in Actors : q # p => pc'[q] \notin Sensitive
      BY <1>1 DEF Others
    <2>2. overlapped' = overlapped \ {p} /\ disturbed' = disturbed
      BY <1>1 DEF Begin
    <2>3. OverlapsMarked' /\ UndisturbedAlone'
      BY <2>1, <2>2 DEF OverlapsMarked, UndisturbedAlone
    <2>4. \A q \in Actors : Relies(q)'
      <3>1. ASSUME NEW q \in Actors, q # p PROVE Relies(q)'
        BY <2>1, <3>1 DEF Relies, Sensitive, Listing
      <3> QED BY <3>1
    <2>5. AgreesOutsideWindow'
      <3>1. \A q \in Actors : pc[q] \notin Window
        BY <1>0, <2>1
      <3>2. "kernel" \notin disturbed => ~Drifted(kernel, Active)
        BY <3>1 DEF AgreementInv, AgreesOutsideWindow
      <3> QED BY <2>2, <3>2 DEF AgreesOutsideWindow, Drifted
    <2> QED BY <2>3, <2>4, <2>5 DEF AgreementInv, AloneRelies
  <1>2. CASE Others(p) # {}
    <2>1. /\ \A q \in Actors : pc'[q] \in Sensitive => q \in overlapped'
          /\ "kernel" \in disturbed'
      BY <1>2 DEF Begin, Others
    <2>2. OverlapsMarked' /\ UndisturbedAlone' /\ AgreesOutsideWindow'
      BY <2>1 DEF OverlapsMarked, UndisturbedAlone, AgreesOutsideWindow
    <2>3. ASSUME NEW q \in Actors, q \notin overlapped' PROVE Relies(q)'
      BY <2>1, <2>3 DEF Relies, Sensitive, Listing
    <2> QED BY <2>2, <2>3 DEF AgreementInv, AloneRelies
  <1> QED BY <1>1, <1>2

(* p, at work, takes a step: what it leaves behind matters only if no      *)
(* other actor has been at work since it began.                            *)
LEMMA WorkStep ==
    ASSUME AgreementInv, NEW p \in Actors, pc[p] \in Sensitive,
           \A q \in Actors : q # p => pc'[q] = pc[q] /\ job'[q] = job[q],
           overlapped' = overlapped,
           p \in overlapped => "kernel" \in disturbed',
           p \notin overlapped => Relies(p)',
           p \notin overlapped /\ "kernel" \notin disturbed' /\ pc'[p] \notin Window
               => ~Drifted(kernel, Active)'
    PROVE  AgreementInv'
  <1>1. \A q \in Actors : q # p /\ pc[q] \in Sensitive
                            => p \in overlapped /\ q \in overlapped
    BY DEF AgreementInv, OverlapsMarked
  <1>2. OverlapsMarked'
    BY <1>1 DEF AgreementInv, OverlapsMarked
  <1>3. UndisturbedAlone'
    BY <1>1 DEF UndisturbedAlone
  <1>4. ASSUME NEW q \in Actors, q \notin overlapped' PROVE Relies(q)'
    <2>1. CASE q = p
      BY <1>4, <2>1
    <2>2. CASE q # p
      <3>1. pc'[q] \notin Sensitive
        BY <1>1, <1>4, <2>2
      <3> QED BY <3>1 DEF Relies, Sensitive, Listing
    <2> QED BY <2>1, <2>2
  <1>5. AgreesOutsideWindow'
    BY DEF AgreesOutsideWindow
  <1> QED BY <1>2, <1>3, <1>4, <1>5 DEF AgreementInv, AloneRelies
------------------------------------------------------------------------------
(* What the building blocks of the actions do to the locals.               *)
LEMMA Moved ==
    ASSUME LocalsOK, NEW p \in Actors, NEW l, Goto(p, l)
    PROVE  pc'[p] = l /\ \A q \in Actors : q # p => pc'[q] = pc[q]
  BY DEF LocalsOK, Goto

(* The actor that returns is no longer at work.                            *)
LEMMA Returned ==
    ASSUME LocalsOK, NEW p \in Actors, Return(p) \/ Opened(p)
    PROVE  /\ pc'[p] \notin Sensitive
           /\ \A q \in Actors : q # p => pc'[q] = pc[q] /\ job'[q] = job[q]
  BY DEF LocalsOK, Return, Opened, Goto, Sensitive

(* Letting go of the mutex keeps the other locals.                         *)
LEMMA Unlisted ==
    ASSUME LocalsOK, NEW p \in Actors, Unlist(p)
    PROVE  /\ job'[p].goal = job[p].goal /\ job'[p].previous = job[p].previous
           /\ job'[p].listed = "no"
           /\ \A q \in Actors : q # p => job'[q] = job[q]
  <1>1. job[p] \in Job
    BY DEF LocalsOK
  <1> QED BY <1>1 DEF LocalsOK, Unlist, Job

(* The batch of an actor whose listing stands replaces the table.          *)
LEMMA Committed ==
    ASSUME LocalsOK, NEW p \in Actors, NEW c \in Configs, Commit(p, c),
           ListingStands(p)
    PROVE  kernel' = <<c>>
  <1>1. Append(<<>>, c) = <<c>>
    OBVIOUS
  <1> QED BY <1>1 DEF Commit, ListingStands

(* Nor is the one that fails.                                              *)
LEMMA Failed ==
    ASSUME LocalsOK, NEW p \in Actors, Fail(p)
    PROVE  /\ pc'[p] \notin Sensitive
           /\ \A q \in Actors : q # p => pc'[q] = pc[q] /\ job'[q] = job[q]
  <1>1. CASE Return(p)
    BY <1>1, Returned
  <1>2. CASE Goto(p, "noteError") /\ Unlist(p)
    BY <1>2, Moved DEF Sensitive, Unlist, LocalsOK
  <1> QED BY <1>1, <1>2 DEF Fail

(* Nor are those that are stopped.                                         *)
LEMMA Stopped ==
    ASSUME LocalsOK, NEW killed \in SUBSET Actors, Stop(killed)
    PROVE  /\ \A q \in killed : pc'[q] \notin Sensitive
           /\ \A q \in Actors : q \notin killed => pc'[q] = pc[q] /\ job'[q] = job[q]
  BY DEF Stop, Sensitive

(* No action of an actor that is not at work matters: a request that       *)
(* starts, waits, validates, saves a draft or notes an error.              *)
LEMMA QuietStep ==
    ASSUME AgreementInv, NEW p \in Actors,
           \A q \in Actors : q # p => pc'[q] = pc[q] /\ job'[q] = job[q],
           pc[p] \notin Sensitive, pc'[p] \notin Sensitive,
           kernel' = kernel, Active' = Active, overlapped' = overlapped,
           "kernel" \in disturbed => "kernel" \in disturbed'
    PROVE  AgreementInv'
  <1>1. pc[p] \notin Window
    BY DEF Window, Sensitive
  <1> DEFINE killed == {p}
  <1>2. /\ killed \in SUBSET Actors
        /\ \A q \in Actors : q \notin killed => pc'[q] = pc[q] /\ job'[q] = job[q]
        /\ \A q \in killed : pc'[q] \notin Sensitive
        /\ ~(\E q \in killed : pc[q] \in Window)
    BY <1>1
  <1> HIDE DEF killed
  <1> QED BY <1>2, LeaveStep

(* Active is a function of the table.                                      *)
LEMMA SameActive ==
    /\ revs' = revs => Active' = Active
    /\ UNCHANGED vars => Active' = Active
  BY DEF Active, vars

(* An actor at work that nobody overlapped is the only one at work.        *)
LEMMA Alone == AgreementInv => \A p \in Actors :
    pc[p] \in Sensitive /\ p \in overlapped => "kernel" \in disturbed
  BY DEF AgreementInv, UndisturbedAlone

(* A step that changes nothing the invariant reads.                        *)
LEMMA SameAgreement ==
    ASSUME AgreementInv, UNCHANGED <<revs, kernel, pc, job, overlapped, disturbed>>
    PROVE  AgreementInv'
  <1>1. Active' = Active
    BY SameActive
  <1>2. \A q \in Actors : Relies(q)' <=> Relies(q)
    BY <1>1 DEF Relies, ListingStands
  <1> QED BY <1>1, <1>2 DEF AgreementInv, OverlapsMarked, UndisturbedAlone,
                           AloneRelies, AgreesOutsideWindow, Drifted

(* Every step keeps the invariant.                                         *)
LEMMA AgreementStep == TypeOK /\ ListedInv /\ AgreementInv /\ [Next]_vars => AgreementInv'
  <1> SUFFICES ASSUME TypeOK, ListedInv, AgreementInv, [Next]_vars PROVE AgreementInv'
    OBVIOUS
  <1> USE DEF host, ghosts
  <1>0. /\ LocalsOK /\ revs \in Seq(Revision)
        /\ \A q \in Actors : pc[q] \notin Listing => job[q].listed = "no"
    BY DEF TypeOK, LocalsOK, ListedInv
  <1>1. CASE StartDaemon
    <2>1. Daemon \in Actors
      BY DEF Actors
    <2>2. /\ pc[Daemon] \notin Sensitive /\ pc'[Daemon] \notin Sensitive
          /\ \A q \in Actors : q # Daemon => pc'[q] = pc[q] /\ job'[q] = job[q]
      BY <1>0, <1>1, <2>1, Moved DEF StartDaemon, Sensitive
    <2> QED BY <1>1, <2>1, <2>2, QuietStep, SameActive DEF StartDaemon
  <1>2. ASSUME NEW p \in Actors, NEW c \in Configs, SaveRequest(p, c) PROVE AgreementInv'
    <2>1. \A q \in Actors : q # p => pc'[q] = pc[q] /\ job'[q] = job[q]
      BY <1>0, <1>2, Moved DEF SaveRequest, LocalsOK
    <2>2. pc[p] \notin Sensitive /\ pc'[p] \notin Sensitive
      BY <1>0, <1>2, Moved DEF SaveRequest, Sensitive, CanCall
    <2> QED BY <1>2, <2>1, <2>2, QuietStep, SameActive DEF SaveRequest
  <1>3. ASSUME NEW p \in Actors, ApplyRequest(p) PROVE AgreementInv'
    <2>1. \A q \in Actors : q # p => pc'[q] = pc[q] /\ job'[q] = job[q]
      BY <1>0, <1>3, Moved DEF ApplyRequest, LocalsOK
    <2>2. pc[p] \notin Sensitive /\ pc'[p] \notin Sensitive
      BY <1>0, <1>3, Moved DEF ApplyRequest, Sensitive, CanCall
    <2> QED BY <1>3, <2>1, <2>2, QuietStep, SameActive DEF ApplyRequest
  <1>4. ASSUME NEW p \in Actors, NEW i \in DOMAIN revs, RollbackRequest(p, i) PROVE AgreementInv'
    <2>1. \A q \in Actors : q # p => pc'[q] = pc[q] /\ job'[q] = job[q]
      BY <1>0, <1>4, Moved DEF RollbackRequest, LocalsOK
    <2>2. pc[p] \notin Sensitive /\ pc'[p] \notin Sensitive
      BY <1>0, <1>4, Moved DEF RollbackRequest, Sensitive, CanCall
    <2> QED BY <1>4, <2>1, <2>2, QuietStep, SameActive DEF RollbackRequest
  <1>5. ASSUME NEW p \in Actors, StartCommand(p) PROVE AgreementInv'
    BY <1>0, <1>5, QuietStep, SameActive, Moved DEF StartCommand, Sensitive
  <1>6. ASSUME NEW p \in Actors, Quit(p) PROVE AgreementInv'
    BY <1>0, <1>6, QuietStep, SameActive, Returned DEF Quit, Sensitive
  <1>7. ASSUME NEW p \in Actors, OpenRead(p) PROVE AgreementInv'
    <2>0. pc[p] \notin Sensitive /\ kernel' = kernel /\ Active' = Active
      BY <1>7, SameActive DEF OpenRead, Sensitive
    <2>1. CASE /\ Begin(p) /\ Goto(p, "openStatus")
               /\ job' = [job EXCEPT ![p] = [NoJob EXCEPT !.op = "open", !.goal = Active]]
      <3>1. /\ pc'[p] = "openStatus" /\ job'[p].goal = Active
            /\ \A q \in Actors : q # p => pc'[q] = pc[q] /\ job'[q] = job[q]
        BY <1>0, <2>1, Moved DEF LocalsOK, NoJob
      <3>2. Relies(p)'
        BY <2>0, <3>1 DEF Relies, Listing
      <3> QED BY <2>0, <2>1, <3>1, <3>2, BeginStep DEF Sensitive, Window
    <2>2. CASE Opened(p) /\ UNCHANGED <<overlapped, disturbed>>
      BY <1>0, <2>0, <2>2, Returned, QuietStep
    <2>3. CASE /\ Goto(p, IF p = Daemon THEN "down" ELSE "idle")
               /\ UNCHANGED <<job, overlapped, disturbed>>
      BY <1>0, <2>0, <2>3, Moved, QuietStep DEF Sensitive
    <2> QED BY <1>7, <2>1, <2>2, <2>3 DEF OpenRead
  <1>8. ASSUME NEW p \in Actors, OpenStatus(p) PROVE AgreementInv'
    <2>0. /\ pc[p] \in Sensitive
          /\ p \in overlapped => "kernel" \in disturbed
          /\ p \notin overlapped => Relies(p)
      BY <1>8, Alone DEF OpenStatus, Sensitive, AgreementInv, AloneRelies
    <2>9. p \notin overlapped /\ "kernel" \notin disturbed => ~Drifted(kernel, Active)
      <3> SUFFICES ASSUME p \notin overlapped, "kernel" \notin disturbed
                   PROVE  ~Drifted(kernel, Active)
        OBVIOUS
      <3>1. \A q \in Actors : pc[q] \notin Window
        BY <1>8, <2>0 DEF OpenStatus, Window, Sensitive, AgreementInv, OverlapsMarked
      <3> QED BY <3>1 DEF AgreementInv, AgreesOutsideWindow
    <2>1. kernel' = kernel /\ Active' = Active /\ overlapped' = overlapped
      BY <1>8, SameActive DEF OpenStatus
    <2>2. CASE Goto(p, "openInstall") /\ UNCHANGED <<job, disturbed>>
      <3>0. job[p].listed = "no"
        BY <1>0, <1>8 DEF OpenStatus, Listing
      <3>1. Relies(p)' <=> (job[p].goal = Active)
        BY <1>0, <2>1, <2>2, <3>0, Moved DEF Relies, ListingStands
      <3>2. Relies(p) => job[p].goal = Active
        BY <1>8 DEF OpenStatus, Relies
      <3> QED BY <1>0, <2>0, <2>1, <2>2, <2>9, <3>1, <3>2, Moved, WorkStep DEF Drifted
    <2>3. CASE /\ Matches(job[p].goal)
               /\ Opened(p) /\ Agreed(p, {"kernel"})
      <3>1. Relies(p)'
        BY <1>0, <2>3, Returned DEF Relies, Sensitive, Listing
      <3>2. p \in overlapped => "kernel" \in disturbed'
        BY <2>0, <2>3 DEF Agreed
      <3>3. p \notin overlapped => ~Drifted(kernel, Active)'
        BY <1>8, <2>0, <2>1, <2>3 DEF OpenStatus, Relies, Drifted, Matches
      <3> QED BY <1>0, <2>0, <2>1, <2>3, <3>1, <3>2, <3>3, Returned, WorkStep
    <2> QED BY <1>8, <2>2, <2>3 DEF OpenStatus
  <1>9. ASSUME NEW p \in Actors, OpenInstall(p) PROVE AgreementInv'
    <2>0. /\ pc[p] \in Sensitive
          /\ p \in overlapped => "kernel" \in disturbed
          /\ p \notin overlapped => Relies(p)
      BY <1>9, Alone DEF OpenInstall, Sensitive, AgreementInv, AloneRelies
    <2>9. p \notin overlapped /\ "kernel" \notin disturbed => ~Drifted(kernel, Active)
      <3> SUFFICES ASSUME p \notin overlapped, "kernel" \notin disturbed
                   PROVE  ~Drifted(kernel, Active)
        OBVIOUS
      <3>1. \A q \in Actors : pc[q] \notin Window
        BY <1>9, <2>0 DEF OpenInstall, Window, Sensitive, AgreementInv, OverlapsMarked
      <3> QED BY <3>1 DEF AgreementInv, AgreesOutsideWindow
    <2>1. Active' = Active /\ overlapped' = overlapped
      BY <1>9, SameActive DEF OpenInstall
    <2>2. /\ pc'[p] \notin Sensitive
          /\ \A q \in Actors : q # p => pc'[q] = pc[q] /\ job'[q] = job[q]
      BY <1>0, <1>9, Moved, Returned, Unlisted DEF OpenInstall, Sensitive
    <2>3. Relies(p)'
      BY <2>2 DEF Relies, Sensitive, Listing
    <2>4. CASE Commit(p, job[p].goal) /\ Agreed(p, {"kernel"})
      <3>1. p \in overlapped => "kernel" \in disturbed'
        BY <2>0, <2>4 DEF Agreed
      <3>2. p \notin overlapped => ~Drifted(kernel, Active)'
        <4>1. p \notin overlapped => job[p].goal = Active /\ ListingStands(p)
          BY <1>9, <2>0 DEF OpenInstall, Relies, Listing
        <4>2. p \notin overlapped => kernel' = <<job[p].goal>>
          BY <1>0, <2>4, <4>1, JobFields, Committed
        <4>3. job[p].goal \in Configs
          BY <1>0, JobFields
        <4>4. ~Drifted(<<job[p].goal>>, job[p].goal)
          BY <4>3, OwnTable
        <4> QED BY <2>1, <4>1, <4>2, <4>4 DEF Drifted
      <3> QED BY <2>0, <2>1, <2>2, <2>3, <3>1, <3>2, WorkStep
    <2>5. CASE Disturb({"kernel"})
      BY <2>0, <2>1, <2>2, <2>3, <2>5, WorkStep DEF Disturb
    <2> QED BY <1>9, <2>4, <2>5 DEF OpenInstall
  <1>10. ASSUME NEW p \in Actors, OpenForward(p) PROVE AgreementInv'
    <2>1. "kernel" \in disturbed => "kernel" \in disturbed'
      BY <1>10 DEF OpenForward, Agreed, Disturb
    <2> QED BY <1>0, <1>10, <2>1, QuietStep, Returned, SameActive DEF OpenForward, Sensitive
  <1>11. ASSUME NEW p \in Actors, SaveDraft(p) PROVE AgreementInv'
    <2>1. Active' = Active
      BY <1>0, <1>11, JobFields, InsertActive, SameActive DEF SaveDraft, Active
    <2> QED BY <1>0, <1>11, <2>1, QuietStep, Returned DEF SaveDraft, Sensitive
  <1>12. ASSUME NEW p \in Actors, Validate(p) PROVE AgreementInv'
    <2>1. /\ \A q \in Actors : q # p => pc'[q] = pc[q] /\ job'[q] = job[q]
          /\ pc[p] \notin Sensitive /\ pc'[p] \notin Sensitive
      BY <1>0, <1>12, Moved, Returned DEF Validate, Sensitive
    <2> QED BY <1>12, <2>1, QuietStep, SameActive DEF Validate
  <1>13. ASSUME NEW p \in Actors, ReadPrevious(p) PROVE AgreementInv'
    <2>0. pc[p] \notin Sensitive /\ kernel' = kernel /\ Active' = Active
      BY <1>13, SameActive DEF ReadPrevious, Sensitive
    <2>1. CASE /\ job' = [job EXCEPT ![p].previous = Active]
               /\ Goto(p, IF job[p].op = "apply" /\ Active = job[p].goal
                          THEN "reuse" ELSE "install")
               /\ Begin(p)
      <3>1. /\ pc'[p] \in {"reuse", "install"}
            /\ pc'[p] = "reuse" => Active = job[p].goal
            /\ \A q \in Actors : q # p => pc'[q] = pc[q] /\ job'[q] = job[q]
        BY <1>0, <2>1, Moved DEF LocalsOK
      <3>2. /\ job'[p].goal = job[p].goal /\ job'[p].previous = Active
            /\ job'[p].listed = job[p].listed
        BY <1>0, <2>1, JobFields DEF LocalsOK, Job
      <3>4. job[p].listed = "no"
        BY <1>0, <1>13 DEF ReadPrevious, Listing
      <3>3. Relies(p)'
        BY <2>0, <3>1, <3>2, <3>4 DEF Relies, ListingStands
      <3> QED BY <2>0, <2>1, <3>1, <3>3, BeginStep DEF Sensitive, Window
    <2>2. CASE Return(p) /\ UNCHANGED <<overlapped, disturbed>>
      BY <1>0, <2>0, <2>2, Returned, QuietStep
    <2> QED BY <1>13, <2>1, <2>2 DEF ReadPrevious
  <1>14. ASSUME NEW p \in Actors, Reuse(p) PROVE AgreementInv'
    <2>0. /\ pc[p] \in Sensitive
          /\ p \in overlapped => "kernel" \in disturbed
          /\ p \notin overlapped => Relies(p)
      BY <1>14, Alone DEF Reuse, Sensitive, AgreementInv, AloneRelies
    <2>9. p \notin overlapped /\ "kernel" \notin disturbed => ~Drifted(kernel, Active)
      <3> SUFFICES ASSUME p \notin overlapped, "kernel" \notin disturbed
                   PROVE  ~Drifted(kernel, Active)
        OBVIOUS
      <3>1. \A q \in Actors : pc[q] \notin Window
        BY <1>14, <2>0 DEF Reuse, Window, Sensitive, AgreementInv, OverlapsMarked
      <3> QED BY <3>1 DEF AgreementInv, AgreesOutsideWindow
    <2>1. kernel' = kernel /\ Active' = Active /\ overlapped' = overlapped
      BY <1>14, SameActive DEF Reuse
    <2>2. CASE /\ Matches(job[p].goal)
               /\ Return(p) /\ Agreed(p, {"kernel"})
      <3>1. Relies(p)'
        BY <1>0, <2>2, Returned DEF Relies, Sensitive, Listing
      <3>2. p \in overlapped => "kernel" \in disturbed'
        BY <2>0, <2>2 DEF Agreed
      <3>3. p \notin overlapped => ~Drifted(kernel, Active)'
        BY <1>14, <2>0, <2>1, <2>2 DEF Reuse, Relies, Drifted, Matches
      <3> QED BY <1>0, <2>0, <2>1, <2>2, <3>1, <3>2, <3>3, Returned, WorkStep
    <2>3. CASE Goto(p, "install") /\ UNCHANGED <<job, disturbed>>
      <3>0. job[p].listed = "no"
        BY <1>0, <1>14 DEF Reuse, Listing
      <3>1. Relies(p)' <=> (job[p].previous = Active)
        BY <1>0, <2>1, <2>3, <3>0, Moved DEF Relies, ListingStands
      <3>2. Relies(p) => job[p].previous = Active
        BY <1>14 DEF Reuse, Relies
      <3> QED BY <1>0, <2>0, <2>1, <2>3, <2>9, <3>1, <3>2, Moved, WorkStep DEF Drifted
    <2> QED BY <1>14, <2>2, <2>3 DEF Reuse
  <1>15. ASSUME NEW p \in Actors, SnapshotFails(p) PROVE AgreementInv'
    <2>0. /\ pc[p] \in Sensitive
          /\ p \in overlapped => "kernel" \in disturbed
          /\ p \notin overlapped => Relies(p)
      BY <1>15, Alone DEF SnapshotFails, Sensitive, AgreementInv, AloneRelies
    <2>9. p \notin overlapped /\ "kernel" \notin disturbed => ~Drifted(kernel, Active)
      <3> SUFFICES ASSUME p \notin overlapped, "kernel" \notin disturbed
                   PROVE  ~Drifted(kernel, Active)
        OBVIOUS
      <3>1. \A q \in Actors : pc[q] \notin Window
        BY <1>15, <2>0 DEF SnapshotFails, Window, Sensitive, AgreementInv, OverlapsMarked
      <3> QED BY <3>1 DEF AgreementInv, AgreesOutsideWindow
    <2>1. /\ kernel' = kernel /\ Active' = Active /\ overlapped' = overlapped
          /\ disturbed' = disturbed
      BY <1>15, SameActive DEF SnapshotFails
    <2>2. /\ pc'[p] \notin Sensitive
          /\ \A q \in Actors : q # p => pc'[q] = pc[q] /\ job'[q] = job[q]
      BY <1>0, <1>15, Returned DEF SnapshotFails
    <2>3. Relies(p)'
      BY <2>2 DEF Relies, Sensitive, Listing
    <2> QED BY <2>0, <2>1, <2>2, <2>3, <2>9, WorkStep DEF Drifted
  <1>16. ASSUME NEW p \in Actors, Install(p) PROVE AgreementInv'
    <2>0. /\ pc[p] \in Sensitive
          /\ p \in overlapped => "kernel" \in disturbed
          /\ p \notin overlapped => Relies(p)
      BY <1>16, Alone DEF Install, Sensitive, AgreementInv, AloneRelies
    <2>9. p \notin overlapped /\ "kernel" \notin disturbed => ~Drifted(kernel, Active)
      <3> SUFFICES ASSUME p \notin overlapped, "kernel" \notin disturbed
                   PROVE  ~Drifted(kernel, Active)
        OBVIOUS
      <3>1. \A q \in Actors : pc[q] \notin Window
        BY <1>16, <2>0 DEF Install, Window, Sensitive, AgreementInv, OverlapsMarked
      <3> QED BY <3>1 DEF AgreementInv, AgreesOutsideWindow
    <2>1. /\ Active' = Active /\ overlapped' = overlapped
          /\ p \notin overlapped => job[p].previous = Active /\ ListingStands(p)
      BY <1>16, <2>0, SameActive DEF Install, Relies, Listing
    <2>2. CASE /\ Commit(p, job[p].goal) /\ Goto(p, "forward") /\ Unlist(p)
               /\ UNCHANGED disturbed
      <3>1. p \notin overlapped => kernel' = <<job[p].goal>>
        BY <1>0, <2>1, <2>2, JobFields, Committed
      <3>2. /\ pc'[p] = "forward" /\ \A q \in Actors : q # p => pc'[q] = pc[q]
            /\ \A q \in Actors : q # p => job'[q] = job[q]
            /\ job'[p].goal = job[p].goal /\ job'[p].previous = job[p].previous
        BY <1>0, <2>2, Moved, Unlisted
      <3>3. p \notin overlapped => Relies(p)'
        BY <2>1, <3>1, <3>2 DEF Relies, Listing
      <3> QED BY <1>0, <2>0, <2>1, <2>2, <3>2, <3>3, WorkStep DEF Window
    <2>3. CASE Fail(p)
      <3>1. Relies(p)'
        BY <1>0, <2>3, Failed DEF Relies, Sensitive, Listing
      <3>2. CASE Reject(p) /\ UNCHANGED disturbed
        BY <1>0, <2>0, <2>1, <2>3, <2>9, <3>1, <3>2, Failed, WorkStep DEF Reject, Drifted
      <3>3. CASE Disturb({"kernel"})
        BY <1>0, <2>0, <2>1, <2>3, <3>1, <3>3, Failed, WorkStep DEF Disturb
      <3> QED BY <1>16, <3>2, <3>3, <2>2 DEF Install
    <2> QED BY <1>16, <2>2, <2>3 DEF Install
  <1>17. ASSUME NEW p \in Actors, Forward(p) PROVE AgreementInv'
    <2>0. /\ pc[p] \in Sensitive
          /\ p \in overlapped => "kernel" \in disturbed
          /\ p \notin overlapped => Relies(p)
      BY <1>17, Alone DEF Forward, Sensitive, AgreementInv, AloneRelies
    <2>1. /\ kernel' = kernel /\ Active' = Active /\ overlapped' = overlapped
          /\ disturbed' = disturbed /\ job' = job
          /\ p \notin overlapped => job[p].previous = Active /\ kernel = <<job[p].goal>>
          /\ job[p].listed = "no"
      BY <1>0, <1>17, <2>0, SameActive DEF Forward, Relies, Listing
    <2>2. /\ pc'[p] \in {"record", "undo"}
          /\ \A q \in Actors : q # p => pc'[q] = pc[q]
      BY <1>0, <1>17, Moved DEF Forward
    <2>3. p \notin overlapped => Relies(p)'
      BY <2>1, <2>2 DEF Relies, ListingStands
    <2> QED BY <2>0, <2>1, <2>2, <2>3, WorkStep DEF Window
  <1>18. ASSUME NEW p \in Actors, Undo(p) PROVE AgreementInv'
    <2>0. /\ pc[p] \in Sensitive
          /\ p \in overlapped => "kernel" \in disturbed
          /\ p \notin overlapped => Relies(p)
      BY <1>18, Alone DEF Undo, Sensitive, AgreementInv, AloneRelies
    <2>1. /\ Active' = Active /\ overlapped' = overlapped
          /\ "kernel" \in disturbed => "kernel" \in disturbed'
      BY <1>18, SameActive DEF Undo, PutBack, Disturb
    <2>2. /\ pc'[p] \notin Sensitive
          /\ \A q \in Actors : q # p => pc'[q] = pc[q] /\ job'[q] = job[q]
      BY <1>0, <1>18, Returned, Failed DEF Undo
    <2>3. Relies(p)'
      BY <2>2 DEF Relies, Sensitive, Listing
    <2>4. p \notin overlapped /\ "kernel" \notin disturbed' => ~Drifted(kernel, Active)'
      <3> SUFFICES ASSUME p \notin overlapped, "kernel" \notin disturbed'
                   PROVE  ~Drifted(kernel, Active)'
        OBVIOUS
      <3>1. job[p].previous = Active /\ ListingStands(p)
        BY <1>18, <2>0, <2>1 DEF Undo, Relies, Listing
      <3>2. job[p].previous \in Configs
        BY <1>0, JobFields
      <3>3. Commit(p, job[p].previous)
        BY <1>18 DEF Undo, PutBack, Disturb
      <3>4. kernel' = <<job[p].previous>>
        BY <1>0, <3>1, <3>2, <3>3, Committed
      <3>5. ~Drifted(<<job[p].previous>>, job[p].previous)
        BY <3>2, OwnTable
      <3> QED BY <2>1, <3>1, <3>4, <3>5 DEF Drifted
    <2> QED BY <2>0, <2>1, <2>2, <2>3, <2>4, WorkStep
  <1>19. ASSUME NEW p \in Actors, Record(p) PROVE AgreementInv'
    <2>0. /\ pc[p] \in Sensitive
          /\ p \in overlapped => "kernel" \in disturbed
          /\ p \notin overlapped => Relies(p)
      BY <1>19, Alone DEF Record, Sensitive, AgreementInv, AloneRelies
    <2>1. /\ kernel' = kernel /\ overlapped' = overlapped
          /\ p \notin overlapped => job[p].previous = Active /\ kernel = <<job[p].goal>>
          /\ job[p].listed = "no"
      BY <1>0, <1>19, <2>0 DEF Record, Relies, Listing
    <2>2. CASE /\ revs' = Insert(revs, "active", job[p].goal)
               /\ Return(p) /\ Agreed(p, {"kernel", "forwarding"})
      <3>1. Relies(p)'
        BY <1>0, <2>2, Returned DEF Relies, Sensitive, Listing
      <3>2. p \in overlapped => "kernel" \in disturbed'
        BY <2>0, <2>2 DEF Agreed
      <3>3. Active' = job[p].goal /\ job[p].goal \in Configs
        BY <1>0, <2>2, JobFields, InsertActive DEF Active
      <3>5. ~Drifted(<<job[p].goal>>, job[p].goal)
        BY <3>3, OwnTable
      <3>4. p \notin overlapped => ~Drifted(kernel, Active)'
        BY <2>1, <3>3, <3>5 DEF Drifted
      <3> QED BY <1>0, <2>0, <2>1, <2>2, <3>1, <3>2, <3>4, Returned, WorkStep
    <2>3. CASE Goto(p, "undoLocked") /\ UNCHANGED <<revs, job, disturbed>>
      <3>1. Relies(p)' <=> ("kernel" \notin disturbed' => job[p].previous = Active)
        BY <1>0, <2>1, <2>3, Moved, SameActive DEF Relies, ListingStands
      <3> QED BY <1>0, <2>0, <2>1, <2>3, <3>1, Moved, WorkStep DEF Window
    <2>4. CASE Goto(p, "undoLocked") /\ Disturb({"kernel"}) /\ UNCHANGED job
      <3>1. Relies(p)'
        BY <1>0, <2>1, <2>4, Moved DEF Relies, ListingStands, Disturb
      <3> QED BY <1>0, <2>0, <2>1, <2>4, <3>1, Moved, WorkStep DEF Window, Disturb
    <2> QED BY <1>19, <2>2, <2>3, <2>4 DEF Record
  <1>20. ASSUME NEW p \in Actors, UndoLocked(p) PROVE AgreementInv'
    <2>0. /\ pc[p] \in Sensitive
          /\ p \in overlapped => "kernel" \in disturbed
          /\ p \notin overlapped => Relies(p)
      BY <1>20, Alone DEF UndoLocked, Sensitive, AgreementInv, AloneRelies
    <2>1. /\ Active' = Active /\ overlapped' = overlapped
          /\ "kernel" \in disturbed => "kernel" \in disturbed'
      BY <1>20, SameActive DEF UndoLocked, PutBack, Disturb
    <2>2. /\ pc'[p] \notin Sensitive
          /\ \A q \in Actors : q # p => pc'[q] = pc[q] /\ job'[q] = job[q]
      BY <1>0, <1>20, Returned, Failed DEF UndoLocked
    <2>3. Relies(p)'
      BY <2>2 DEF Relies, Sensitive, Listing
    <2>4. p \notin overlapped /\ "kernel" \notin disturbed' => ~Drifted(kernel, Active)'
      <3> SUFFICES ASSUME p \notin overlapped, "kernel" \notin disturbed'
                   PROVE  ~Drifted(kernel, Active)'
        OBVIOUS
      <3>1. job[p].previous = Active /\ ListingStands(p)
        BY <1>20, <2>0, <2>1 DEF UndoLocked, Relies, Listing
      <3>2. job[p].previous \in Configs
        BY <1>0, JobFields
      <3>3. Commit(p, job[p].previous)
        BY <1>20 DEF UndoLocked, PutBack, Disturb
      <3>4. kernel' = <<job[p].previous>>
        BY <1>0, <3>1, <3>2, <3>3, Committed
      <3>5. ~Drifted(<<job[p].previous>>, job[p].previous)
        BY <3>2, OwnTable
      <3> QED BY <2>1, <3>1, <3>4, <3>5 DEF Drifted
    <2> QED BY <2>0, <2>1, <2>2, <2>3, <2>4, WorkStep
  <1>21. ASSUME NEW p \in Actors, NoteError(p) PROVE AgreementInv'
    <2>1. Active' = Active
      BY <1>0, <1>21, JobFields, FlagRows, SameActive DEF NoteError, Active
    <2> QED BY <1>0, <1>21, <2>1, QuietStep, Returned DEF NoteError, Sensitive
  <1>22. ASSUME NEW p \in Actors, Disconnect(p) PROVE AgreementInv'
    <2> DEFINE killed == {p}
    <2>1. killed \in SUBSET Actors /\ Stop(killed)
      BY <1>22 DEF Disconnect, Actors
    <2>2. /\ "kernel" \in disturbed => "kernel" \in disturbed'
          /\ (\E q \in killed : pc[q] \in Window) => "kernel" \in disturbed'
      BY <1>22 DEF Disconnect, Disturb, LostAspects
    <2>3. kernel' = kernel /\ Active' = Active /\ overlapped' = overlapped
      BY <1>22, SameActive DEF Disconnect
    <2> HIDE DEF killed
    <2> QED BY <1>0, <2>1, <2>2, <2>3, Stopped, LeaveStep
  <1>23. ASSUME NEW p \in Actors, KillCommand(p) PROVE AgreementInv'
    <2> DEFINE killed == {p}
    <2>1. killed \in SUBSET Actors /\ Stop(killed)
      BY <1>23 DEF KillCommand, Actors
    <2>2. /\ "kernel" \in disturbed => "kernel" \in disturbed'
          /\ (\E q \in killed : pc[q] \in Window) => "kernel" \in disturbed'
      BY <1>23 DEF KillCommand, Disturb, LostAspects
    <2>3. kernel' = kernel /\ Active' = Active /\ overlapped' = overlapped
      BY <1>23, SameActive DEF KillCommand
    <2> HIDE DEF killed
    <2> QED BY <1>0, <2>1, <2>2, <2>3, Stopped, LeaveStep
  <1>24. CASE Crash
    <2> DEFINE killed == Requests \cup {Daemon}
    <2>1. killed \in SUBSET Actors /\ Stop(killed)
      BY <1>24 DEF Crash, Actors
    <2>2. /\ "kernel" \in disturbed => "kernel" \in disturbed'
          /\ (\E q \in killed : pc[q] \in Window) => "kernel" \in disturbed'
      BY <1>24 DEF Crash, Disturb, LostAspects
    <2>3. kernel' = kernel /\ Active' = Active /\ overlapped' = overlapped
      BY <1>24, SameActive DEF Crash
    <2> HIDE DEF killed
    <2> QED BY <1>0, <2>1, <2>2, <2>3, Stopped, LeaveStep
  <1>25. CASE Reboot
    <2>1. /\ \A q \in Actors : pc'[q] \notin Sensitive
          /\ "kernel" \in disturbed'
      BY <1>0, <1>25, Stopped DEF Reboot, Disturb
    <2>2. \A q \in Actors : Relies(q)'
      BY <2>1 DEF Relies, Sensitive, Listing
    <2> QED BY <2>1, <2>2 DEF AgreementInv, OverlapsMarked, UndisturbedAlone,
                             AloneRelies, AgreesOutsideWindow
  <1>26. ASSUME NEW s \in SshStates, SshdChange(s) PROVE AgreementInv'
    BY <1>26, SameAgreement DEF SshdChange
  <1>27. CASE TableRemoved
    <2>1. /\ \A q \in Actors : pc'[q] \in Sensitive => q \in overlapped'
          /\ "kernel" \in disturbed'
      BY <1>27 DEF TableRemoved, Disturb
    <2>2. ASSUME NEW q \in Actors, q \notin overlapped' PROVE Relies(q)'
      BY <2>1, <2>2 DEF Relies, Sensitive, Listing
    <2> QED BY <2>1, <2>2 DEF AgreementInv, OverlapsMarked, UndisturbedAlone,
                             AloneRelies, AgreesOutsideWindow
  <1>28. CASE UNCHANGED vars
    BY <1>28, SameAgreement DEF vars
  <1>29. ASSUME NEW p \in Actors, List(p) PROVE AgreementInv'
    <2>0. /\ pc[p] \in Sensitive
          /\ p \in overlapped => "kernel" \in disturbed
          /\ p \notin overlapped => Relies(p)
      BY <1>29, Alone DEF List, Listing, Sensitive, AgreementInv, AloneRelies
    <2>1. /\ kernel' = kernel /\ Active' = Active /\ overlapped' = overlapped
          /\ disturbed' = disturbed /\ pc' = pc
      BY <1>29, SameActive DEF List
    <2>2. /\ job'[p].goal = job[p].goal /\ job'[p].previous = job[p].previous
          /\ job'[p].listed = IF kernel = <<>> THEN "absent" ELSE "present"
          /\ \A q \in Actors : q # p => job'[q] = job[q]
      <3>1. job[p] \in Job
        BY <1>0 DEF LocalsOK
      <3> QED BY <1>0, <1>29, <3>1 DEF List, LocalsOK, Job
    <2>3. p \notin overlapped => Relies(p)'
      <3>1. ListingStands(p)'
        BY <2>1, <2>2 DEF ListingStands
      <3>2. ~(pc[p] \in {"forward", "record"})
        BY <1>29 DEF List, Listing
      <3> QED BY <2>0, <2>1, <2>2, <3>1, <3>2 DEF Relies
    <2>4. p \notin overlapped /\ "kernel" \notin disturbed /\ pc[p] \notin Window
             => ~Drifted(kernel, Active)
      <3> SUFFICES ASSUME p \notin overlapped, "kernel" \notin disturbed,
                          pc[p] \notin Window
                   PROVE  ~Drifted(kernel, Active)
        OBVIOUS
      <3>1. \A q \in Actors : pc[q] \notin Window
        BY <2>0 DEF Window, Sensitive, AgreementInv, OverlapsMarked
      <3> QED BY <3>1 DEF AgreementInv, AgreesOutsideWindow
    <2> QED BY <2>0, <2>1, <2>2, <2>3, <2>4, WorkStep DEF Drifted
  <1> QED BY <1>1, <1>2, <1>3, <1>4, <1>5, <1>6, <1>7, <1>8, <1>9, <1>10, <1>11, <1>12, <1>13, <1>14, <1>15, <1>16, <1>17, <1>18, <1>19, <1>20, <1>21, <1>22, <1>23, <1>24, <1>25, <1>26, <1>27, <1>28, <1>29 DEF Next, Calls, Continue, Environment

(* Outside an apply the table is the one of the active revision, as far as *)
(* status() can tell: after refused batches, failed sysctls and inserts,   *)
(* crashes and restarts, unless kernel changes overlapped or something     *)
(* happened that no handler makes good.                                    *)
THEOREM AgreementHolds == Spec => []Agreement
  <1>1. Init => AgreementInv
    <2> SUFFICES ASSUME Init PROVE AgreementInv
      OBVIOUS
    <2>1. Active = Default
      BY DEF Init, Active, ActiveConfig, Has, Latest
    <2>2. \A p \in Actors : pc[p] \notin Sensitive
      BY DEF Init, Sensitive
    <2>3. \A p \in Actors : Relies(p)
      BY <2>2 DEF Relies, Sensitive, Listing
    <2>4. ~Drifted(kernel, Active)
      BY <2>1, OwnTable DEF Init
    <2> QED BY <2>2, <2>3, <2>4 DEF AgreementInv, OverlapsMarked,
              UndisturbedAlone, AloneRelies, AgreesOutsideWindow
  <1>2. AgreementInv => Agreement
    <2>1. Window \subseteq Sensitive
      BY DEF Window, Sensitive
    <2> QED BY <2>1 DEF AgreementInv, AgreesOutsideWindow, Agreement, Settled
  <1> QED BY <1>1, <1>2, AgreementStep, TypeCorrect, ListedHolds, PTL DEF Spec
==============================================================================
