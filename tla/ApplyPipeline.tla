---------------------------- MODULE ApplyPipeline ----------------------------
(***************************************************************************)
(* How a configuration reaches the kernel: the handlers of api.rs (save,   *)
(* apply, rollback), the same commands of the CLI (service.rs) and the     *)
(* restoration at start-up (Runtime::open in app.rs), running concurrently *)
(* over one SQLite database, one nftables table and the forwarding sysctls.*)
(*                                                                         *)
(* An action is what one handler does between two points where another     *)
(* handler or process can run: one section under the database lock, one    *)
(* read of the kernel, one batch, one call of ensure_forwarding.  apply of *)
(* the nft controller is two of them: it lists the tables and then sends a *)
(* batch made for what it saw, under a mutex that only keeps out the other *)
(* callers of its own process.                                             *)
(***************************************************************************)
EXTENDS Revisions, DriftCheck

CONSTANTS
    Requests,      \* slots for API requests served by the daemon at a time
    Commands,      \* slots for CLI processes (portalisd apply, rollback, ...)
    Daemon,        \* the main task of `portalisd serve`
    Families,      \* the address families, "ipv4" and "ipv6"
    Needs,         \* requires_ipv4_forwarding / requires_ipv6_forwarding
    SshStates,     \* contents of sshd_config told apart
    ValidIn,       \* the configurations validate() accepts in each of them
    Faults,        \* the failures that may happen in this instance
    MaxRevisions,  \* bound: rows in the revisions table
    MaxOutages     \* bound: crashes and reboots

Actors == Requests \cup Commands \cup {Daemon}

FaultKinds == {"read", "insert", "audit", "mark", "status", "snapshot",
               "reject", "lostAck", "sysctl", "disconnect", "crash",
               "reboot", "kill", "external"}

ASSUME ActorsAssumption ==
    /\ Requests \cap Commands = {}
    /\ Daemon \notin Requests \cup Commands
    /\ IsFiniteSet(Commands)
ASSUME FamiliesAssumption == Families = {"ipv4", "ipv6"}
(* an empty configuration is valid whatever sshd listens on and has no     *)
(* rules; one with an empty plan needs no forwarding                       *)
ASSUME ConfigAssumption ==
    /\ RulesOf \in [Configs -> [Keys -> Nat]]
    /\ ~HasRules(Default)
    /\ Needs \in [Configs -> SUBSET Families]
    /\ \A c \in Configs : ~HasRules(c) => Needs[c] = {}
    /\ ValidIn \in [SshStates -> SUBSET Configs]
    /\ \A s \in SshStates : Default \in ValidIn[s]
ASSUME BoundAssumption ==
    Faults \subseteq FaultKinds /\ MaxRevisions \in Nat /\ MaxOutages \in Nat

VARIABLES
    revs,        \* the revisions table
    kernel,      \* the configurations whose batches the managed table holds;
                 \* <<>>: there is no `inet portalis` table
    fwd,         \* families with /proc/sys/.../forwarding = 1
    fwdFile,     \* families persisted in 99-portalis.conf
    sshd,        \* the current sshd_config
    pc,          \* where each actor is
    job,         \* the local variables of each actor
    outages,     \* crashes and reboots so far
    \* history variables, read by no action of the code
    installed,   \* configurations the kernel has accepted
    sshdSeen,    \* sshd configurations there have been
    overlapped,  \* actors whose run overlapped another's
    disturbed    \* "kernel" / "forwarding": something no handler makes good
                 \* happened to it since it last agreed with the database

host == <<kernel, fwd, fwdFile, sshd>>
ghosts == <<installed, sshdSeen, overlapped, disturbed>>
vars == <<revs, kernel, fwd, fwdFile, sshd, pc, job, outages,
          installed, sshdSeen, overlapped, disturbed>>

Locations == {"idle", "down", "open", "openStatus", "openInstall",
              "openForward", "ready", "validate", "readPrevious", "reuse",
              "install", "forward", "undo", "record", "undoLocked",
              "noteError", "saveDraft"}

(* From reading the active configuration to the last write of the kernel.  *)
Sensitive == {"openStatus", "openInstall", "reuse", "install", "forward",
              "undo", "record", "undoLocked"}

(* The kernel already holds a configuration the database does not name.    *)
Window == {"forward", "undo", "record", "undoLocked"}

(* listed is had_table of a running apply: what list_tables told it.  It   *)
(* is set while the actor holds the mutex between its listing and its send.*)
Job == [op : {"none", "open", "apply", "rollback", "save"},
        goal : Configs, draft : Nat, previous : Configs,
        listed : {"no", "present", "absent"}]
NoJob == [op |-> "none", goal |-> Default, draft |-> 0, previous |-> Default,
          listed |-> "no"]

Fault(kind) == kind \in Faults

Active == ActiveConfig(revs)

(* status(config): the table is there and does not differ from config.     *)
Matches(config) == kernel # <<>> /\ ~Drifted(kernel, config)

Serving == pc[Daemon] = "ready"

(* The guard of the database mutex: a request whose mark_active failed     *)
(* keeps it while it puts the kernel back; the other requests wait.        *)
DbFree(p) == p \in Requests =>
    \A q \in Requests \ {p} : pc[q] # "undoLocked"

(* Bound: at most MaxRevisions rows, counting those still to be inserted.  *)
Inserting == {"validate", "readPrevious", "reuse", "install", "forward",
              "record", "saveDraft"}
Room == Len(revs) + Cardinality({p \in Actors : pc[p] \in Inserting})
            < MaxRevisions

Goto(p, l) == pc' = [pc EXCEPT ![p] = l]

(* The handler or command returns. For Runtime::open see Opened.           *)
Return(p) == /\ Goto(p, "idle")
             /\ job' = [job EXCEPT ![p] = NoJob]

(***************************************************************************)
(* History: p starts to rely on what it has just read of the database.     *)
(***************************************************************************)
Others(p) == {q \in Actors \ {p} : pc[q] \in Sensitive}

Begin(p) ==
    /\ overlapped' = IF Others(p) = {} THEN overlapped \ {p}
                     ELSE overlapped \cup Others(p) \cup {p}
    /\ disturbed' = IF Others(p) = {} THEN disturbed
                    ELSE disturbed \cup {"kernel"}

(* p ends having made the aspects agree with the database, unless another  *)
(* actor ran in between.                                                   *)
Agreed(p, aspects) ==
    disturbed' = disturbed \ (IF p \in overlapped THEN aspects \ {"kernel"}
                              ELSE aspects)

Disturb(aspects) == disturbed' = disturbed \cup aspects

(***************************************************************************)
(* NftnlController.  Its mutex belongs to a process, which is the set of   *)
(* actors that run in it; a command is a process of its own.               *)
(***************************************************************************)
ProcessOf(p) == IF p \in Commands THEN {p} ELSE Requests \cup {Daemon}

Processes == {ProcessOf(p) : p \in Actors}

(* No other caller of the process is between its listing and its send.     *)
NftFree(p) == \A q \in Actors \ {p} :
    ProcessOf(q) = ProcessOf(p) => job[q].listed = "no"

Listing == {"openInstall", "install", "undo", "undoLocked"}

(* apply: the mutex is taken and the tables are listed.                    *)
List(p) ==
    /\ pc[p] \in Listing /\ job[p].listed = "no" /\ NftFree(p)
    /\ job' = [job EXCEPT ![p].listed = IF kernel = <<>> THEN "absent" ELSE "present"]
    /\ UNCHANGED <<revs, host, pc, outages, ghosts>>

(* Mutant: the batch does not delete the table first.                      *)
CommitAdding(p, config) ==
    /\ job[p].listed # "no"
    /\ kernel' = Append(kernel, config)
    /\ installed' = installed \cup {config}

(* The batch deletes the table if it was listed, adds it and its rules;    *)
(* the kernel accepts or rejects it as a whole.  Adding a table that       *)
(* another process has added since the listing leaves the other's rules in *)
(* it.  The acknowledgement can be lost after the kernel has committed the *)
(* batch, and the caller then sees an error.                               *)
Commit(p, config) ==
    /\ \/ job[p].listed = "present" /\ kernel # <<>> /\ kernel' = <<config>>
       \/ job[p].listed = "absent" /\ kernel' = Append(kernel, config)
    /\ installed' = installed \cup {config}

(* Without a fault only the deletion of a table that has gone is refused.  *)
Reject(p) ==
    /\ job[p].listed # "no"
    /\ Fault("reject") \/ (job[p].listed = "present" /\ kernel = <<>>)
    /\ UNCHANGED <<kernel, installed>>

Unlist(p) == job' = [job EXCEPT ![p].listed = "no"]

(***************************************************************************)
(* Runtime::open, run by the daemon and by every CLI command.              *)
(***************************************************************************)
StartDaemon ==
    /\ pc[Daemon] = "down"
    /\ Goto(Daemon, "open")
    /\ UNCHANGED <<revs, host, job, outages, ghosts>>

StartCommand(p) ==
    /\ p \in Commands /\ pc[p] = "idle"
    /\ Goto(p, "open")
    /\ UNCHANGED <<revs, host, job, outages, ghosts>>

Opened(p) == /\ Goto(p, "ready")
             /\ job' = [job EXCEPT ![p] = NoJob]

OpenRead(p) ==
    /\ pc[p] = "open"
    /\ \/ /\ Has(revs, "active")
          /\ Begin(p)
          /\ Goto(p, "openStatus")
          /\ job' = [job EXCEPT ![p] = [NoJob EXCEPT !.op = "open", !.goal = Active]]
       \/ /\ ~Has(revs, "active")
          /\ Opened(p)
          /\ UNCHANGED <<overlapped, disturbed>>
       \/ /\ Fault("read")
          /\ Goto(p, IF p = Daemon THEN "down" ELSE "idle")
          /\ UNCHANGED <<job, overlapped, disturbed>>
    /\ UNCHANGED <<revs, host, outages, installed, sshdSeen>>

(* Mutant: a table that is there is never compared with the revision.      *)
OpenStatusPresent(p) ==
    /\ pc[p] = "openStatus"
    /\ IF kernel = <<>>
       THEN Goto(p, "openInstall") /\ UNCHANGED <<job, disturbed>>
       ELSE Opened(p) /\ Agreed(p, {"kernel"})
    /\ UNCHANGED <<revs, host, outages, installed, sshdSeen, overlapped>>

(* Mutant: an absent table is taken for one that does not differ.          *)
OpenStatusAbsent(p) ==
    /\ pc[p] = "openStatus"
    /\ IF kernel # <<>> /\ Drifted(kernel, job[p].goal)
       THEN Goto(p, "openInstall") /\ UNCHANGED <<job, disturbed>>
       ELSE Opened(p) /\ Agreed(p, {"kernel"})
    /\ UNCHANGED <<revs, host, outages, installed, sshdSeen, overlapped>>

OpenStatus(p) ==
    /\ pc[p] = "openStatus" /\ NftFree(p)
    /\ \/ /\ ~Matches(job[p].goal) \/ Fault("status")
          /\ Goto(p, "openInstall")
          /\ UNCHANGED <<job, disturbed>>
       \/ /\ Matches(job[p].goal)
          /\ Opened(p)
          /\ Agreed(p, {"kernel"})
    /\ UNCHANGED <<revs, host, outages, installed, sshdSeen, overlapped>>

OpenInstall(p) ==
    /\ pc[p] = "openInstall"
    /\ \/ /\ Commit(p, job[p].goal)
          /\ Goto(p, "openForward") /\ Unlist(p)
          /\ Agreed(p, {"kernel"})
       \/ /\ Reject(p) /\ Opened(p)
          /\ Disturb({"kernel"})
       \/ /\ Fault("lostAck") /\ Commit(p, job[p].goal) /\ Opened(p)
          /\ Agreed(p, {"kernel"})
    /\ UNCHANGED <<revs, fwd, fwdFile, sshd, outages, sshdSeen, overlapped>>

(***************************************************************************)
(* ensure_forwarding: /proc for IPv4, then for IPv6, then the sysctl.d     *)
(* file; each write can fail and nothing is undone.  A failed write of the *)
(* file may leave it truncated, and a file that cannot be read is taken    *)
(* for an empty one and overwritten.                                       *)
(***************************************************************************)
(* Mutant: IPv6 is looked at only when IPv4 is not needed.                 *)
EnsureFirstFamily(config) ==
    LET first == IF "ipv4" \in Needs[config] THEN {"ipv4"} ELSE Needs[config]
    IN fwd' = fwd \cup first /\ fwdFile' = fwdFile \cup first

(* Mutant: both families are enabled whatever the rules need.              *)
EnsureAllFamilies(config) == fwd' = Families /\ fwdFile' = Families

EnsureForwarding(config) ==
    /\ fwd' = fwd \cup Needs[config]
    /\ \/ fwdFile' = fwdFile \cup Needs[config]
       \/ Fault("sysctl") /\ Needs[config] # {} /\ fwdFile' = Needs[config]

PartialForwarding(config) ==
    \/ /\ "ipv4" \in Needs[config] \ fwd
       /\ UNCHANGED <<fwd, fwdFile>>
    \/ /\ "ipv6" \in Needs[config] \ fwd
       /\ fwd' = fwd \cup (Needs[config] \cap {"ipv4"})
       /\ UNCHANGED fwdFile
    \/ /\ Needs[config] # {}
       /\ fwd' = fwd \cup Needs[config]
       /\ fwdFile' \in SUBSET (fwdFile \cup Needs[config])

OpenForward(p) ==
    /\ pc[p] = "openForward"
    /\ \/ /\ EnsureForwarding(job[p].goal)
          /\ Agreed(p, {"forwarding"})
       \/ /\ Fault("sysctl")
          /\ PartialForwarding(job[p].goal)
          /\ Disturb({"forwarding"})
    /\ Opened(p)
    /\ UNCHANGED <<revs, kernel, sshd, outages, installed, sshdSeen, overlapped>>

(***************************************************************************)
(* PUT /draft, and restore_backup once the object is downloaded: validate, *)
(* then insert a draft under the database lock.  An invalid configuration  *)
(* changes nothing.                                                        *)
(***************************************************************************)
(* Mutant: PUT /draft without validation.                                  *)
SaveUnvalidated(p, c) ==
    /\ p \in Requests /\ pc[p] = "idle" /\ Serving /\ Room
    /\ Goto(p, "saveDraft")
    /\ job' = [job EXCEPT ![p] = [NoJob EXCEPT !.op = "save", !.goal = c]]
    /\ UNCHANGED <<revs, host, outages, ghosts>>

SaveRequest(p, c) ==
    /\ p \in Requests /\ pc[p] = "idle" /\ Serving /\ Room
    /\ c \in ValidIn[sshd]
    /\ Goto(p, "saveDraft")
    /\ job' = [job EXCEPT ![p] = [NoJob EXCEPT !.op = "save", !.goal = c]]
    /\ UNCHANGED <<revs, host, outages, ghosts>>

(* A failed audit insert leaves the draft in place: same state as success. *)
SaveDraft(p) ==
    /\ pc[p] = "saveDraft" /\ DbFree(p)
    /\ \/ revs' = Insert(revs, "draft", job[p].goal)
       \/ Fault("insert") /\ UNCHANGED revs
    /\ Return(p)
    /\ UNCHANGED <<host, outages, ghosts>>

(***************************************************************************)
(* POST /apply and `portalisd apply`; POST /revisions/:id/rollback and     *)
(* `portalisd rollback`.                                                   *)
(***************************************************************************)
CanCall(p) == \/ p \in Requests /\ pc[p] = "idle" /\ Serving /\ DbFree(p)
              \/ p \in Commands /\ pc[p] = "ready"

ApplyRequest(p) ==
    /\ CanCall(p) /\ Room
    /\ Has(revs, "draft")
    /\ Goto(p, "validate")
    /\ job' = [job EXCEPT ![p] =
                 [NoJob EXCEPT !.op = "apply",
                               !.draft = LatestIndex(revs, "draft"),
                               !.goal = LatestConfig(revs, "draft")]]
    /\ UNCHANGED <<revs, host, outages, ghosts>>

(* revision(id) finds a row of either kind; only the API validates it.     *)
RollbackRequest(p, i) ==
    /\ CanCall(p) /\ Room
    /\ i \in DOMAIN revs
    /\ Goto(p, IF p \in Requests THEN "validate" ELSE "readPrevious")
    /\ job' = [job EXCEPT ![p] =
                 [NoJob EXCEPT !.op = "rollback", !.goal = revs[i].config]]
    /\ UNCHANGED <<revs, host, outages, ghosts>>

(* status, rules, backup, or a command that finds nothing to work on.      *)
Quit(p) ==
    /\ p \in Commands /\ pc[p] = "ready"
    /\ Return(p)
    /\ UNCHANGED <<revs, host, outages, ghosts>>

(* validate_config reads sshd_config again.                                *)
Validate(p) ==
    /\ pc[p] = "validate"
    /\ \/ /\ job[p].goal \in ValidIn[sshd]
          /\ Goto(p, "readPrevious") /\ UNCHANGED job
       \/ /\ job[p].goal \notin ValidIn[sshd]
          /\ Return(p)
    /\ UNCHANGED <<revs, host, outages, ghosts>>

ReadPrevious(p) ==
    /\ pc[p] = "readPrevious" /\ DbFree(p)
    /\ \/ /\ job' = [job EXCEPT ![p].previous = Active]
          /\ Goto(p, IF job[p].op = "apply" /\ Active = job[p].goal
                     THEN "reuse" ELSE "install")
          /\ Begin(p)
       \/ /\ Fault("read") /\ Return(p)
          /\ UNCHANGED <<overlapped, disturbed>>
    /\ UNCHANGED <<revs, host, outages, installed, sshdSeen>>

(* The draft is already active: nothing is sent if the kernel matches it.  *)
Reuse(p) ==
    /\ pc[p] = "reuse" /\ NftFree(p)
    /\ \/ /\ Matches(job[p].goal)
          /\ Return(p)
          /\ Agreed(p, {"kernel"})
       \/ /\ ~Matches(job[p].goal) \/ Fault("status")
          /\ Goto(p, "install")
          /\ UNCHANGED <<job, disturbed>>
    /\ UNCHANGED <<revs, host, outages, installed, sshdSeen, overlapped>>

(* The snapshot of the old table is only written, never read back; apply   *)
(* gives up when it cannot be taken.                                       *)
SnapshotFails(p) ==
    /\ pc[p] = "install" /\ job[p].op = "apply" /\ job[p].listed = "no"
    /\ Fault("snapshot")
    /\ Return(p)
    /\ UNCHANGED <<revs, host, outages, ghosts>>

(* What a failed nft.apply or ensure_forwarding leads to: only the API's   *)
(* apply records the error on the draft.                                   *)
Fail(p) == IF p \in Requests /\ job[p].op = "apply"
           THEN Goto(p, "noteError") /\ Unlist(p)
           ELSE Return(p)

(* Mutant: an error of nft.apply is logged and the apply goes on.          *)
InstallUnchecked(p) ==
    /\ pc[p] = "install"
    /\ Commit(p, job[p].goal) \/ Reject(p)
    /\ Goto(p, "forward") /\ Unlist(p)
    /\ UNCHANGED <<revs, fwd, fwdFile, sshd, outages, sshdSeen,
                   overlapped, disturbed>>

Install(p) ==
    /\ pc[p] = "install"
    /\ \/ /\ Commit(p, job[p].goal)
          /\ Goto(p, "forward") /\ Unlist(p)
          /\ UNCHANGED disturbed
       \/ Reject(p) /\ Fail(p) /\ UNCHANGED disturbed
       \/ /\ Fault("lostAck") /\ Commit(p, job[p].goal)
          /\ Fail(p) /\ Disturb({"kernel"})
    /\ UNCHANGED <<revs, fwd, fwdFile, sshd, outages, sshdSeen, overlapped>>

(* Mutant: a failed ensure_forwarding returns without putting the table    *)
(* back.                                                                   *)
ForwardNoUndo(p) ==
    /\ pc[p] = "forward"
    /\ \/ EnsureForwarding(job[p].goal) /\ Goto(p, "record") /\ UNCHANGED job
       \/ Fault("sysctl") /\ PartialForwarding(job[p].goal) /\ Fail(p)
    /\ UNCHANGED <<revs, kernel, sshd, outages, ghosts>>

Forward(p) ==
    /\ pc[p] = "forward"
    /\ \/ EnsureForwarding(job[p].goal) /\ Goto(p, "record") /\ UNCHANGED job
       \/ /\ Fault("sysctl") /\ PartialForwarding(job[p].goal)
          /\ Goto(p, "undo") /\ UNCHANGED job
    /\ UNCHANGED <<revs, kernel, sshd, outages, ghosts>>

(* nft.apply(&previous), whose own failure is reported or ignored.         *)
PutBack(p) ==
    \/ Commit(p, job[p].previous) /\ UNCHANGED disturbed
    \/ Reject(p) /\ Disturb({"kernel"})

Undo(p) ==
    /\ pc[p] = "undo"
    /\ PutBack(p)
    /\ Fail(p)
    /\ UNCHANGED <<revs, fwd, fwdFile, sshd, outages, sshdSeen, overlapped>>

(* mark_active: the insert commits first, the audit row is written after   *)
(* it, and an error of either is an error of mark_active.                  *)
Record(p) ==
    /\ pc[p] = "record" /\ DbFree(p)
    /\ \/ /\ revs' = Insert(revs, "active", job[p].goal)
          /\ Return(p)
          /\ Agreed(p, {"kernel", "forwarding"})
       \/ /\ Fault("insert")
          /\ Goto(p, "undoLocked")
          /\ UNCHANGED <<revs, job, disturbed>>
       \/ /\ Fault("audit")
          /\ revs' = Insert(revs, "active", job[p].goal)
          /\ Goto(p, "undoLocked")
          /\ Disturb({"kernel"})
          /\ UNCHANGED job
    /\ UNCHANGED <<host, outages, installed, sshdSeen, overlapped>>

(* Mutant: the error arm locks the database again, which it still holds.   *)
UndoRelocking(p) ==
    /\ pc[p] = "undoLocked"
    /\ \A q \in Requests : pc[q] # "undoLocked"
    /\ PutBack(p)
    /\ Return(p)
    /\ UNCHANGED <<revs, fwd, fwdFile, sshd, outages, sshdSeen, overlapped>>

(* The error arm of `match db.lock().await.mark_active(..)`: the guard of  *)
(* the lock lives to the end of the match.                                 *)
UndoLocked(p) ==
    /\ pc[p] = "undoLocked"
    /\ PutBack(p)
    /\ Return(p)
    /\ UNCHANGED <<revs, fwd, fwdFile, sshd, outages, sshdSeen, overlapped>>

(* Mutant: the latest draft is flagged.                                    *)
NoteErrorLatest(p) ==
    /\ pc[p] = "noteError" /\ DbFree(p)
    /\ revs' = FlagError(revs, LatestIndex(revs, "draft"))
    /\ Return(p)
    /\ UNCHANGED <<host, outages, ghosts>>

NoteError(p) ==
    /\ pc[p] = "noteError" /\ DbFree(p)
    /\ \/ revs' = FlagError(revs, job[p].draft)
       \/ Fault("mark") /\ UNCHANGED revs
    /\ Return(p)
    /\ UNCHANGED <<host, outages, ghosts>>

(***************************************************************************)
(* The environment.  A handler that waits for the database lock is dropped *)
(* when its client disconnects; a crash or a reboot ends the daemon and    *)
(* its handlers, and a reboot also clears the kernel; sshd_config is       *)
(* edited; another program deletes the table.                              *)
(***************************************************************************)
AwaitsDb == {"readPrevious", "record", "noteError", "saveDraft"}

LostAspects(killed) == IF \E p \in killed : pc[p] \in Window
                       THEN {"kernel"} ELSE {}

Stop(killed) ==
    /\ pc' = [p \in Actors |-> IF p \notin killed THEN pc[p]
                               ELSE IF p = Daemon THEN "down" ELSE "idle"]
    /\ job' = [p \in Actors |-> IF p \in killed THEN NoJob ELSE job[p]]

Disconnect(p) ==
    /\ Fault("disconnect")
    /\ p \in Requests /\ pc[p] \in AwaitsDb
    /\ Stop({p})
    /\ Disturb(LostAspects({p}))
    /\ UNCHANGED <<revs, host, outages, installed, sshdSeen, overlapped>>

KillCommand(p) ==
    /\ Fault("kill") /\ outages < MaxOutages
    /\ p \in Commands /\ pc[p] # "idle"
    /\ outages' = outages + 1
    /\ Stop({p})
    /\ Disturb(LostAspects({p}))
    /\ UNCHANGED <<revs, host, installed, sshdSeen, overlapped>>

Crash ==
    /\ Fault("crash") /\ outages < MaxOutages
    /\ pc[Daemon] # "down"
    /\ outages' = outages + 1
    /\ Stop(Requests \cup {Daemon})
    /\ Disturb(LostAspects(Requests \cup {Daemon}))
    /\ UNCHANGED <<revs, host, installed, sshdSeen, overlapped>>

Reboot ==
    /\ Fault("reboot") /\ outages < MaxOutages
    /\ outages' = outages + 1
    /\ Stop(Actors)
    /\ kernel' = <<>>
    /\ fwd' = fwdFile
    /\ Disturb({"kernel", "forwarding"})
    /\ UNCHANGED <<revs, fwdFile, sshd, installed, sshdSeen, overlapped>>

SshdChange(s) ==
    /\ s \in SshStates \ {sshd}
    /\ sshd' = s
    /\ sshdSeen' = sshdSeen \cup {s}
    /\ UNCHANGED <<revs, kernel, fwd, fwdFile, pc, job, outages,
                   installed, overlapped, disturbed>>

TableRemoved ==
    /\ Fault("external")
    /\ kernel # <<>>
    /\ kernel' = <<>>
    /\ overlapped' = overlapped \cup {p \in Actors : pc[p] \in Sensitive}
    /\ Disturb({"kernel"})
    /\ UNCHANGED <<revs, fwd, fwdFile, sshd, pc, job, outages,
                   installed, sshdSeen>>

------------------------------------------------------------------------------
Init ==
    /\ revs = <<>>
    /\ kernel = <<>>
    /\ fwd = {} /\ fwdFile = {}
    /\ sshd \in SshStates
    /\ pc = [p \in Actors |-> IF p = Daemon THEN "down" ELSE "idle"]
    /\ job = [p \in Actors |-> NoJob]
    /\ outages = 0
    /\ installed = {}
    /\ sshdSeen = {sshd}
    /\ overlapped = {}
    /\ disturbed = {}

Calls(p) == \/ \E c \in Configs : SaveRequest(p, c)
            \/ ApplyRequest(p)
            \/ \E i \in DOMAIN revs : RollbackRequest(p, i)
            \/ StartCommand(p)
            \/ Quit(p)

(* What an actor does on its own once started.                             *)
Continue(p) ==
    \/ OpenRead(p) \/ OpenStatus(p) \/ OpenInstall(p) \/ OpenForward(p)
    \/ SaveDraft(p)
    \/ Validate(p) \/ ReadPrevious(p) \/ Reuse(p) \/ SnapshotFails(p)
    \/ List(p) \/ Install(p) \/ Forward(p) \/ Undo(p) \/ Record(p) \/ UndoLocked(p)
    \/ NoteError(p)

Environment ==
    \/ \E p \in Actors : Disconnect(p) \/ KillCommand(p)
    \/ Crash \/ Reboot
    \/ \E s \in SshStates : SshdChange(s)
    \/ TableRemoved

Next == \/ StartDaemon
        \/ \E p \in Actors : Calls(p) \/ Continue(p)
        \/ Environment

Spec == Init /\ [][Next]_vars

(* Tokio keeps polling a started handler and its mutex is first-in         *)
(* first-out, so a request that waits for the database gets it (strong     *)
(* fairness); a CLI process keeps running and the unit has                 *)
(* Restart=on-failure.  Nobody is obliged to send a request.               *)
Fairness == /\ WF_vars(StartDaemon)
            /\ \A p \in Commands \cup {Daemon} : WF_vars(Continue(p))
            /\ \A p \in Requests : SF_vars(Continue(p))

FairSpec == Spec /\ Fairness

------------------------------------------------------------------------------
TypeOK ==
    /\ revs \in Seq(Revision)
    /\ kernel \in Seq(Configs)
    /\ fwd \subseteq Families /\ fwdFile \subseteq Families
    /\ sshd \in SshStates
    /\ pc \in [Actors -> Locations]
    /\ job \in [Actors -> Job]
    /\ outages \in Nat
    /\ installed \subseteq Configs
    /\ sshdSeen \subseteq SshStates
    /\ overlapped \subseteq Actors
    /\ disturbed \subseteq {"kernel", "forwarding"}

(* No kernel change is under way and no decision about one is pending.     *)
Settled == \A p \in Actors : pc[p] \notin Sensitive

(* What validation has accepted under some sshd_config there has been.     *)
Vetted == UNION {ValidIn[s] : s \in sshdSeen}

(* Everything saved, active or in the kernel passed validate() at some     *)
(* time, although rollback and start-up re-install without validating      *)
(* (service.rs rollback, app.rs open).                                     *)
VettedOnly ==
    /\ \A i \in DOMAIN revs : revs[i].config \in Vetted
    /\ \A i \in DOMAIN kernel : kernel[i] \in Vetted

(* Each batch in the table is of a configuration the history holds, or the *)
(* empty one an undo went back to, also in a table that two processes have *)
(* merged (nft.rs apply): no undo and no late handler installs anything    *)
(* `revisions` does not show.                                              *)
KernelRecorded ==
    \A i \in DOMAIN kernel :
        kernel[i] = Default \/ \E j \in DOMAIN revs : revs[j].config = kernel[i]

Table == INSTANCE AtomicTable
           WITH table <- kernel, Width <- Cardinality(Processes)

(* "Apply changes the kernel atomically" (web/src/main.tsx:1584), of all   *)
(* that handlers, undos, restorations, reboots and other programs do to    *)
(* the table together: it is replaced or removed as a whole, but that each *)
(* process beyond the first (a command beside the daemon) can add a batch  *)
(* of its own to it, once.                                                 *)
AtomicSpec == Table!Spec

(* A revision is only marked active once the kernel has accepted it, also  *)
(* when handlers interleave and acknowledgements are lost.                 *)
ActiveWasInstalled ==
    \A i \in DOMAIN revs : revs[i].kind = "active" => revs[i].config \in installed

(* Outside an apply the table is the one of the active revision, after any *)
(* mix of refused batches, failed sysctls, failed inserts, crashes before  *)
(* or after the batch with a restart, as long as no two kernel changes     *)
(* overlapped and nothing happened that no handler makes good (a batch     *)
(* applied although reported failed, a failed undo, an audit failure after *)
(* the commit, a handler dropped between the batch and the commit, a table *)
(* deleted from outside).  A later apply that succeeds, or a restart,      *)
(* brings the agreement back from any of those.                            *)
Agreement ==
    Settled /\ "kernel" \notin disturbed => ~Drifted(kernel, Active)

(* The families the active revision needs are enabled, although a restart  *)
(* that finds its table in place never looks at the sysctls; the exception *)
(* is a boot at which restoring them failed or was skipped.                *)
ForwardingReady == "forwarding" \notin disturbed => Needs[Active] \subseteq fwd

(* Forwarding is enabled, and persisted, only for a family that some       *)
(* configuration the kernel has accepted needs (README.md:17).             *)
ForwardingNeeded ==
    fwd \cup fwdFile \subseteq UNION {Needs[c] : c \in installed}

(* Status reports a match only when the table is the one of the active     *)
(* revision: the state pill of the overview then says "Matches active      *)
(* revision" (web/src/main.tsx:1180).                                      *)
ReportedMatchIsReal ==
    Serving /\ Settled /\ Matches(Active) => kernel = <<Active>>

(* A request that answers "could not persist active revision" (api.rs:417) *)
(* has not changed which revision is active.                               *)
NotPersistedWhenReported ==
    \A p \in Requests \ overlapped :
        pc[p] = "undoLocked" => Active = job[p].previous

(* Nothing is installed on request that listens on an SSH port: "SSH ports *)
(* detected from /etc/ssh/sshd_config (22 by default) are rejected"        *)
(* (README.md:15), for apply and rollback, by the API and by the CLI.      *)
SshPortsRejected ==
    [][\A p \in Actors : pc[p] # "readPrevious" /\ pc'[p] = "readPrevious"
            => job'[p].goal \in ValidIn[sshd]]_vars

(* The history is append-only: a step keeps every row in its place and     *)
(* changes nothing of it but the error flag of a draft, which stays.  A    *)
(* handler flags the draft it read when it started, which holds the        *)
(* configuration it could not apply, whatever was saved since (api.rs      *)
(* apply, mark_apply_error).                                               *)
HistoryAppendOnly ==
    [][/\ Len(revs') >= Len(revs)
       /\ \A i \in DOMAIN revs :
            \/ revs'[i] = revs[i]
            \/ /\ revs[i].kind = "draft"
               /\ revs'[i] = [revs[i] EXCEPT !.failed = TRUE]
               /\ \E p \in Requests : /\ pc[p] = "noteError"
                                      /\ i = job[p].draft
                                      /\ revs[i].config = job[p].goal]_vars

(* Every request ends, although requests wait for one that holds the       *)
(* database lock while it talks to the kernel.                             *)
RequestsFinish == \A p \in Requests : pc[p] # "idle" ~> pc[p] = "idle"

(* After a crash or a reboot the daemon comes back serving, with the       *)
(* active revision in the kernel and its forwarding enabled.  This needs a *)
(* revision to be active: what a crash in the very first apply left in the *)
(* kernel stays there (open restores only `if let Some(config)`).          *)
Recovery ==
    pc[Daemon] = "down" /\ Has(revs, "active") ~>
        Serving /\ ~Drifted(kernel, Active) /\ Needs[Active] \subseteq fwd
==============================================================================
