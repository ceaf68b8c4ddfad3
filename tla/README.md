# Portalis: a TLA+ model of the daemon

Portalis (`portalisd`) keeps a set of port-forwarding rules in SQLite, installs
them as one nftables table, and lets a web UI and a CLI edit, apply and roll
back; a password guards the web API and a scheduler backs revisions up to S3.
This directory models the daemon: how a configuration gets from the database to
the kernel and back, what the installed rules do with packets, the backups and
the password. TLC checks it on small instances, TLAPS proves its invariants.

## 1. Inventory

| component | source | state | operations | modelled |
|---|---|---|---|---|
| configuration, validation, plan | `portalis-core/src/lib.rs` | none (pure) | `validate`, `plan`, `requires_*`, `parse_ssh_ports` | `Rules`; constants of `ApplyPipeline` |
| revision database | `db.rs` | tables `revisions`, `audit_log`, `backups` | `save_draft`, `mark_active`, `mark_apply_error`, `latest_revision`, `revision`, `backup_record`, `has_successful_backup` | `Revisions`, `Backups` |
| nft controller | `nft.rs` | the kernel's `inet portalis` table, a mutex per process | `apply`, `status`, `table_snapshot` | `NftTable`, `Datapath`; listing and batch in `ApplyPipeline` |
| forwarding sysctls | `sysctl.rs` | `/proc/sys/.../forwarding`, `99-portalis.conf` | `ensure_forwarding` | `ApplyPipeline` |
| apply / rollback pipeline | `api.rs`, `service.rs`, `app.rs` | handlers' locals, the tokio mutex on the database | `PUT /draft`, `POST /apply`, `POST /revisions/:id/rollback`, the same CLI commands, `Runtime::open` | `ApplyPipeline` |
| backups and scheduler | `s3.rs`, `service.rs`, `api.rs` | `backups` rows, the bucket's objects, the two settings files | save settings, upload, prune, record, restore, daily run | `Backups`, `BackupScheduler` |
| authentication | `auth.rs`, `api.rs`, `app.rs` | `web-auth.hash`, its copy in memory, the lock on it | `authenticate`, `set_password`, loopback exemption, start-up | `AuthGate` |
| HTTP router, read endpoints | `api.rs` | none | `status`, `rules`, `revisions`, `audit` | no: they change nothing |
| web client session | `web/src/main.tsx`, `auth.ts` | session storage, the pending prompt | `api`, `requestPassword` | no |
| web draft editor | `web/src/main.tsx` | draft, saved draft, dirty flag, busy flag | edit, save, apply, refresh timer | no |
| `portalisctl`, installer, CI, styles | | | | no |

**How they interact.** The daemon is one process with many handlers (tokio
tasks). Its handlers share one `Database` behind a `tokio::sync::Mutex`, locked
anew for each read or write, and one `NftnlController` with a `std` mutex held
for one call. `portalisd apply` and `portalisd rollback` are *other processes*:
they open the same SQLite file and talk to the same kernel, and share no lock
with the daemon. `Runtime::open` runs in every one of these processes and
reinstalls the active revision if the table is missing or differs. Every API
request first passes the middleware `authenticate`, which holds a read guard of
the password's `tokio::sync::RwLock` until the handler has answered; setting the
password takes the write guard. The scheduler is one more task of the daemon: it
reads the active revision from the same database and uploads it, as the backup
request and `portalisd backup` do.

**What is hard.** An apply is a transaction over three stores without a common
lock: read the draft, validate it, read the active configuration, replace the
table, set the sysctls, mark the revision active. Another handler, another
process, a crash, a client that disconnects, a failed undo or a lost
acknowledgement can come between any two of these. A backup is the same kind of
thing over the database, two settings files and a remote store. The rules decide
by ranges, nested networks and optional matches whether two of them may coexist,
and what the kernel then does is spread over three chains and connection
tracking. The password's lock is held across whole requests. `PROJECT.json` lists every
such hazard at its line with the property that covers it.

**What makes it correct.** Outside an apply the kernel implements the active
revision; what is installed was validated and stays in the history; forwarding
is switched on for what is needed and nothing else; the history only grows; requests end; a
daemon that went down comes back in agreement with its database. A packet is
translated by at most one rule, to the right port, and counted for that rule; SSH
stays reachable. The active revision gets a backup that is not pruned, and a
restored draft is one that was active. A password that was set stays set.

## 2. Modules

| module | what it is |
|---|---|
| `Revisions` | the revisions table as a sequence of rows, and the queries on it |
| `ApplyPipeline` | every handler that moves a configuration, over the database, the table and the sysctls |
| `DriftCheck` | when `status` takes a table for drifted |
| `NftTable` | the nft controller's `apply` as the steps it is, in several processes |
| `AtomicTable` | what `apply` promises: one atomic replacement, to which other processes may add |
| `Rules` | rules, validation, plans (operators, no state) |
| `Datapath` | the rules built from a plan, and what they do with packets while tables change |
| `Backups` | settings, uploads, pruning, records and restores over the buckets |
| `BackupScheduler` | when the daily backup runs |
| `AuthGate` | the password in memory and on disk, the middleware and its lock |
| `MCApplyPipeline`, `MCNftTable`, `MCDatapath`, `MCBackups`, `MCAuthGate` | constants for TLC |
| `SequenceLemmas` | lemmas about removing from and adding to sequences without repetitions |
| `ApplyPipelineProofs` | lemmas about the queries of `Revisions`; the types of `ApplyPipeline` |
| `AgreementProofs`, `HistoryProofs` | theorems about `ApplyPipeline`, among them that it implements `AtomicTable` |
| `NftTableProofs` | theorems about `NftTable`, among them that it implements `AtomicTable` |
| `DatapathProofs` | theorems about `Rules` and `Datapath` |
| `BackupsProofs` | theorems about `Backups` |
| `AuthGateProofs` | theorems about `AuthGate` |

The modules meet at these points: `ApplyPipeline` and `NftTable` both have `apply` of the
controller as a listing and a batch under a mutex per process, use the same `DriftCheck`
and implement the same `AtomicTable`, with as many processes as run (`PipelineIsAtomic`,
`ControllersAreAtomic`): the first with all that handlers, commands and the host do to
the table, the second for threads that call it in any way. `ApplyPipeline`'s `ValidIn`
and `Needs` are `Valid` and `Requires` of `Rules`, and what it assumes of them is a theorem
there (`PipelineAssumption`); `Datapath`'s `Apply` is the validation, the batch and the
request for forwarding of an apply that goes well; `Backups`' `Activate` is `mark_active`,
and its `SaveDraft` is `ApplyPipeline`'s.

Definitions named "Mutant" in a comment are plausible bugs; nothing in the
specifications uses them. They show that a property can fail.

### ApplyPipeline

*Actors* are slots for API requests, CLI processes, and the daemon's main task.
`pc[p]` is the point of its handler an actor has reached and `job[p]` the
handler's locals (the draft's row, its configuration, the `previous`
configuration read for the undo). An action is what a handler does between two
points where something else can run: one section under the database lock, one
reading of the kernel, one batch, one call of `ensure_forwarding`. `List` is what
`nft.apply` does first: it takes the mutex of its process and lists the tables
(`job[p].listed`); the action that sends the batch (`OpenInstall`, `Install`, `Undo`,
`UndoLocked`) follows, and another process may have changed the table in between. Of
the daemon's own actors none can. `status` lists and dumps in one step, which leaves
out that a table may go between the two.

| `pc` | code (API apply) | actions |
|---|---|---|
| `idle` | waiting for a request | `SaveRequest`, `ApplyRequest` (api.rs:335), `RollbackRequest` (api.rs:440) |
| `validate` | api.rs:340 | `Validate` |
| `readPrevious` | api.rs:351 | `ReadPrevious` |
| `reuse` | api.rs:355 | `Reuse` |
| `install` | api.rs:374-381 | `SnapshotFails`, `List`, `Install` |
| `forward` | api.rs:392 | `Forward` |
| `undo` | api.rs:395 | `List`, `Undo` |
| `record` | api.rs:408 | `Record` |
| `undoLocked` | api.rs:411 | `List`, `UndoLocked`: the guard of the mutex is a temporary of the `match`, so the lock is still held |
| `noteError` | api.rs:384, 401 | `NoteError` |
| `saveDraft` | api.rs:308 | `SaveDraft` |
| `down`, `open` ... `openForward` | app.rs:46-69 | `StartDaemon`, `StartCommand`, `OpenRead`, `OpenStatus`, `List`, `OpenInstall`, `OpenForward` |

The CLI runs the same steps (service.rs:175-270); it differs where the code
does: `rollback` does not validate, and no CLI command notes an error on the
draft.

*Data.* A configuration is an atom. What the pipeline can tell of it comes from
constants: `RulesOf` is what `status` compares (how many counter rules there are of each
rule id and protocol: nft.rs:159-181; two configurations may have the same), `Needs` the
families that need forwarding, `ValidIn[s]` what `validate` accepts when `sshd_config` is
`s`. The kernel holds the sequence of configurations whose batches are in the table,
`<<>>` if there is none; two are in it when two processes found no table. A row's position is its
place in the order of `created_at`; this assumes the wall clock does not step
back.

*Failures.* `Faults` switches them on: a failed read or insert, a failed audit
row after the commit, a failed `mark_apply_error`, `status` or snapshot failing, a
batch refused (`reject`) or committed although reported failed (`lostAck`), a
partial `ensure_forwarding` (and, under the same switch, one that succeeds but takes an
unreadable `99-portalis.conf` for an empty one, sysctl.rs:37), a client that disconnects (axum drops the handler,
which can only happen where it awaits the database lock), `crash`, `reboot`,
`kill` of a CLI process, and `external`, another program deleting the table.

*History variables.* `installed` (accepted by the kernel), `sshdSeen`,
`overlapped` (actors whose decision-to-write spans overlapped) and `disturbed`
(what was left in a state that no handler makes good). No action of the code
reads them.

### NftTable

A caller (a handler of the daemon, a command) takes its process's mutex
(nft.rs:77), lists the tables (nft.rs:81) and sends a batch that deletes the
table if it was listed, and adds table, chains and rules (nft.rs:82-123). The
table is the sequence of batches whose rules it holds; `<<>>` is no table. From
the kernel the module assumes that a batch is taken or refused as a whole, that
deleting a missing table refuses it, and that adding an existing table or chain
is no error. `status` and `table_snapshot` only read; of them the drift check
(`Observed`, `Drifted`) is modelled, with the number of forward counter rules
per key.

`AtomicTable` is the promise to the callers, for `Width` processes: the table is
replaced as a whole or left alone, but that each further process may add its batch
to it once (`Merge`). `NftTable` implements it with any number of processes and
callers (checked and proved): within a process the mutex makes listing and sending
one step, and a process that has added a batch sees the table the next time and
replaces it. With one process no `Merge` is possible. With more of them it is optimistic,
and `MergeIsDrift` says
that the difference is reported as drift and so repaired by the next restart or
apply. (The UI's "Apply changes the kernel atomically", main.tsx:1584, is true of
each process for itself.)

### Rules and Datapath

`Rules` is `lib.rs` as operators: a configuration is a sequence of rules, a network a
set of addresses with a base address, ports are `0 .. MaxPort`. The assumptions say that
networks have one family and are nested or disjoint, as CIDR blocks are. An
`sshd_config` is the set of its lines, each a keyword and a value.

`Datapath` holds the plans in the table and the tracked flows. `Translations` are
the prerouting rules of a plan (one per source and port), `Rewriting` its postrouting
rule, `CounterRules` the two forward rules per source, each with the matches that
`nft.rs` adds. `Open(k)` runs the NAT chains for the first packet of a flow, in plan
order, and remembers the outcome, as connection tracking does: `Apply` and
`TableRemoved` change the table and no flow. `required` is the families for which an apply
asked `ensure_forwarding`; that comes after the batch (api.rs:381, 393) and may fail, which
is `ApplyPipeline`'s matter, so `Datapath` says nothing of what the sysctls are. The forward rules match what tracking
remembers of the original packet (`OriginalConntrackField`), which is what
`CountedForItsRule` needs when the table was replaced since.

The model shows three facts about the code that the properties state as they are: a
reply is counted without looking at the interface, so a rule on another interface
counts it too; the postrouting rule matches the target only, so of two rules to one
target the first decides how the source is rewritten; with nested source networks in
one rule an inbound packet is counted once for each.

### Backups and BackupScheduler

A bucket stands for the bucket and prefix of the settings; its objects are a sequence,
the last modified first, each with the revision it is named after, a configuration
and the checksum of its metadata. `Scheduler` and each of `Manual` run
`backup_active_if_new`, `backup` or `restore_backup`:

| `pc` | code | actions |
|---|---|---|
| `idle` | service.rs:108, api.rs:547, 575 | `ReadActive`, `StartRestore` |
| `check` | service.rs:111 | `Check` (the scheduler only) |
| `load`, `secrets` | s3.rs:59 | `LoadProfile`, `LoadSecrets`: two files, read one after the other |
| `put` | s3.rs:126 | `Put`, `PutFails` (the object may be there nevertheless) |
| `list`, `delete` | s3.rs:252, 271 | `List`, `Delete` (one object each), `PruneFails` |
| `record`, `note` | service.rs:121, 132 | `Record`, `Note` |
| `get`, `validate`, `save` | s3.rs:194, api.rs:579, 590 | `Get`, `Validate`, `SaveDraft` |

`SaveProfile` and `SaveSecrets` are the two writes of `save_profile`; `SaveCut` ends a save
between them. An actor may `Stop` anywhere, an object may be damaged. With the
secrets of another bucket every call of the store fails.

Assumptions: `Keep` (ten) is at least the number of backups that run at a time, without
which concurrent prunings may delete an upload that is about to be recorded; uploads are
ordered by their time (`prune_old_backups` compares the text of times of whole
seconds, which more than ten uploads within one second could confuse); every object
was uploaded by Portalis (one without `sha256` metadata would be accepted as it is,
s3.rs:207); one save of the settings at a time. `has_successful_backup` does not ask for the bucket: after a change of the bucket
the active revision is uploaded to the new one only by hand or once another is active.
`BackedUp` says what the code does, that it is recorded as uploaded.

`BackupScheduler` counts hours: the wait is until `BackupHour` of the next day, or zero
where the local clock shows that hour twice or not at all.

### AuthGate

A request arrives, queues for the lock (`ask`), is admitted or refused, and its handler
runs with the read guard (`handler`); `set_password` queues for the write guard
(`ask_write`), writes the file (`write`) and then memory (`store`); `auth_status` and
`status` queue for a second read guard (`ask_read`). The lock is tokio's: first-in
first-out, readers together, a writer alone. A hash stands for its password; the
token's file is there and only read: its creation by the first start is left out, which, cut
short, leaves an empty secret (auth.rs:26-31). `Torn` is a file of which a part was
written: no valid hash, and not the absence of one. A hash file that cannot be read at all
is not modelled either (the code takes it for none, auth.rs:23). `acked` and `disturbed` are history variables.

## 3. What is checked

| run | question | expected |
|---|---|---|
| `apply_faults` | one request at a time, every failure | pass |
| `apply_concurrent` | two requests and a CLI process interleaved, with merged tables, refused batches, failing insert, crash and kill | pass |
| `apply_recovery` | two requests, crashes and reboots, sshd_config changing: what is validated, and liveness | pass |
| `nft_processes` | do the controllers of three processes implement the atomic table, and is a merge noticed? | pass |
| `datapath` | what do the installed rules do with packets, for every accepted pair of rules? | pass |
| `backups` | is the active revision backed up and kept, whatever runs or fails meanwhile? | pass |
| `auth` | does the password stay set and the verdict on a request true, and is every request answered? | pass |
| `drift_report` | does a reported match mean the table is the active revision? | violation |
| `audit_failure` | does "could not persist active revision" mean it was not persisted? | violation |
| `cli_rollback` | is an SSH port always rejected? | violation |
| `scheduler` | does a backup run at 03:00 only? | violation |
| `password_deadlock` | is a request that sets the password answered? | violation |

**Properties.** `Agreement`: when nobody is between reading the active
configuration and its last kernel write, and nothing that no handler makes good
has happened since the last agreement, the table does not differ from the
active revision. `VettedOnly`: everything saved, active or installed passed
validation at some time. `KernelRecorded`: each batch in the table is of a
configuration in the history, also in a table that two processes merged; the merge as a
whole is in no row. `ActiveWasInstalled`, `ForwardingReady`, `ForwardingNeeded` relate
the active revision, the sysctls and what the kernel has accepted.
`HistoryAppendOnly`: a step only appends a row or sets the error flag of the
draft that a request could not apply, whatever was saved since it read it. `AtomicSpec` is
the refinement of `AtomicTable`, of `NftTable` and of `ApplyPipeline`; `MergeIsDrift` says that a merge is
never reported as a match of one of its parts, so that a restart or a repeated apply of
the active draft repairs it. `RequestsFinish` and `Recovery` are the liveness properties
of the pipeline.

Of the datapath: `Unambiguous` (at most one plan translates a packet), `SshReachable`,
`PortsMapped` (the port at the same offset, never beyond the range),
`ForwardingRequired` (within the family, one that forwarding was asked for), `CountedForItsRule` (for its own rule and no
other, replies as often as inbound packets, also after other rules changed),
`RewrittenForItsTarget`, `FreshTableMatches` (no drift right after an apply).

Of the backups: `ActiveKept` (what is recorded as the active revision's backup is not pruned),
`AtMostKept` (ten objects, and those of uploads under way or cut short),
`RestoredWasActive`, and the liveness property `BackedUp`.

Of the password: `StaysSecured` (once set, loopback requests need it, whatever a crash
left), `Durable` (memory and file agree on what was reported), `VerdictStillTrue` (no
password changes under a running handler, which is what the guard is for), and the
liveness property `Answered`.

**What the violations show.**
- `drift_report`: two overlapping applies of drafts with the same rule ids. The
  table is the first's, the active revision the second's; `status` compares ids
  and counts, so the UI says "Matches active revision" and neither a restart nor
  an apply of the same draft repairs it.
- `audit_failure`: `mark_active` commits the row and then fails to write its
  audit entry. The handler undoes the kernel and reports that nothing was
  persisted; the revision is active.
- `cli_rollback`: the CLI's rollback never validates, so it installs a revision
  that takes a port sshd has moved to.
- `scheduler`: in a zone whose clock changes at 03:00 (Eastern European Time), on the day
  before the change `single()` finds no time or two, and the wait is zero. The loop runs
  without sleeping from 03:00 to midnight; while backups fail each turn inserts a row.
- `password_deadlock`: `authenticate` holds its read guard while `set_password` waits for
  the write guard, so the request waits for itself. Requests that come later queue
  behind it until its client gives up (`Answered` needs that assumption). It works with
  `--allow-unauthenticated`, where no guard is taken, and with `--web-password`.

**Bounds.** `MaxRevisions` counts the rows and the pending inserts. Four rows
hold a draft, its activation, a second draft and its activation: an undo, a
rollback and a reuse each need no more. With three actors three rows still give
a rollback of a draft, an apply that overlaps it and a CLI restore in between.
One outage shows what a crash at each point leaves; two, in `apply_recovery`, a
crash during recovery. Three configurations are the empty one, one that needs
IPv4 and one that needs both families, so that partial failures of the sysctls
differ; `NftTable` needs no bound: `nft_processes` has three processes, one of
them with two threads, so that both the mutex and its absence matter, and two
configurations that share a rule id. `datapath` has seven ports, of which ranges of
one to three meet, touch and miss each other, the last is `MaxPort` and one is SSH's; fourteen rules that
differ from one another in one or two fields, taken alone and in all ordered pairs; packets from
inside and outside the narrower of two networks, on two interfaces, to two
addresses of the host and in both families. One flow at a time is enough, since flows do
not affect each other. `backups` keeps two objects instead of ten, so three revisions
make pruning delete, with two actors (no more than `Keep`), two buckets and one save of
settings between them, and one fault. `auth` has three requests, one to hold the
lock, one to wait for it and one behind, two passwords and a fault; `scheduler` four days. Two sshd states differ in
whether one of them is valid. Deadlock is checked except in the runs of `ApplyPipeline`, where
the system may rest and at the bounds has to, and in `scheduler`, which ends with its
last day.

**Fairness.** Tokio keeps polling a ready handler, and its mutex hands the lock
over first-in first-out, so a request waiting for the database gets it: strong
fairness of a request's own steps. CLI processes and the starting daemon keep
running (weak fairness); the unit has `Restart=on-failure`, so a daemon that
went down starts again (weak fairness of `StartDaemon`). Nobody has to send a
request, and no failure has to happen. An operator's `systemctl stop` is not an
outage in this sense and is not modelled. In `Backups` the scheduler's own steps are
weakly fair: its loop comes round every day for as long as the daemon runs. In
`AuthGate` each request's own steps are weakly fair, which with the lock's queue is
enough; `Patience` adds that the client of a password request disconnects in the
end, which `Answered` needs and `PasswordAnswered` is checked without.

## 4. What is proved

All theorems hold for any number of requests, commands, callers, processes, buckets and
configurations, any sshd states, addresses, networks and port width, and any set of
failures; they assume only the named `ASSUME`s of the modules (the constants have their
types, the empty configuration is valid and one with an empty plan needs no
forwarding, networks are nested or disjoint, and no more backups run at a time than
objects are kept).

**Applying.** `ApplyPipeline`:

- `TypeCorrect`: `Spec => []TypeOK`.
- `AgreementHolds`. `Agreement` is not inductive: it speaks of settled states only.
  `AgreementInv` adds what each actor at work relies on: an actor nobody overlapped
  is the only one at work, its `previous` or `goal` is still the active
  configuration, and what the kernel holds is what its location says. Lemmas
  `LeaveStep`, `BeginStep`, `WorkStep` and `QuietStep` give the four ways a step
  can affect that, so the case per action only says which one it is.
  `ListedInv` (`ListedHolds`: one actor of a process between its listing and its
  batch) says that what an actor which nobody overlapped has listed is still so.
- `VettedHolds`, `KernelRecordedHolds`, `HistoryAppendOnlyHolds`: lemmas first
  summarise how a step changes the revisions (`RowsSteps`), the kernel (`KernelSteps`)
  and an actor's locals (`LocalsSteps`); the invariants about configurations held
  in locals (`VettedInv`, `RecordedInv`, `DraftInv`) follow from the summaries.
- `ActiveWasInstalledHolds`, `ForwardingNeededHolds`, `ForwardingReadyHolds`: the
  same with `InstalledInv` and `ForwardingInv`, which say what an actor at each
  location has already installed and enabled.
- `PipelineIsAtomic`: `Spec => AtomicSpec`, for any number of requests and of commands
  (finitely many), so with the width `Cardinality(Processes)`. `MergeInv` counts the batches
  in the table together with the processes that have listed no table and not sent yet, as
  in `NftTableProofs`; `CommitFits` is its step.

**The nft table.** `NftTable`:

- `ControllersAreAtomic`: `Spec => AtomicSpec`, for any callers and processes. `LockInv`
  gives one caller of a process between lock and batch; `MergeInv` counts the batches in
  the table together with the processes that are about to add one without deleting
  (`MergeBoundedHolds`); each step then maps to `Replace`, `Merge`, `Remove` or a stutter.
- `MergeIsDriftHolds`: the rules of a key in a merge are a disjoint union, so they are more
  than those of any part as soon as another part has some.

**The rules.** `Rules` and `Datapath`:

- All properties of the run `datapath`. `TableInv` says that the table is the
  plan of a valid configuration (`TableCorrect`), from which lemmas about `Valid` give
  what two plans cannot have in common; nested networks that share an address have one
  base in the other, which is why looking at the bases is enough for
  `SourcesOverlap`. `FlowInv` says of each flow that its plan did translate it.
- `OverlapExact`: two valid rules overlap in the sense of `validate` exactly if some packet
  is translated by both. One direction is what `Unambiguous` rests on; the other says that
  nothing is rejected without need. Its proof builds the packet: the later of the two
  first ports, the base of the smaller network, the address and the interface that
  either rule names. Validity is needed: with a family that does not fit, rules may
  overlap that no packet reaches. The host is assumed to have an interface.
- `SourceDetermined` and `SomeRuleDecides`: the order of the plans is strict and total
  (`OrderTotal`) and any of them have a first one (`FirstExists`, from the library's theorem
  on minimal elements of well-founded relations), so exactly one of the
  postrouting rules that match a flow decides, and no packet that some rule matches is
  left without the first that does: in `Datapath` a new flow is never stuck.
- `PipelineAssumption`: `ConfigAssumption` of `ApplyPipeline`, for `Valid`, `Requires` and the
  keys that `status` compares.

**Backups.** Lemma `Steps` describes what a step does for one actor (begins, prepares,
uploads, lists, deletes, finishes, restores), and the invariants are proved of these.

- `TypeCorrect`, from `BackupsInv`: the types, what an actor's
  locals hold at its location, and that the objects of a bucket have different names, those
  of revisions that were active, and their checksums. `SequenceLemmas` says what an upload
  (which moves its name to the front) and a deletion leave of a bucket.
- `RestoredWasActiveHolds`, from `RestoredInv`: after `Get` the configuration is that of the
  checksum, which is a revision's.
- `ActiveKeptHolds`. `ActiveKept` is not inductive, since a pruning deletes by a list that
  it read some time ago. `KeptInv` adds that no list of names to delete has the
  active revision in it (`DoomedOlder`), because its object is among the first
  (`HighEnough`): it is pushed down once by each upload of an older revision that is under
  way (`Behind`), and its place and the number of these are together at most the number of
  actors, so at most `Keep`. A revision that becomes active has no object yet.
- `AtMostKeptHolds`. The bound on a bucket's length is not inductive either, because prunings
  overlap: two may have listed the same name, and one that fails leaves what it would have
  deleted. `PrunedInv` says it for every choice of prunings that go on to the end: what
  these leave is at most what is kept, plus the failures, the uploads that have not listed
  yet and the prunings not chosen. With none chosen this is `AtMostKept`.

**The password.** `AuthGate`:

- `StaysSecured`, `Durable` and `VerdictStillTrue`, from `AuthInv`, which
  relates memory, file, history variables and where the holder of the write guard is, and
  says that nobody reads while somebody writes.
- `TypeCorrect`, with three more invariants: a request is in the queue once and exactly
  while it asks (`Queued`), a guard is held by a request that was admitted (`Guarded`), and
  the flags (`Marked`).
- `NeverSetHolds` is the cause of `password_deadlock`: under authentication no request ever
  gets to write the password. It is set only with `--allow-unauthenticated` or at start-up.

Only model-checked: the liveness properties (`RequestsFinish`, `Recovery`, `BackedUp`,
`Answered`), which rest on fairness, and the next run of `BackupScheduler`, which is about
its violation. Every invariant and action property of a passing run is a theorem.

## 5. Not modelled

Route warnings, the export of the configuration and the snapshot
files are written for people and read by no code. The web client is a
React program outside the daemon; the models take its requests as they come, in any
order, and its own hazards (edits overwritten by a late answer, refreshes out of order,
one prompt for several refused requests) are listed and not covered. Netlink framing,
compression and the row codec are conversions no property here is about. The order of
rows is their position: `created_at` after the clock steps back is not modelled.
The audit log appears only as a write that can fail. Known and left out of the
properties: with no active revision, a crash in the very first apply leaves its
table in the kernel, since `open` restores only what is active; a start-up that
finds its table in place and the reuse path never look at the sysctls again; an undone apply
leaves the forwarding it enabled.

## 6. Plan

Done: the daemon's components and their theorems, as listed in section 2. Left:

1. A module for the web client's draft editor (edits, saves and refreshes answered out of
   order) and one for its session (one password prompt, late 401s), against the handlers of
   `ApplyPipeline` and `AuthGate`.
2. Timestamps instead of positions in `Revisions`, refining it while the clock is monotone.
3. `Agreement` for overlapping runs too: which of the configurations the table and the
   active row can be left with, as the merges of `AtomicTable` and the races of
   `drift_report` allow.
