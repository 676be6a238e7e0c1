# Verification of slimventory (SLIM)

TLA+ models of the parts of SLIM in which several actors share state: the automation runs of the backend and the
`ansible-runner` sidecar that executes them, backups, the Proxmox sync, the layers of inventory variables, and the
pages of the browser, where what an admin does overlaps with requests, answers and cached data. TLC checks the
models on small instances; TLAPS proves the safety results for every value of the constants.

Paths are relative to the repository's root; `main.py` alone is `ansible-runner/main.py`, `playbook_runs.py` is
`backend/app/routers/playbook_runs.py`, the services are in `backend/app/services/`, pages and components in
`frontend/src/`.

## 1. The system

SLIM is a homelab inventory: a FastAPI backend over MySQL, a React single-page application, and a sidecar
container that runs `ansible-playbook`. The backend is one uvicorn process: `async def` handlers and background
tasks are coroutines on its event loop, `def` handlers run in a thread pool, and APScheduler runs cron jobs in
threads of its own. All of them share the database, each with a session of its own.

| Component | State | Operations | Interacts with | What is hard | What makes it correct |
|---|---|---|---|---|---|
| Automation runs (`routers/playbook_runs.py`, `services/playbook_execution.py`, `services/ansible_runner.py`) | the row of `playbook_runs`: status, output, exit code, sidecar job id | create, `execute_run`, SSE stream, recovery on list and get, cancel | sidecar (HTTP), browser (SSE), scheduler, git, notifications | five kinds of writers of one row, awaits between check and write, lost and late requests, restarts of either side | success is only shown for a playbook that exited with 0; a run is launched at most once; every run settles; what nobody watches is stored in order and not twice |
| ansible-runner sidecar (`main.py`) | `_jobs` under `_jobs_lock`, fields of `Job` outside it, temporary files, processes | start, status, output, cancel, waiter thread, retention thread | backend (HTTP), ansible-playbook | unlocked fields, a file read before a flag, two threads that remove a job, crashes | replies agree with what the process did; a job that is gone stays gone; no process escapes; files are removed |
| Job-template scheduler (`services/scheduler.py`) | APScheduler's jobs, `job_template_schedules` | reload all, run one | runs, git | a reload is a remove-all then add-all without a lock | an enabled schedule is loaded, a disabled one is not |
| Backup, restore, retention (`services/backup.py`) | `_backup_lock`, `app_backup_history`, files | back up, restore, prune, delete, download | mysqldump, mysql, the database that holds its own history | a restore rolls back the history but not the files; lock taken outside `try` | one operation at a time; a completed row has a whole file |
| Proxmox sync (`services/proxmox.py`) | `_sync_lock`, hosts, `proxmox_pending_hosts` | sync, promote, dismiss, update | Proxmox API, scheduler, notifications | one long transaction beside the admin's requests | one sync at a time; a VM is either a host or pending |
| Git repositories (`services/git_service.py`) | a checkout per repository, `ansible_playbooks` | sync, import | git, runs (same checkout) | no lock around fetch, checkout, reset | the playbooks listed are those of one commit |
| Job templates, preview cache (`services/job_template_preview.py`) | cached preview with fingerprints | preview, invalidate | inventory builder, git | a cache that is stale when used | a current preview is what would run |
| AI Ops (`services/ai.py`, `routers/ai.py`) | conversations, pending actions | chat, confirm, execute | providers, inventory, runs | an action confirmed late or twice | nothing runs without a confirmation |
| Monitoring and secret mappings | settings, mappings | query, resolve | Prometheus, Grafana, Bitwarden | pure I/O | |
| UniFi | observations | sync, match | controller | matching by MAC | |
| Inventory CRUD, role matrix, builder, explorer | hosts, roles, apps, fields | CRUD, bulk assignment, build | database | precedence of variables | |
| IPAM, inventory health | none | reports | database | address arithmetic | |
| Auth, rate limit, field encryption, audit, notifications | users, audit log, channels | login, per-request insert, dispatch | libraries | best effort | |
| Query cache (`App.tsx`, react-query) | an entry per query: data, stale, a fetch in flight | mount, invalidate, refetch, deliver | backend, all pages | an answer is old when it comes; an invalidation during a first fetch is not sent again | a page shows what it has written |
| AI chat (`AssistantPanel.tsx`, `api/ai.ts`) | one reply, run and spinner per panel, a stream per question | send, stream, create, delete, leave, return | backend, cache | streams outlive their panel and their conversation | what is shown is of the last question; the spinner ends |
| Record dialogs (`CrudPage.tsx` and 25 more pages) | one form per page, one save in flight | create, edit, clone, quick create, delete, bulk | backend, cache | answers come after the dialog has gone on to another record | what is typed for a record is stored in no other |
| Field editors (13 of them) | a draft made from a query | type, save, previous, next | backend, cache | a draft is older than what it is sent over | nothing erased unseen, nothing saved elsewhere |
| Live output (`PlaybookRunOutput.tsx`, `PlaybookRunsPage.tsx`) | output, badge, live light | open, stream, re-stream, close | SSE endpoint | an `EventSource` reconnects by itself and is sent everything again | an end that is shown is the run's own |
| Matrix and explorer (`RoleMatrixPage.tsx`, `InventoryHostVarsPanel.tsx`) | the toggles and the panel's payload | toggle, override, reset | builder, explorer | a payload that is old when it is saved; the layers exist twice | shown, saved and exported values agree |
| Dashboards, wizards, hierarchy, layout, themes | what the queries hold | show, import | backend | | |

## 2. Modules

```
RunnerContract ---- extended by ---> PlaybookRuns -+-> PlaybookRunsProofs
      ^                                            +-> MCPlaybookRuns
      +--- implemented by --- AnsibleRunner ---> AnsibleRunnerProofs

Backup ---> BackupProofs            ProxmoxSync ----+-> InventoryProofs
                                    InventoryVars --+
                                          +-> MCInventoryVars

QueryCache -+-> AssistantChat ---> AssistantChatProofs
            +-> FieldEditors ----> FieldEditorsProofs
            +-> RecordDialogs ---> RecordDialogsProofs
LiveViewer ---> LiveViewerProofs
```

- **RunnerContract** is the abstract specification: what a client may rely on when it polls the sidecar. A job is
  named (`Register`) after its process exists (`Launch`), is recorded as ended (`Record`), and leaves the registry
  once (`Withdraw`); a poll is a lookup under the lock followed by an answer without it (`Lookup`, `Reply`). What
  a reply may say (`FieldsFit`, `ReplyWith`) is deliberately weak: text can be shorter than the file, and a handle
  that outlives the registration may see the fields of a cancellation.
- **AnsibleRunner** is the sidecar with its threads: `POST /run` step by step with every error exit, the waiter
  (`WaiterCodes`, `WaiterFlags`), the retention thread (`ReaperPops`, `ReaperUnlinks`), a cancellation
  (`CancelPops`, `CancelTerminates`, `CancelCodes`, `CancelUnlinks`), the reader (`PollLooks`, `PollReads`,
  `PollReadsStatus`, `PollReadsCode`), and a crash of the container. Sections under `_jobs_lock` are one step,
  except the waiter's two assignments (main.py:99-100), because readers do not take the lock. `Contract` is the
  contract under the refinement mapping `entryOf`, `pollOf`; `ImplementsContract` is checked and proved.
- **PlaybookRuns** is the backend composed with the contract. Each action is a stretch of code between two awaits,
  or between two transactions where threads can come in between:

  | Actor | Code | Actions |
  |---|---|---|
  | `execute_run` | playbook_execution.py:59-220 | `ExecBegins` ... `ExecRetries` |
  | SSE viewer | playbook_runs.py:149-249 | `ViewerOpens` ... `ViewerRetries` |
  | recovery | playbook_runs.py:48-81 | `CheckerLoads`, `CheckerProbes`, `CheckerHears`, `CheckerCommits` |
  | cancellation | playbook_runs.py:252-267 | `CancelPending`, `CancelSends`, `CancelArrives`, `CancelLost`, `CancelCommits` |
  | sidecar | contract | `SidecarLaunches`, `SidecarAnswers`, `SidecarRefuses`, `JobRuns`, `SidecarReplies` |
  | faults | | `ExecTimesOut`, `PollFails`, `SidecarCrashes`, `BackendCrashes` |

  `home` says whether a run's `execute_run` is on the event loop (a request) or in a scheduler thread. It never
  awaits while it prepares (playbook_execution.py:61-157, the git pull of line 130 included), so on the event loop
  it stops every other coroutine: `LoopFree`, `MayRun`.
- **Backup** is the backups with everything that shares their lock, their table or their files: a backup
  (`TriggerInserts` or `ScheduleFires`, then `BackupLocks` ... `BackupReleases`) with its retention
  (`RetentionLoads` ... `RetentionCommits`) and its failure path (`FailureCommits`, `FailureCleans`), a restore
  (`RestoreChecks` ... `RestoreEnds`), a deletion without a lock (`DeleteLoads`, `DeleteUnlinks`, `DeleteCommits`)
  and a restart. `dump` is the history that a file holds, and `RestoreLoadsHistory` brings it back, ids included.
  The lock is a flag without an owner, as `threading.Lock` is, so `RestoreLeaks` can leave it taken.
- **ProxmoxSync** is a sync as one transaction: `SyncBegins` takes the snapshot of hosts and entries, `SyncTakes`
  deals with one report, and `SyncSucceeds` writes what follows from the *snapshot* (`Drops`, `Queues`, `Requeues`,
  `Refreshes`, `Creates`) into a table that admins have changed meanwhile, unless a row it inserts exists or one it
  updates is gone (`Conflicts`). Only a new host is flushed before the commit, and blocks who inserts the same id
  (`Flushed`). Admins promote, dismiss, recycle, create and delete in short transactions.
- **QueryCache** is one entry of react-query's cache as the pages use it: operators on a record, no state of its own.
  A fetch takes three steps, so that its answer can grow old on the way.
- **AssistantChat** is the chat panel beside `routers/ai.py`: `Send` (handleSend), `CreationAnswered`, `CreationEnds`
  and `CreationFails` (the conversation that it awaits), `Arrives` ... `Completes` and `Breaks` (stream_chat),
  `Receives`, `RefreshesAgain` and `CatchesError` (the events), deletions, the list and the details, `Leave` and
  `Return`. A stream knows whether its handlers still belong to the panel on the screen (`mine`).
- **FieldEditors** is all editors that copy a query into a draft: an editor is a record of how it takes data, what
  Save sends without any, what it does with secrets and after a save, and whether it goes on to the next record. The
  thirteen records are read off thirteen components; the actions (`Opens`, `Moves`, `Types`, `Saves`, `SaveArrives`,
  `SaveEnds`, ...) are one. TLC explores all of them, as `Init` chooses one. A file to import is read in a callback
  (`ChoosesFile`, `FileIsRead`), and its text goes to whichever record is on the screen by then.
- **RecordDialogs** does the same for 26 pages with a table and a dialog: what they offer, which fields Edit fills,
  when the form is emptied, what a blank secret does, whether a second request follows. A save that changes nothing
  leaves the row as it was (`Saved`), so that the effect that reads a template's schedule does not run when it is
  opened again (`EffectRuns`).
- **LiveViewer** is the drawer of a run with the row behind it: `execute_run` and the drawer's own SSE stream both read
  the job and append to the row, and stop at the reply that says *done*, which may lack the last output. `GoesOn` is a launch that is answered while another run is in the drawer, `StreamDrops`
  a connection that the browser makes again.
- **InventoryVars** is one variable of one host: thirteen layers (`ExportLayers` for `_build_ansible_inventory`,
  `ExplorerLayers` for `_build_inventory_explorer_payload`), the target that a save is given (`TargetOf`), the check
  and the commit of a save in separate steps, and beside it the role matrix, the host form, apps and role fields.
  The code walks the layers and keeps what is in force so far; the model says which layer has the last word when the
  walk is over (`Decides`): the last one that assigns or, if none does, the first one that fills what is missing.
  **MCInventoryVars** names the sets of declarations that its runs start from, **MCPlaybookRuns** the symmetry of jobs.
- ***Proofs** modules hold the theorems.

Operators marked `Wrong:` are not part of the model. Each is a plausible mistake in the definition that follows it,
kept to show that a property notices it; `PROJECT.json` pairs each with the property.

### Abstractions

- Output is a sequence of numbered pieces, an exit code is `ok` or `bad`, 0 in a row's output is a message of the
  backend's own or a character that decoding replaced. A poll may cut a character in two: the end of its chunk is
  then replaced, and as the replacement takes no less room than what it stands for, the next poll may begin too
  late and miss what comes between (`Passed`). How much that is is left open, up to all that is left to come.
- A run has one DELETE request at a time. Two that overlap, and a DELETE that the sidecar still gets after the
  backend has given it up, are not modelled.
- A read-change-commit block on a row without I/O inside is one step, so lost updates between two such blocks are
  not modelled, except for recovery, which loads, probes the sidecar and commits in three steps, with the columns
  that SQLAlchemy finds changed.
- There is no clock. The retention time of a job (300 s), the 15 s after which recovery gives up a run and the 20
  looks of a viewer may be over at any moment: more behaviours than the code has, so what holds here holds there.
- Each viewer is one request; a browser that opens the stream again is another viewer. Rows are not deleted.
- The exit code in a reply that is not done is not modelled: neither client looks at it.
- `Emit` and `Exit` are `ansible-playbook`, which is not part of the repository.
- Backup: `retention_count` is a constant. Files are numbered in the order of their backups; that two backups within
  one second would have one name is not modelled. Downloads only read. The database does not fail on its own;
  tools, the disk and the container do, `MaxFaults` times. A `mysql` that fails ends with its failure: when a file
  cannot be decrypted to its end (backup.py:256) the code releases the lock without waiting for the process, and what
  `mysql` goes on to do with what it was sent is not modelled.
  `RestoreLoadsHistory` waits for the transactions of deletions (`TableIsFree`), as DROP TABLE does in MySQL.
- The browser: a text is a number and the record it was typed for, so that a text in a wrong place is seen. One tab
  with one page of each kind; other tabs and admins are `OthersWrite`, `OthersDelete` and `DeletedElsewhere`. What
  react-query does is modelled from how the pages use it, with the defaults of `App.tsx:49-51`; that it refetches
  when the window is focused is `Refocuses` in FieldEditors and a faster answer elsewhere. Searching, sorting and
  validation have no state that is modelled, and leaving a page is only modelled for the chat and the drawer. One file
  is being imported at a time.
- AssistantChat: one piece stands for any number, the manager hands a question to one specialist, a draft is typed
  whenever something is to be sent. Each question may wait for a conversation of its own, and beside them one click on
  New is in flight at a time. Tools other than a run, confirmations and vault passwords are left out.
- InventoryVars: what one request reads is one snapshot; one variable of one host. A toggle names a priority
  (`Explicit`, role_matrix.py:88) or leaves it to the backend; what the other forms write is numbered from 1. Encryption and the types of values are left out. Overrides of a role that a host
  has lost stay in force and cannot be reset from the explorer, as in the code.
- The save of `HostTypeRoles` may succeed in FieldEditors, as the page expects; see section 6.
- ProxmoxSync: what Proxmox says about a VM is not kept, credentials that cannot be reached report nothing. A sync
  that is refused and a request that is answered with an error at once are stutters. An id of a node stands for the
  host id that an admin has given its entry. Hosts of nodes are not recycled. An entry can be promoted when it is
  pending: the fields that it needs are edited in between.

## 3. Runs

| Run | Instance | States | Shows |
|---|---|---|---|
| `runner` | 1 job, 1 client, 2 pieces, 1 crash | 78 k | no runaway process, the refinement, and that files and processes go away |
| `runs` | 1 run, 1 viewer, 2 jobs, 1 piece of output, 2 faults | 1.7 M | success is real, notifications tell the truth, at most one launch, a job that is gone stays gone |
| `runs_live` | 1 run, 1 checker, 1 piece, 1 fault | 703 k | recovery only condemns what is gone; every run settles; the output of a run that nobody watches is in order and not twice, and has no gap until a message or a replaced character is in it |
| `runs_cancel` | 1 run | | **violated** `CancelledNeverStarts` |
| `backup` | 2 workers, 1 restorer, 1 deleter, retention 1, 2 files, 1 fault | 239 k | one operation at a time, completed backups are whole, failed ones are cleaned up, the history is bounded, operations end |
| `proxmox` | 1 VM, 1 node, 2 credentials, 2 syncs, 2 admins, 1 fault | 1.9 M | one sync at a time, snapshots hold, decisions stand, no VM is lost |
| `chat` | 2 conversations, 2 questions, 1 incident, popup | 396 k | run, reply and spinner are those of the last question; a complete answer shows |
| `editors` | 13 editors, 2 records, 2 saves, 2 texts, 3 incidents | 847 k | nothing but an imported file saved over another record, nothing erased unseen, no draft behind its own save, typing survives |
| `dialogs` | 26 pages, 2 records, 2 texts, 2 incidents | 364 k | what is typed for a record is stored in no other; the table shows what the page has written |
| `viewer` | 2 runs, 1 piece, 1 incident | 831 k | an end that is shown is the run's own, and all the output is there unless a poll has lost some (`lossy`); the light goes out |
| `hostvars` | 5 sets of declarations, 2 statuses, 2 roles, 1 app, 2 overlapping toggles that may name the priority 0, 4 writes | 279 k | explorer and export agree unless 0 puts roles in another order, accepted saves are in force, refusals have a reason, priorities follow the order of adding |
| `hostvars_precedence` | 1 set of declarations | | **violated** `LaterLayerWins` |

Why the bounds are enough. Runs share nothing but the event loop and the sidecar. `runs` has every pair of actors
around one run but for recovery, which is in `runs_live`; a viewer and a recovery at the same time are in no run, and
in the proofs for any number of both. Two jobs are needed only where a second launch could happen; their ids are
random, and `SameJobs` makes them symmetric. One piece of output is enough to be appended twice, to be cut or to be
missed, two to be read in part (`runner`). `runs_live` was also checked with two pieces for its invariants (5.2 M
states) and without output and with two faults for its liveness (93 k); `viewer` with two incidents for its invariant
(6.0 M) and without output and with three for its liveness (50 k): neither that a run settles nor the light depends on
what is printed. A fault is a crash of either side or one lost request at any point. The proofs cover any number of
all of these.

Backup: two files are what retention 1 needs to delete one; a restore can bring back either history, and the
placeholder row of `POST /trigger` (`MaxId`) makes ids differ from files. Two workers, or a worker and a restorer,
are every pair that competes for the lock. ProxmoxSync: a VM and a node are the two kinds of keys, and keys only meet
in that one sync fails as a whole, which `SyncFails` covers for any reason; two credentials can report the VM twice,
two admins can disagree about it, and two syncs compete for the lock.

The browser: what goes wrong needs a record and the next one, an answer of the first while the second is on the
screen, and one thing that fails or is left: two of each and one to three incidents. An incident is a click that the
property does not need, a failure, or somebody else's write, `MaxIncidents` in all. RecordDialogs was also checked
with three incidents (10.4 M states, beyond the time of a regular run), FieldEditors with three texts (8.7 M states), and `HostVars` alone with five incidents: only then is it closed and opened again while the answer of another
host is on its way. In `chat` the popup is the larger instance:
it has all that the page has, and the view of a run besides, although it deletes only the selected conversation.

InventoryVars: two owners are what a layer needs to have an order, and the five sets of declarations let each kind of
owner meet another in its own layer and in a later one. Two toggles overlap in all ways; four writes are a role given,
another, a save, and a change between its check and its commit. The priority 0 is the one that the export takes for
another; any integer may be named in the proofs. The two toggles are symmetric: nothing tells one from the other.

`CHECK_DEADLOCK FALSE` where a bounded number of runs, questions, saves or writes ends and then nothing is left to do;
in Backup also when no file may be named any more (`MaxFiles`) and a crash or a leak has left the lock taken.

### Fairness

- `AnsibleRunner!FairSpec`: threads are scheduled, and a process that was sent SIGTERM ends. No fairness for a
  playbook that nobody cancels, for crashes, or for DELETE requests.
- `PlaybookRuns!FairSpec`: coroutines, the sidecar's threads and requests in progress go on; a playbook comes to an
  end and its job is forgotten after the retention time. A coroutine that polls for ever is weakly fair as a whole,
  not action by action. Recovery only happens when somebody lists the runs: the page refetches every five seconds
  (PlaybookRunsPage.tsx:65), hence `SF(CheckerLoads)`, strong because the row alternates between states in which a
  list request finds something to check. No fairness for viewers, cancellations or faults.
- `AssistantChat!FairSpec`: requests are answered, responses are read and their handlers go on. Nothing for clicks,
  departures or failures.
- `LiveViewer!FairSpec`: `execute_run` and the stream go on, and a playbook that runs comes to an end: `SF(Exits)`,
  because a weakly fair `RunStep` is also satisfied by output alone.
- `Backup!FairSpec`: threads go on. `SF(RestoreLoadsHistory)`: DROP TABLE is enabled again and again between
  deletions, and in MySQL a waiting exclusive metadata lock keeps new readers out, so it gets its turn.
  No fairness for requests, schedules or faults.

## 4. Proofs

TLAPS proves, for any finite or infinite sets of jobs, clients, runs and other actors and any bounds:

| Module | Theorems | Argument |
|---|---|---|
| PlaybookRunsProofs, of the contract | `ContractInvariant`, `GoneStaysGone` | `ContractInv`: a named job has a process, a recorded one has ended, and what an open poll was told stays true |
| AnsibleRunnerProofs | `IInvariant`, `Typed`, `TruthfulFields`, `OutputKept`, `NoneRunsAway`, `Implementation` | `IInv` adds to the properties how the phase of the request, the process, the registry entry and the owner threads of one job hang together (`JobInv`) and what a poll in progress has read (`PollInv`); no property is inductive alone: `FieldsTruthful` needs that a waiter which has coded holds the lock |
| PlaybookRunsProofs | `BackendMeetsContract`, `RunsInvariant`, `RunsTyped`, `SuccessesAreReal`, `LaunchedAtMostOnce`, `OnlyGoneIsCondemned`, `NotificationsAreReal`, `UnwatchedOutputsArePrefixes` | every step of the backend is a step of the contract, so `ContractInv` holds in the composition; `RunsInv` adds for each actor which job its poll is about; `SuccessIsReal` then follows because a row's job id never changes and a reply with code 0 is truthful. `OutputInv` is about a run without viewers: what it has stored is in order, holds nothing twice and does not go beyond where `execute_run` reads next, nor does any copy that a recovery holds; and as long as only the playbook's own text is in it, there are as many pieces as have been read, so that nothing is missing |
| BackupProofs | `BackupInvariant`, `BackupTyped`, `OneOperationAtATime`, `CompletedAreWhole`, `FailedAreCleanedUp`, `HistoryStaysBounded` | `BackupInv`: who is in a section holds the lock (`LockInv`). `CompletedIsWhole` is not inductive, because a restore brings rows back: `RowsInv` says of every dump what it says of the history, that both only name files begun so far, that a file being written is in neither as completed, and that a worker's row is its own although ids come back. `FailedInv` says the same of failed rows: as long as nothing crashed, the files they name are gone, in the history and in every dump, or are about to be removed. For the bound, a row is counted by the newer ones: files are distinct, so the rows that fewer than `Retention` newer ones outlive are at most `Retention`, and a backup between its commit and its retention, or one whose retention a crash has skipped, adds one |
| InventoryProofs, of ProxmoxSync | `SyncInvariant`, `SyncTyped`, `OneSyncAtATime`, `SnapshotsHold`, `DecisionsAreKept`, `SyncedAreKnown` | `SyncInv`: only a committing sync removes an entry or makes it pending again, and with `OneSync` no other one is then at work on a snapshot; the two action properties follow from `SnapshotHolds` and `Conflicts` |
| InventoryProofs, of InventoryVars | `VarsInvariant`, `ExplorerShowsExport`, `RolesInOrder`, `SavesAreInForce`, `RefusalsHaveAReason` | `ShownIsExported` needs of the state only that it is typed (`TypedAlike`): layer by layer the two lists hold the same rows (`LayersAlike`) and, where no priority of 0 stands beside one of 1 to 100, in the same order, so the same layer decides, and one only (`DecidersAlike`, `OneDecides`); where the explorer sorts rows that the export does not, it leaves one of those that the export may leave. `PanelSave` is inductive: a panel, a save and an answer that no write has made old agree with what would be composed now. With it a save that is read is for the row in force, so at its commit either that row is an override, and no layer changes, or nothing is overridden and the one row written decides (`CommitInForce`); and a save that is refused differs in its owner, because its target cannot differ unless rows tie. `OrderInv`: the noted pairs, of a role numbered by the backend and one that the host had then, are of roles that the host has, and no role is above the top that a fresh request of the matrix read |
| AssistantChatProofs | `ChatInvariant`, `RunShown`, `ReplyShown`, `SpinnerEnds` | `StreamsInv`: a stream whose handlers belong to the panel is that of the last question and has not ended; `PanelInv`: while the button spins there is one. `WireOK` says what is still to be read: a response that has ended does so with an event that stops the spinner, and announces only runs that were started |
| FieldEditorsProofs | `EditorsInvariant`, `NothingSavedElsewhere`, `NothingErased`, `TypingIsSafe`, `SavesAreShown` | `Fits`: a text fits its record wherever it is on the way from the backend to the cache, the draft, a save and back, although the editor moves on, unless the record was on the screen when a file chosen for another one had been read (`strayed`); `VersionsInv`, that no two saves write one version, is what `TypingIsSafe` needs of the runner's form, which puts answers in the draft. `SeenInv`, for `NotBehindOwnSave`: of a record that is not excused, an answer on its way, data that are not stale and data that the next opening takes are no older than its last save; a save of it that is on its way is the editor's own and writes what is shown; and an editor that follows its data shows the text that they have |
| RecordDialogsProofs | `DialogsInvariant`, `TextsGoHome`, `ExtrasGoHome`, `WritesAreListed` | `IInv`, three ways through the page. `FormsInv`: a text fits the record that it is going to, in the table, its answers, the form and a save, and what a dialog has asked for is for the dialog that is open, unless it was crossed. `ExtraInv`: the same of the extra thing, whose fetches and second request take their own way past the dialogs, as long as none of the two exceptions has happened: a form that shows no schedule because its effect has not run is saved (`reopened`), or is not there (`unset`); a record that is gone may be shown the old one, so fitting is "its own, or the record is dead for ever". `ListInv`: a noted write is pending, or no newer than the answer on its way and the data that are not stale. `StoredStep` is the one lemma about all the actions that write |
| LiveViewerProofs | `ViewerInvariant`, `EndsAreOfTheRunShown` | `RowOK`: a row with an end agrees with its job and, unless it is `lossy`, has all its output; `StreamOK`: a live stream has put what it read in the row and on the screen, unless the run is lossy; `Keeps`: nothing is printed after the end, and what is lossy stays so. Together they carry completeness from one reader of the job to what the other one shows, and say that it is lost in two ways only: a reply cut in a character, or a reply that says done and was read before the last output |

The proofs rest on the named assumptions of the modules only: bounds are natural numbers, `None` is not a member of
the sets, and the sets of actors are disjoint; Backup's retention is at least 1, VMs and nodes are different keys,
records and runs are numbers other than 0, and in InventoryVars roles and apps are natural numbers (their places in
the order of names), the roles finitely many, and the declarations well formed (`SchemaOK`).

The type invariants of Backup and ProxmoxSync and the sidecar's `FieldsTruthful` and `RegisteredHasOutput` are proved
and not checked by a run any more. Every invariant and every action property that a run expects to hold is proved.
Only model-checked: liveness (`FilesRemoved`, `CancelStops`, `RunsSettle`, `OperationsEnd`, `AnswersShow`,
`LiveGoesOut`), which is beyond the prover.

## 5. Plan

1. *(done)* RunnerContract, AnsibleRunner, PlaybookRuns with proofs.
2. *(done)* Backup: lock, history, files, dumps and restores, with proofs.
3. *(done)* ProxmoxSync: the sync's transaction beside the admins', with proofs. Left: the host's resources, disks
   and tags, and the notifications of nodes.
4. *(done)* The browser: QueryCache, AssistantChat, FieldEditors, LiveViewer and RecordDialogs, with proofs.
5. *(done)* InventoryVars: precedence, explorer and role matrix, with proofs. Left: more than one variable, groups.
6. *(done)* The rest of the invariants: the bound of the history, the output of a run, RecordDialogs,
   what an editor shows of its own saves.
7. The confirmation of an AI action, a preview's fingerprints, a DELETE that outlives its client.

## 6. Disagreements found

With a run that shows them:

- `runs_cancel`: a run that is cancelled before `execute_run` writes *running* (playbook_execution.py:155) goes back
  to running there, and its playbook is started.
- `hostvars_precedence`: README.md:293 ranks the layers of defaults, each above those before it. The layers up to the
  host type's only fill what is missing, so of these the first wins, an Ansible default first of all; of the global
  default roles the one with the high number wins, against the comment at `inventory.py:298`.

Stated in a module as a property that the code does not have, and checked by no run. To see the behaviour, add the
name as an INVARIANT to the configuration of the module, or as a PROPERTY if it is about steps:

| Property | Module | What happens |
|---|---|---|
| `DoneReplyIsComplete` | AnsibleRunner | the reply that says *done* may lack the last output, and both clients stop there |
| `OutputIsPrefix` | PlaybookRuns | a viewer and `execute_run` both append the same output to the row |
| `RestoredIsListed` | Backup | a dump holds its own backup as *running*: once restored it is not listed as completed, and cannot be restored again (README.md:337) |
| `OnlyPartialIsCleaned` | Backup | retention is inside the `try` of the backup: when it fails, the file of the backup that has just completed is removed (backup.py:190) |
| `SyncedIsShown` | ProxmoxSync | a promoted entry outlives its host; after `DELETE /hosts/{id}` syncs without defaults neither queue nor show the VM (README.md:313) |
| `EachPieceOnce` | LiveViewer | re-streaming, a connection made again and opening a running run repeat output; a run that takes another's drawer follows its output |
| `UntouchedSecretStays` | FieldEditors | the editors that show a secret masked send the mask back (AppsPage.tsx:119-127, app_fields.py:122-126) |
| `SecretGoesHome` | RecordDialogs | the secret typed for one Git repository goes out with the next one that is saved (GitReposPage.tsx:181-193) |

Seen while modelling, without a property:

- A DELETE of a run that began before the run's end overwrites its success with *cancelled* (playbook_runs.py:265).
- A run recorded as *Failed to start* after a timeout may have its playbook running, and nobody keeps its job id.
- The sidecar decodes the file with `errors="replace"` from a byte offset that advances by the length of the text
  encoded again (main.py:296, ansible_runner.py:111): a character cut in two by a poll can shift all later offsets,
  and output is lost, in the row and in the drawer. `UnwatchedOutputIsPrefix` and `EndIsOfThisRun` except it.
- `run_restore` acquires the lock before the `try` that releases it, and so does `run_proxmox_sync`: a full disk
  (backup.py:248) or a failing commit (proxmox.py:776) in between locks backups or syncs until a restart.
- Two credentials that report one VMID can make the whole sync fail at its commit, and the next ones as well.
- A node is notified before the sync commits (proxmox.py:743), and again after a sync that was rolled back; queued
  VMs are never notified, although README.md:21 names pending hosts.
- Only the *done* branch of `execute_run` notifies `playbook_run_failed`, so
  runs that fail in preparation, by a viewer or by recovery are silent.
- The `orphaned` event is not among the events that `stream_output` and the SSE endpoint document; `execute_run`
  ignores it.
- The roles of a host type are saved with PUT `/host-type-roles/` (HostTypesPage.tsx:265), while the backend has
  PUT `/host-type-roles/{host_type_id}` (host_type_roles.py:29): the request finds no handler.
- A role priority of 0 counts as 100 in the export (`or 100`, inventory.py:300, 319, 329) and as 0 in the explorer's
  queries (inventory.py:628, 694, 728): beside a role of 1 to 100 the two order them differently, and the explorer
  shows another value than the export hands out. The schemas accept 0 and `POST /role-matrix/toggle` keeps it; no
  page sends it. The exception in `ShownIsExported` (`Disordered`).
- A priority that a caller names is kept (backend/tests/test_role_matrix.py:100) and may be below one given earlier:
  `AddedInOrder` is about the priorities that the backend gives.
- A conversation that cannot be created leaves the chat's button spinning until the panel is left
  (AssistantPanel.tsx:613): the exception in `SpinsForAReason`.
- A file is read in `FileReader.onload` (AppsPage.tsx:133, RolesPage.tsx:183, HostTypesPage.tsx, HostStatusesPage.tsx)
  and becomes the draft of whichever record is shown by then: chosen for one record, after Next it can be saved over
  another. The exception in `SavesGoHome` (`strayed`).
- A save of a job template that changes nothing but its schedule leaves the template the same object, so that the
  effect does not run when it is opened again (JobTemplatesPage.tsx:137-144): the form shows no schedule, and the next
  Save deletes it (193-203). The same Save before the schedules are loaded deletes it too. The exceptions in
  `ExtraGoesHome`.
- The answer to a quick create goes into whichever dialog is open by then (CrudPage.tsx:256), and a bulk operation that
  stops halfway does not refresh the table (CrudPage.tsx:454): the exceptions in `TypedGoesHome` (`quick`) and
  `ListShowsOwnWrites` (`unlisted`).
- A late success of a save closes whichever dialog is open by then, with what was typed in it (CrudPage.tsx:429).

## 7. Not modelled

- Read-only reports and pages (dashboards, the monitoring page, IPAM, inventory health, exports to CSV, the
  hierarchy tree): one request, shown as it is answered.
- Import wizards: requests one after the other that read nothing of what they have sent.
- The scheduler, UniFi and Git: their races happen inside APScheduler, the controller and git, which are not part of
  the repository; the forms for them are pages of RecordDialogs.
- What the assistant says, its tools and confirmations; queries to Prometheus, Grafana and Bitwarden; the delivery of
  notifications; authentication, field encryption and the audit log, which delegate to libraries.
- Declarations: types, themes, layout, schema, deployment. The cascades of the schema are in the actions they follow.

`PROJECT.json` lists every component with the reason.
