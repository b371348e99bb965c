# Verification of the accounting classifier

TLA+ models of `classificador-conta-contabil`: a FastAPI service over PostgreSQL that imports
accounting ledgers ("Razão"), trains per-company models of the counterpart account, suggests accounts
for operational movements, and leaves every decision to human review. Two pools of background
consumers (`scripts/razao_worker.py`, `scripts/ml_worker.py`) work on durable queues in the database;
a separate agent runner (`agent_runner/`) automates repository work under locks of its own.

Paths below are relative to the repository (`core/razao_worker.py` is `src/core/razao_worker.py`).

## 1. Inventory

| Component | State | Operations | What is hard |
| --- | --- | --- | --- |
| Ledger queue: `core/razao_worker.py`, `core/razao_storage.py`, `scripts/razao_worker.py`, `api/routes/razao.py` | batch row (status, attempt_count, lease), attempt rows, entries, warnings; private files, their flocks and the volume lock | upload (reserve, bind, commit), claim, heartbeat, parse and write, complete, fail, close exhausted, clean, manual retry, delete | consumers that outlive their lease, crashes at any step, cleaning against admission and retry, locks of files and rows taken in different orders |
| Ledger import and monthly closing: `core/razao_importer.py`, `core/razao_parser.py` | entries, warnings, closings, alias resolution inside the batch's transaction | `process_razao_upload`, `import_razao` | balance arithmetic, sign conventions, which warnings block |
| ML job queue: `core/ml_jobs.py`, `core/ml_worker.py`, `scripts/ml_worker.py`, job endpoints of `api/routes/classification.py` | job row (status, attempts, lease, cancel flag, result), artifact files | enqueue, claim, heartbeat, execute, publish, finish a failure, cancel, retry | unlocked reads in the endpoints, one running job per company, lost acknowledgements, files against transactions |
| Model versions: `core/model_versions.py`, `core/ml_engine.py` | versions candidate/active/retired, artifact hashes | create a candidate, promote with guardrails, roll back, infer | comparison with a model that is no longer active, promotion between prediction and report |
| Training dataset: `core/dataset_builder.py`, `api/routes/feedback.py` | manifests, corrections of ledger lines | build, correct | queries of one build that see different moments |
| Accounts of a company: `core/conta_contabil_empresa.py`, `scripts/backfill_company_accounts.py`, `core/plano_contas_importer.py` | global catalogue, identities of the company, links with counters, journal of the backfill | edit, import, ensure, link, apply and roll back the backfill | identities looked up long before they are linked, overlapping commands |
| Review items: `core/review_items.py`, `core/razao_aliases.py` | items pending/in_review/resolved/dismissed, evidence, events, aliases | create and group, claim, release, reassign, resolve, dismiss, reopen, confirm an alias | concurrent analysts, reopening after the effect of a resolution |
| Chart-of-accounts snapshots: `core/plano_contas_snapshots.py` | snapshots with validity, conflicts and their decisions | import, select by date, resolve a conflict | a decision that a later import makes stale, imports against resolution |
| Operational movements: `core/movimentos_operacionais_*.py` | movement (status, suggestion, decision, row_version), batches, submissions | import, classify, review, submit, bulk approval, export, feedback sheet | lost updates of concurrent reviewers, a job that overwrites a decision, replayed sheets |
| Companies, users, permissions, service credentials | one row each; credential validity windows | CRUD, issue, rotate, revoke, authenticate | rotation and revocation at the same time |
| Agent runner: `agent_runner/` | SQLite: events, executions, checkpoints, locks, nonces | implement, resume, cancel, reconcile a manual homologation | duplicated events, cancel during a run, crash with locks held |
| Audit, logs, metrics, notifications, migrations, frontend | append-only or stateless | - | - |

How they interact: the API and the workers share nothing but the database and the volumes. The upload
request and the ledger worker meet at the batch row and at the flock of its file. A training job
publishes a candidate version, a promotion (an API call) makes it active, a classification job reads
the active version and writes suggestions to movements, which reviewers change; decisions feed the
next training set. The foreign keys matter: rows inserted by a long transaction hold `FOR KEY SHARE`
on the batch or on the company until it ends, and claims use `FOR UPDATE SKIP LOCKED`, so an open
transaction hides a row from every claim.

What makes each part correct, in one line:

- ledger queue: entries come from exactly one attempt, the queue repeats a batch by itself at most
  once, files live as long as they are needed, every batch is settled;
- ML jobs: at most one owner per company, only the last run publishes, a cancel of a running job is
  obeyed, runs are bounded, every job is settled;
- model versions: one active version, never promoted on a stale comparison;
- review items and movements: no decision is lost or overwritten by somebody who has not seen it;
- snapshots: the selected snapshot is the one the last valid decision names;
- accounts of a company: an identity lasts as long as something refers to it, links name the current one;
- ledger and movement imports: every line is stored or reported, balances are of the lines stored;
- training dataset and suggestions: a manifest explains its examples, a chart is used where it is certain;
- agent runner: one execution holds both locks, and nobody leaves them held or loses the agent's work.

`PROJECT.json` lists every component, and every hazard at the line where it bites.

## 2. Plan

| | Module | Subject | Proofs |
| --- | --- | --- | --- |
| 1 | `LoteRazao`, `FilaRazao` | abstract life of a ledger batch, and the queue that implements it | `FilaRazaoProofs` |
| 2 | `MLJobs` | job queue of machine learning | `MLJobsProofs` |
| 3 | `Pendencia`, `ReviewItems` | the row of a review item, the review centre with aliases | `ReviewItemsProofs` |
| 4 | `Movimentos` | reviewers, job, bulk approval and feedback sheet over one row | `MovimentosProofs` |
| 5 | `AgentRunner` | events, executions, locks and homologations | `AgentRunnerProofs` |
| 6 | `AgentWorkspace`, `AgentTelemetry` | worktrees; details and sums | `AgentRunnerProofs` |
| 7 | `ModelVersions` | candidates, promotions, rollbacks, artifacts | `ModelVersionsProofs` |
| 8 | `PlanoSnapshots` | dated charts, conflicts, decisions, items about dates | `PlanoSnapshotsProofs` |
| 9 | `ContasEmpresa` | identities, links, backfill | `ImportacoesProofs` |
| 10 | `Planilha`, `LivroRazao` | cells of sheets; the sheet of a ledger: parser, balances, closings | `ImportacoesProofs` |
| 11 | `ImportacaoMovimentos` | the sheet of movements: parser, validation, uploads at once | `ImportacoesProofs` |
| 12 | `DatasetTreino` | the dataset query by query | `ModelVersionsProofs` |
| 13 | `SugestoesMovimentos` | the chart a movement is classified with | `PlanoSnapshotsProofs` |

`MCX` instantiates `X`; `MCPartes` checks modules with few states in one run, `MCModelVersions` also
`DatasetTreino` (section 14). A proof module covers the components that its row names; `ImportacoesProofs` is
about everything a company imports.

Left for later: `AdmissaoRazao` (hash deduplication and disk reservation of concurrent uploads).

## 3. `LoteRazao` and `FilaRazao`: the ledger queue

`LoteRazao` is what a user of the queue relies on: a batch is created, started, published or given up,
retried by an operator, deleted; only a first attempt is repeated by the queue; entries appear with
the verdict `completed` and belong to the attempt in course.

`FilaRazao` is the implementation. Variables against code:

| Variables | Code |
| --- | --- |
| `status`, `attempt`, `token`, `lease`, `error`, `aged` | columns of `LoteImportacaoRazao`: status, attempt_count, lease_token, lease_expires_at against the clock, error code, failed_at against the retention period. `inserted` is a row flushed by an upload not yet committed, `gone` a row that does not exist any more |
| `hist` | the result of each `TentativaImportacaoRazao` |
| `entries`, `warns` | attempts whose `LancamentoRazao` and `WarningImportacaoRazao` rows are committed |
| `file`, `flock` | the directory bound to the batch, and the holder of the flock of its file |
| `pc`, `job`, `claim`, `hb`, `cause` | a consumer thread in `run_once`: where it is, its claim, its heartbeat, the exception on its way to `_fail` |
| `rpc`, `rjob` | an upload or a manual retry being served |

Every action is one transaction, one flock operation, or the part of a handler between two of them:

- requests: `UploadBind`, `UploadCommit`, `RetryOpen`, `RetryCommit`, `Release`, `RequestAborts`,
  `AdminDelete`. An upload commits while it still holds the flock and drops it afterwards, so `Release`
  is a step of its own;
- consumer: `FailExhausted`, `Claim`, `OpenFile` / `OpenMissing` / `OpenBusy`, `WriteBlock` (the first
  flushed entry locks the batch row `FOR KEY SHARE`), `ProcessorFails`, `LoseLease`, `Complete`,
  `CloseFile`, `CommitUnacknowledged`, `Fail`, `FailTooLate`, `CleanFile`, `CleanDone`, `ThreadDies`;
- heartbeat `Renew`, `HeartbeatFails`; clock `LeaseRunsOut`, `RetentionRunsOut`; process `Crash`,
  `Restart`.

Abstractions. A lease token is a fresh uuid per claim and is represented by the attempt number, which
identifies the claim just as well. Time is two facts about a batch, "the lease has run out" and "the
retention period has passed". The business transaction has two states, before and after its first
flushed row; its contents are "entries of this attempt" and "warnings of this attempt". Left out: the
hash lookup and the disk reservation, progress counters, a commit of the API
whose outcome is unknown, and the retry of a batch whose file is missing (refused without effect).

### Runs

| Run | Instance | Shows |
| --- | --- | --- |
| `fila` | 1 batch, 2 threads in 2 processes that crash independently, 2 requests, 4 attempts | the type invariant, four safety invariants, `LiveLeaseIsExclusive`, the refinement of `LoteRazao`, and that left-over files are collected |
| `fila_liveness` | 2 batches for 1 thread, 1 request, 2 attempts | every batch leaves the queue although they compete |

`FilaRazaoDisagreements.cfg` shows three disagreements of section 16.

Bounds. All the rules of a batch are about that batch alone, and two batches meet only in the order of
claims and at the consumers; so one batch with everybody around it finds the interleavings, and two
batches are needed only for starvation. Two threads are enough for a late owner and its successor; a
third could only be a second successor, which needs a third automatic attempt that does not exist. Four
attempts (`MaxAttempts`, the bound on manual retries) allow two full cycles of "first attempt, automatic
repetition".

### Fairness

`FairSpec` assumes: a thread that has claimed goes on (`WF` of its work), requests end, leases run out
if nobody renews them, and Compose restarts a container whose process has ended
(`restart: unless-stopped`). Claiming, closing exhausted batches and cleaning are `SF`: they are the
first things an idle or restarted thread does, so repeated crashes do not put them off for ever.
Nothing is assumed of crashes, heartbeats, administrators or retries.

## 4. `MLJobs`: the job queue of machine learning

| Variables | Code |
| --- | --- |
| `status`, `attempts`, `token`, `lease`, `flag` | columns of `MLJob`; `flag` is `cancel_requested` |
| `runs` | claims ever made of the job: the number of a run stands for its uuid token |
| `published`, `artifacts` | runs whose business transaction was committed; training runs whose file is on the volume |
| `pc`, `job`, `run`, `hb`, `cause` | a consumer thread in `run_once` and `_execute`, its heartbeat, the exception on its way to `_finish_failure` |
| `rpc`, `rjob`, `rflag` | a cancel or retry request between its read and its commit, with the flag it read |

`ClaimStarts` and `ClaimSettles` are the whole loop of `claim_next_ml_job`: it looks at the first
candidate of each company (`Head`), settles those that were cancelled or used their attempts, and stops
at the first it starts. A company whose row an open training transaction holds `FOR KEY SHARE`
(`CompanyShared`: from the flushed manifest to the end) is skipped. The partial unique index
(`IndexAllows`) refuses a claim while another job of the company still runs: this happens when its lease
ran out and its row is locked right then; the claim is rolled back and the thread dies (`ThreadDies`).

`cancel_company_ml_job` and `retry_company_ml_job` read without a lock and send only the columns they
changed, so each is a read step and a commit step. The CHECK constraint on the lease columns refuses a
status change of a row that has started to run (`Refused`).

A run is `BeginRun`, for a training `FlushManifest` and `WriteArtifact`, then the check under
`FOR UPDATE` (`CheckPasses`, `CheckCancelled`, `CheckLost`) and `Publish`; exceptions at any point go
through `RunFails` to `Finish` or `FinishLate`. `PublishUnacknowledged` is a commit that succeeds and
is taken for a failure. The heartbeat's UPDATE waits for the lock of its own thread's last check.

A job stands for one (company, idempotency key) pair: a repeated request finds the same row, and
comparing its payload changes nothing. The audit rows and the synchronous prediction routes are left out.

| Run | Instance | Shows |
| --- | --- | --- |
| `mljobs` | a training and a classification of one company, 2 threads, 1 request | `QueueIsBounded` (types, a bound on runs, one publication per request), `OneOwnerPerCompany`, `OnlyLastRunPublishes`, `CancelIsObeyed` |
| `mljobs_liveness` | 3 jobs, 2 companies, 1 thread, `FairSpec` | every job is settled, no company starves |

`MLJobsRequests.cfg` (1 job, 2 requests) checks the same rules when two requests decide on stale reads;
`MLJobsDisagreements.cfg` shows disagreements of section 16.

Bounds. `Requests` is the set of cancel and retry requests ever made; with it the number of runs is
finite. One company with two jobs is what the index and the lock are about; a third job of another
company is needed only for the claim loop (settle one company's job, start another's). Fairness is that
of section 3, with `SF` on claiming as a whole and not per job: that the loop starves nobody is checked.

## 5. `Pendencia` and `ReviewItems`: the review centre

`Pendencia` holds the row of an item as a value (status and assignee) and the `WHERE` clauses of the
conditional updates; `ReviewItems` and `Movimentos` both use it.

| Variables | Code |
| --- | --- |
| `item` | status and `assignee_id` of each `ReviewItem`; an item is its group and its place in the chain `key`, `key:after:<id>`, ... |
| `log` | the `ReviewItemEvent` rows of the item in order, with type, from, to and actor; `holder`, the assignee the transition left, is a history variable of the model |
| `alias` | the item whose confirmation wrote the `AliasRazao` of an account. The unique key allows one; the model keeps a set so that a second one would show |
| `lacking` | accounts which an import in progress has looked up in vain in the aliases it loaded at its start |
| `req` | a resolve, dismiss or reopen request between its unlocked read and its locked update, with the status it read |

The conditional updates (claim, release, reassign, and the updates inside the others) are atomic: they
lock the row and repeat the test. But `resolve_item`, `dismiss_item` and `reopen_item` first load the
item without a lock, for the checks on its origin, and the session keeps that object: a later
`SELECT ... FOR UPDATE` through the same session does not refresh its attributes. `ReadItem` and
`Conclude` or `Reopen` are therefore two steps, and `Reopen` records the status that was read.

What an item can be concluded by depends on its origin (`Elsewhere`): an unknown account by
`ConfirmAlias`, an abstention of the model by `ReviewMovement` (claim and conclusion in one transaction),
a conflict of snapshots by `ResolveSnapshotConflict`, everything else in the review centre. The ledger
importer never reuses a concluded item but opens the next one of the chain (`Create`, `Current`); what
it believes about aliases was loaded earlier (`LookUpAlias`). Evidence and criticality are data. The
submission of a movement for review only creates an item of another origin, which is `Create`.

| Run | Instance | Shows |
| --- | --- | --- |
| `review_items` | one unknown account with a chain of two items, an item that a decision on a movement concludes, one that the choice of a snapshot concludes; two people, one of them an administrator | the type invariant, three invariants on histories, `ResolvedByAlias` and `OneOpenItemPerGroup` |

`ReviewItemsReopened.cfg` shows a disagreement of section 16.

Bounds. Items of different groups share nothing, so the constraint `OneGroup` explores each group alone: a
state with items of two groups is checked and not continued. A second
item of a chain is needed for the question that comes after the answer, and a third would meet its
predecessor as the second meets the first. Two people suffice for a holder and somebody who is late. Four
events of an item allow claim, conclusion, reopening and a new claim in a chain; six (`MaxEvents`), explored
for an unknown account as long as it has one item, also the second conclusion and what follows it. Nothing
is assumed of fairness and no liveness is stated: a person may never act.

## 6. `Movimentos`: decisions on operational movements

| Variables | Code |
| --- | --- |
| `mov` | the columns of `MovimentoOperacional` that decide: status, suggested account, `contrapartida_final`, `elegivel_treino`, `row_version`, and whether there are messages |
| `item`, `lock` | the "ml" review item of the movement, and the transaction which holds its row |
| `sheet` | the movements as they were when the classified sheet was downloaded |
| `kind`, `todo`, `at` | a request: what it is, its rows still to process, the movement whose checks were passed |
| `base`, `work`, `touched` | the session: a movement as loaded and as changed in memory, and items as changed |
| `jobs`, `owner` | the movements a run of the classification has loaded; the run whose token the job row holds |
| `late`, `reopened` | history variables: movements decided before a request began; movements whose item was reopened |

No movement is ever locked. A request loads it, decides in memory and writes at commit only the columns
whose value differs from the loaded one (`Merge`), so that two overlapping requests are merged column by
column: this is what the properties are about. An object that was only read is not kept in the session
(its identity map is weak), so a row of a sheet is read anew unless an earlier row of the same sheet
changed that movement (`InSession`). The item of an abstention is locked and stays locked to the end of
the transaction.

Actions: `StartReview`, `StartSheet`, `StartBulk`; the rows of a sheet `PassChecks`, `SkipRow`, `Decide`,
`RowInvalid` (a row that fails after it claimed the item leaves the item claimed while the other rows are
committed); `BulkApproves`, `BulkPasses`; `Commit`, `Abort`; `Export`; the job `BeginRun`, `PublishRun`,
`LoseRun`; and the transitions of the item in the review centre. `Service` is an integration: it may
import sheets, but cannot claim an item and so decides only on movements without an open one.

Abstractions. Account links, confidence, debit and credit columns and the cells of a sheet are data: a
row may or may not be refused for them. Read-only cells that do not match refuse a row, but a blank one
is not compared, so a row with old values may pass. A user has one request at a time. The bulk approval
is a function of `core/` which no route calls at present; it is modelled because it writes the same
columns. The import of movements is the initial state.

| Run | Instance | Shows |
| --- | --- | --- |
| `movimentos` | one movement without and one with an informed counterpart, two people, two consumers; reviews and bulk approvals | `DecisionIsWhole` (types, `UndecidedIsClean`, `AcceptedIsComplete`), `ItemFollowsDecision`, and the step rules `DecisionStands` (`DecidedStaysDecided`, `SuggestionIsKept`) and `LateRequestsChangeNothing` |
| `movimentos_sheets` | one movement, one person, the integration and one consumer; reviews and sheets of up to two rows | `SheetsFollowDecisions`: what a movement that is twice in a sheet, rows that fail and old sheets do |

`MovimentosRejected.cfg`, `MovimentosOverwritten.cfg` and `MovimentosVersion.cfg` show disagreements of
section 16.

Bounds. Movements meet only inside one session and in one job, hence two. Two people overlap; two
consumers are the late owner of a job and its successor. `Kinds` says which requests an instance has and
`MaxRows` how many rows a sheet has: two rows make the second see what the first changed. Any number of
sheets can be imported one after the other. One account is enough since the properties ask whether
there is a final account, not which one. People and consumers are interchangeable (`SYMMETRY`); no
liveness is checked, since decisions are people's.

## 7. `AgentRunner`: events, executions, locks and homologations

Every method of `RunnerStore` opens its own SQLite connection, so a handler is a sequence of
transactions with the calls of the executor between them. A thread serves one delivery of a signed
event, or one reconciliation of a homologation comment.

| Variables | Code |
| --- | --- |
| `answer` | table `events`: the request whose response is stored under an event id |
| `calls` | nonces registered for the copies of an event, and reconciliations begun |
| `execs`, `checkpoints`, `locks` | the tables of these names; rows are in order of creation |
| `decided` | table `manual_homologation_events`: the decision about a comment and a tree |
| `th` | what a thread holds in memory: delivery or comment, execution, checkpoint read, outcome |
| `freed`, `died` | history: executions whose locks were deleted under a worker; executions on which a thread died |

Actions, each one transaction: `Deliver` (signature and nonce), `Lookup`, and at the end `Persist` (the
response); for an implement `Create` (execution and both locks, or busy), `Run`, `StartRepair`, `Repair`,
`Finish`, and `Insert` and `Check` of the checkpoint; for a resume `ReadExecution`, `ReadReference`,
`Acquire`, `StartResumed`; `CancelExecution`, `ReadStatus`; for a homologation `Reconcile`, `ReadDecision`,
`EvaluateComment`, `Decide`. `Die` ends a thread anywhere: an exception or the end of the process.

| Run | Instance | Shows |
| --- | --- | --- |
| `agent_runner` | 2 threads; an implement that is delivered twice; a resume, cancel or status of the first execution, delivered twice; one homologation that approves, approves another commit or rejects another commit | `LocksExclude`, `Attended`, `AnsweredEventIsDone` |

`LocksExclude` does not say that the locks are always held by a working execution: a cancel, or a
homologation that fails, deletes them under its worker. The property says exactly that: whenever two
executions are at work, the locks of one were given away. `Attended` leaves out executions on which a thread
died: their locks stay until a cancel. `evaluate_homologation` looks at the commit a comment names only
when the result is an approval, so a rejection that names another commit blocks the execution; the comment of
the instance does that too. `AgentRunnerRepeated.cfg` (the implement alone,
delivered twice) and `AgentRunnerTree.cfg` show disagreements.

Bounds. Two threads overlap in all ways two handlers can; two executions and two checkpoints
(`MaxExecs`, `MaxCheckpoints`) are one more than a single event makes, so that a second execution meets
the locks of the first. `Calls` bounds signed copies and reconciliations. Threads are interchangeable.
The runner has no scheduler of its own and retries nothing, so no liveness is stated. Deadlock is not
checked: the runner rests when no event comes.

## 8. `AgentWorkspace` and `AgentTelemetry`

`AgentWorkspace` models `git_workspace.py`.

| Variables | Code |
| --- | --- |
| `branch`, `remote` | what the commits of a branch change, here and on the remote |
| `worktree` | of a worktree its branch, the files edited in it, and the index |
| `draft` | files of the commit a draft was requested for |
| `publisher` | a call of `prepare_publish_and_request_draft`: next step, and the files of its status or commit |
| `slipped` | history: files out of scope that agents gave git where no status shows them |

What an index or a branch changes is a record of the files and of those among them whose names git does
not show because it takes them for the old side of a rename (`Changes`; which files are alike is git's to
say, so any pairing is possible). Actions, one per git command or callback: `Prepare`, `CheckBranch`,
`EnsureWorktree`; the agent at work in `mutate`: `Edit`, `Stage` (git add, git mv), `AgentCommits`,
`AgentReturns`; `CheckScope`, `Add`, `Commit`, `ReadHead`, `Push`, `CreateDraft`; `PublisherDies`, and
`Cleanup` of a worktree at any moment.

`CheckScope` sees the new name of a rename only (`_changed_files`), `Add` takes the files of the status, and
`Commit` takes the whole index (`git commit -m`). So the rule of spec 14 that only files of the scope are
published is *not* kept by the code: `AgentWorkspaceScope.cfg` shows it (section 16). `WorkIsSafe` says what is
kept, in three parts. `OnlySlippedLeavesScope`: a file out of scope reaches the remote only if an agent
staged it while a run of the same worktree was between its status and its commit, or as the old name of a
rename, or committed it itself; each of the three happens, and a file that is only edited, or staged
before the status under a name that it shows, is never published. `DraftIsPushed`: a draft names a commit that the remote has.
`WorkIsKept`: what an agent edited or staged leaves a worktree only as a commit of its branch.

Instance: two calls of one execution and a third, of another execution, on the same branch; one file in
scope and one out of it, which are enough for a rename in either direction. Agents only add work and stay on the
branch they find: resets, reverts, checkouts and ignored files are not modelled. The runs are not restarted by
anything, so no liveness is stated.

`AgentTelemetry` models `aggregate_and_prune`: the sums are read before SQLite opens the writing
transaction, so `Sum` and `Prune` are two steps, with `Record` and the clock between them. `CountedOnce`:
a detail is in the table or in one sum. It is checked, and proved, with one maintenance command, as deployed;
two that overlap would count twice.

## 9. `ModelVersions`: candidates, promotions, rollbacks

| Variables | Code |
| --- | --- |
| `version`, `next` | rows of `ModelVersion` (status, `comparison_version_id`, evaluation) and the sequence of numbers |
| `files` | artifacts on the volume whose hash is right |
| `trail` | the switches, as the audit records them |
| `training`, `switch`, `reader` | a training transaction, a request that promotes or rolls back, a classification job between its prediction and its report |

A switch takes the company `FOR UPDATE`; a training refers to it from its manifest on and so holds it
`FOR KEY SHARE`: the two exclude each other (`CompanyFree`), two trainings do not. Actions: `Build`,
`EvaluateCandidate`, `WriteArtifact`, `CommitCandidate`, `FailTraining`, `CrashTraining` (the file stays);
`LockCompany`, `Switch` (with the guardrails, and the artifact and its hash checked), `AbandonSwitch`;
`LoadModel`, `Report`. `LoseFile` is external: a file on the volume goes or is altered.

`SwitchesAreWhole` is `OneActive`, `SwitchesChain` and `ActiveHasArtifact`. `ComparisonsAreCurrent` is
`CandidateIsFresh` (no switch between evaluation and commit), `PromotedBeatsReplaced` (an evaluation that
got old is refused, and is good again after a rollback to the version it compared with), and
`ReportIsUsedOrLater`: the number a job reports is read after its predictions, so it may be a later one,
but never an earlier one.

The run `modelos` checks both, with two trainings, two switching requests, one job, three versions and four
switches; requests and trainings are interchangeable. An evaluation is one of three: better, worse in a
critical class, not valid. Two requests are enough for one that switched while the other waited, four
switches for a chain that goes back to a version and on again; the proofs (section 15) bound none of these.

## 10. `PlanoSnapshots`: charts with dates

`events` and `decisions` are the imports and decisions of conflicts, `items` the review items about
them, `importer`, `user` and `lote` imports, requests and ledger batches under way. `Outcome` and `Choice`
are `selecionar_snapshot`: the latest effective date, its only candidate or the decision for exactly
these candidates. An import holds the company; a decision holds its item, and does not read the
candidates again before it commits. A batch reads the chart of a date once (`ReadDate`) and reports
dates in conflict, or without a chart, at its end (`FinishLote`), with a key that follows the closed items
of the same date (`ChainKey`: the loop of the importer goes from the bare date to the key that follows the
item it found, and so through the chain in the order of its items, to the first key that is free or open).

`ConflictsAreSettled` is `ChosenAmongAll`, `ConflictCanBeDecided`, `DecidedOnce` and `LinesAreReported`
(every date a batch was in doubt about has an open item when it ends). Three instances: three charts and
one batch (a decision while an import adds a candidate); two batches on one date (chains of items); two
effective dates (the latest one counts). `PlanoPendencias.cfg` shows a disagreement.

## 11. `ContasEmpresa`: identities, links, backfill

`catalog` is the office's catalogue, `identity` the accounts of the company, `link` the
`EmpresaContaContabil` rows that ledger imports keep, `entries` the identities that charts refer to,
`journal` and `run` the items and commands of `backfill_company_accounts.py`. A batch loads identities
and links when it starts (`LoadLote`) and writes at its end (`CommitLote`); the backfill looks, inserts,
checks and deletes in separate statements (`Look`, `Insert`, `StartUndo`, `FinishUndo`), and two commands
may overlap. An import of movements gives every code of the catalogue an identity and refers the links to
them (`RefreshLinks`, `_load_contas_vinculadas`): it writes the links beside the batches, and keeps their
counters. Foreign and unique keys of the schema are in the guards.

`IdentitiesAreStable` is `IdentityIsKept` (an identity goes only by a rollback of the execution that
created it, unchanged, and never while something refers to it) and `LinksAreCurrent`. Instance: one code,
two possible attributes, two batches, two commands, three identities. An execution that found an identity
(`already_present`) does not keep it from the rollback of the execution that made it: in the code such an
item is not a dependent. `ContasEmpresaDisagreements.cfg` shows disagreements.

## 12. `Planilha` and `LivroRazao`: the sheet of a ledger

`ReadRow` is the row machine of `razao_parser.py` (metadata, header, block of an account, row "saldo
anterior", entry), folded over a sheet; `ImportBlock` the block loop of `import_razao` with its running
balances, warnings, items and closings; `Finish` the status. Cells are numbers, `Blank` or `Bad`
(`Planilha`, shared with section 13); a date is its month. One import is one transaction and keeps the chart
it read for a day, so nothing runs beside it.

`ClosingsAgree` compares a closing with a reference definition, the sum of the stored lines of its block
up to the last one with a balance, and asks that it carries every balance warning of its month. A closing
stores the calculated balance without its side (`abs`, `Magnitude`), and so the reference is compared.
`DoubtsAreTold`: a line is stored or reported and not both, a rejected line leaves no closing and no
balance warning, doubts about the chart leave an item, and "completed" means every line was stored and
every balance the sheet shows is right. Instance: all sheets of three rows of fifteen kinds, or of four
rows of five, behind headers in three orders and layouts, with three kinds of chart and a block size of 2.

What the code does and the model keeps: in the layout with the account in each row a "saldo anterior" row
applies to the first entry of every later account; a sheet that lacks a a sheet that lacks a metadata label is read again
without them and its company is not checked; a CNPJ without a digit takes away the one read before; a sheet without entries is completed; review items of a
line that is rejected later remain.

## 13. `ImportacaoMovimentos`: the sheet of movements

`ReadMovementRow` is the parser with its two layouts, `Imported` the importer with validation and the running
balance of each account, `Revalidated` the same rules as `movimentos_operacionais_validator.py` writes them
again. An upload is `Check` (same bytes imported?), `Read` (accounts), `Store` (one transaction), `End`;
`Administer` changes accounts and the company in between. Nothing joins `Check` to `Store`.

`MovementsAreAccounted` is `EveryMovementIsAccounted`, `BalanceIsOfStored` (against a reference definition)
and `ValidatorAgrees`. `LaterUploadIsBlocked` is what holds of the duplicate check: a sheet completed
before an upload began is not stored again; `MovimentosDuplicados.cfg` shows what does not. Instances: all
sheets of up to two lines of 23 kinds in one layout and 16 in the other, with one upload; four sheets with
two users at once. Kept from the code: a row whose date cannot be read is no movement and is not counted;
metadata may come from any row; a counterpart that cannot be read counts as absent.

## 14. `DatasetTreino`, `SugestoesMovimentos`, and the runs of several modules

`DatasetTreino` takes `dataset_builder.py` query by query: each sees what is committed by then, while
ledgers are imported, lines corrected (`api/routes/feedback.py`), movements decided, accounts edited,
charts imported, conflicts decided, aliases confirmed and items reviewed. One detail matters: the session
keeps the account objects of the first query, so later queries see them as they were (`held`, `Seen`).
`ManifestExplains` is `EvidenceDeterminesRows` (two manifests with the same hashes and exclusions have the
same examples, which is what reconstruction from a manifest asks for), `UnderReviewIsLeftOut` and
`DiscardsAreExplained`. Instance: an old and a new batch, three lines, one movement, two charts, two
changes by others and two builds; three changes also pass (703 165 states) but take too long beside the
rest. `selecionar_snapshot` is one step, the critical items of a batch are one item, and row versions,
features and the list of charts in the manifest are left out.

`SugestoesMovimentos` is the choice of the chart in `classify_pending_movimentos`: for a dated movement
the chart of the date, otherwise the first day and then the effective dates within the period, each
asked for by a selection of its own. A selection is three queries (date, candidates, decision) and one step
of the model: charts change between two selections, not within one. `ChartIsCertain` is `UndatedHasOneChart` (against the definition on every
day of the period, though the code asks for few of them) and `SuggestionInChart`. Instance: an undated and
a dated movement, two charts, three effective dates, four changes.

`MCPartes` checks seven modules in one run, and `MCModelVersions` two (the run `modelos`: `ModelVersions`
and `DatasetTreino`). They extend the modules, so the properties of the run are the very definitions that
the theorems of section 15 are about. The variable `part` says which module, in which scope, a behaviour
is about, and the variables of the others keep one value. The parts share no state, so the states are the
sum of those of the parts, and nothing about their composition is claimed. Most properties are
conjunctions of parts named above; each part is defined and commented in its module. Where a rule about
states and a rule about steps belong together (`WorkIsSafe` and others, and `SheetsFollowDecisions` of
section 6), the whole is a rule about steps: what holds of the state after every step, and of the step.
Deadlock is not checked: a sheet ends, versions and changes run out.

| Part | Module | Properties |
| --- | --- | --- |
| `w` | `AgentWorkspace` | `WorkIsSafe` |
| `t` | `AgentTelemetry` | `CountedOnce` |
| `sa`, `sb`, `sc` | `PlanoSnapshots` | `ConflictsAreSettled` |
| `c` | `ContasEmpresa` | `IdentitiesAreStable` |
| `l` | `LivroRazao` | `ClosingsAgree`, `DoubtsAreTold` |
| `i`, `j` | `ImportacaoMovimentos` | `MovementsAreAccounted`, `LaterUploadIsBlocked` |
| `k` | `SugestoesMovimentos` | `ChartIsCertain` |
| `dataset`, of `modelos` | `DatasetTreino` | `ManifestExplains` |

## 15. What is proved

Every module below names its component's properties as the runs check them, and proves them for every value
of the constants. Of the 40 properties of the passing runs 37 are stated by one of these theorems; the other
three are the liveness properties. In each, `Invariance` is `Spec => []IInv`: `IInv` is the inductive
invariant, and the theorems about states and about steps follow from it; the other components of a module
have an invariant of their own (`WorkspaceInv`, `TelemetryInv`, `DatasetInv`, `SugestoesInv`,
`ImportacaoInv`, `LivroInv`). There is a lemma per action (or per group of actions that write the same
variables), and under it a step per part of `IInv` the action can disturb; lemmas named `...Untouched` cover
the rest.

### The ledger queue (`FilaRazaoProofs`)

`FilaRazaoProofs` proves with TLAPS, for every number of batches, threads, processes, requests and every
bound on attempts (assumption `ConstantsAssumption`):

| Theorem | Says |
| --- | --- |
| `TypeCorrect` | `[]TypeOK` |
| `Invariance` | `[]IInv`, the inductive invariant |
| `OnceOnlyEntries` | `[]EntriesOfLastAttempt` |
| `AttemptsAgree` | `[]HistoryAgrees` |
| `OneAutomaticRetry` | `[]OnlyFirstAttemptRepeats` |
| `ProcessorsExclude` | `[]OneProcessorPerBatch` |
| `FilesAreKept` | `[]FileKeptWhileNeeded` |
| `LeaseExclusion` | `LiveLeaseIsExclusive` |
| `QueueImplementsLife` | `Spec => ImplementsLife`, the refinement of `LoteRazao` |

The properties are not inductive. That entries belong to the last attempt, for instance, needs that the
token of a row which is being processed is its last attempt, so that the thread which passes the check
of `_complete` writes for that one; the row without a lease must have no token, or a late thread could
match it. `IInv` is the conjunction of the properties with three parts:

- `RowInv`: how the columns of one batch fit together: it has a token and a lease exactly while it is
  processing, and the token is the last attempt; an unseen or deleted batch has no attempts, a waiting
  one has attempts left, a settled one has had one;
- `ThreadInv`: a thread with a claim names a batch and an attempt, a heartbeat runs only inside the
  transaction, and a thread inside `open_for_job` holds the flock of that batch's file;
- `RequestInv`: a request at work holds the flock; the row it binds is still invisible and its file is
  there; the row it retries has still failed, because its lock is held.

The proof has one lemma per action (`ClaimKeeps`, `CompleteKeeps`, ...), and under each one step per part
of `IInv` the action can disturb; actions that leave the rows alone share `RowsUntouched`. `Invariance`
collects the lemmas. `OneProcessorPerBatch` follows from the flock in `ThreadInv`; `LeaseExclusion` and
`QueueImplementsLife` are step properties proved action by action under `IInv`.

### The job queue (`MLJobsProofs`)

For any number of jobs, companies, threads, processes and requests (`JobsAssumption`: every job has a
company, trainings are jobs, the requests are finitely many, since retries are counted):

| Theorem | Says |
| --- | --- |
| `Invariance` | `[]IInv`; types are part of it |
| `QueueBounded` | `[]QueueIsBounded`: a job runs at most twice, and is published at most once, for each time somebody asked for it |
| `CompanyHasOneOwner` | `[]OneOwnerPerCompany` |
| `LastRunAlone` | `OnlyLastRunPublishes`, about every step |
| `CancelObeyed` | `CancelIsObeyed`, about every step |

The bound on runs is not inductive: a retry gives a job its attempts back while threads of earlier runs
are still at work. `CountInv` is what balances: runs never exceed the attempts plus those the retries gave
back, and publications never exceed the retries plus one for a job that is settled. `RowInv` (the token
is that of the last run; the partial unique index allows one running job of a company) and `ThreadInv` (no
two threads have the same run of a job; between the last check and the commit a thread owns the job and
its cancel flag is down, since it holds the row) give the other three. `FS_` theorems of the library carry
the counts over `Retried`, which a request increases by one at most.

### The review centre (`ReviewItemsProofs`)

`ReviewItemsProofs` proves, for any number of people, groups, items of a chain and recorded transitions
(assumption `ReviewAssumption`: origins are known ones, administrators are users):

| Theorem | Says |
| --- | --- |
| `TypeCorrect` | `[]TypeOK` |
| `Invariance` | `[]IInv`, the inductive invariant |
| `HistoriesExplain`, `HistoriesChain`, `HoldersConclude` | `[]HistoryExplainsRow`, `[]HistoryIsAChain`, `[]ConcludedByHolder` |
| `AliasSettles` | `[]ResolvedByAlias` |
| `OneQuestionAtATime` | `[]OneOpenItemPerGroup` |

Here `IInv` is the conjunction of the checked invariants with two more. `ChainFilled` (no item of a chain
without its predecessors) is what makes a new item the only open one: those before it are concluded, by
the guard, and those after it do not exist. `RequestsAllowed` carries the check on the origin from the
unlocked read to the conclusion: without it a resolve request could conclude an unknown account without
its alias. The history invariants need each other: that a transition starts where the one before ended
comes from the row, which `HistoryExplainsRow` ties to the last event. The proof reasons about one
history at a time (`AppendKeeps`: an event that may follow keeps a history in order), lifts that to all
items (`TransitionKeeps`, `MovesKeeps`), and has one lemma per action; `ReviewMovement` appends two
events, `ConfirmAlias` is the only action that disturbs `ResolvedByAlias`.

### Operational movements (`MovimentosProofs`)

For any number of movements, accounts, people and consumers, and sheets and bulk approvals of any length
(`MovimentosAssumption`: an informed account is an account, the markers "none", "ml" and "temporal" are not
accounts, the service is not a person, and no marker is a movement or a worker):

| Theorem | Says |
| --- | --- |
| `Invariance` | `[]IInv` |
| `DecisionsAreWhole` | `[]DecisionIsWhole` |
| `ItemsFollowDecisions` | `[]ItemFollowsDecision` |
| `DecisionsStand` | `DecisionStands`: no step takes a decision back, or the suggestion it was made on |
| `LateRequestsAreHarmless` | `LateRequestsChangeNothing` |
| `SheetsFollow` | `SheetsFollowDecisions` |

The difficulty is that a request writes what it loaded before it waited for a lock. `SessionInv` says what
can be in the memory of a request: a row that could be reviewed when it was loaded, with the suggestion and
the warnings the table still has, which is not among the decisions older than the request; it is the row as
loaded while it is in process, and afterwards a decision made of it, with its item settled and locked in the
same transaction. It survives the steps of everybody else because movements only go forward (`RowsAdvance`,
an action predicate proved of every step together with `IInv`, since each needs the other:
`SessionsOfOthers` uses it, and it needs the sessions). `RunInv` says that what a run of the job has loaded
is what the table has while the run owns the job; that is why a publication never overwrites a decision.
`ItemInv` says an item is the trace of an abstention.

### The agent runner (`AgentRunnerProofs`)

For any number of threads, events, comments, issues and executions (`RunnerAssumption`: every event and
comment has a number of calls, contents and texts are those of the constants, the marker of no event is
not an event):

| Theorem | Says |
| --- | --- |
| `Invariance` | `[]IInv` |
| `PilotsExclude` | `[]LocksExclude`: one execution holds both locks, and two work at once only where the locks of one were deleted under its worker |
| `PilotsAreAttended` | `[]Attended`: what is marked running or locked has a worker, unless it died |
| `AnsweredEventsAreDone` | `AnsweredEventIsDone`, about every step |

`LocksExclude` needs `PilotInv` (a thread at work on an execution has its locks, unless they were deleted
under it) and `WellFormed`, which ties the program counter of a thread to the rest of its memory: what it
serves, that its execution exists, and that the request is the action it is about to take. `Attended` is
inductive with them: the only steps that mark or lock an execution leave the thread working on it.

The same module proves, of the worktrees and the telemetry:

| Theorem | Says | Assumption |
| --- | --- | --- |
| `AgentsWorkIsSafe` | `WorkIsSafe`, about every step of `WorkspaceSpec` | `WorkspaceAssumption`: runs with one worktree have one branch, since both names come from the execution |
| `EventsCountOnce` | `CountedOnce`, about every step of `TelemetrySpec` | `TelemetryAssumption`: the age is a number; and, in the theorem, `OneJob`: there is one maintenance job |

`WorkspaceInv` follows the files out of scope; "in scope" below means allowed or slipped (`InScope`).
`TreeInv`: a worktree is on the branch of its runs, and the names its index hides are in scope. `RunInv`: while
a run is between its status and its commit the whole index of its worktree is in scope; the files of its
commit are on its branch before the push and on the remote before the draft. `BranchInv`: what a branch's
commits changed is in scope, though several worktrees commit to it, and contains what is on the remote.
The property says which files are slipped and why, so the theorem does not claim that only files of the
scope are published. `TelemetryInv`
says that what a job has summed is what its deletion will take away, because what is recorded meanwhile is
younger than the cutoff; with two jobs this is false after the deletion of the first, which is why
`OneJob` is a hypothesis (the deployment runs one scheduled command) and not a convenience.

### Versions of a model (`ModelVersionsProofs`)

For any number of versions, switches, trainings, requests and jobs, and any evaluations. No assumption on
the constants is needed.

| Theorem | Says |
| --- | --- |
| `Invariance` | `[]IInv` |
| `OneVersionIsActive` | `[]SwitchesAreWhole`: one active version with its artifact, at the end of a chain of switches without gaps |
| `ComparisonsHold` | `ComparisonsAreCurrent`: candidates are published, and promoted, on a comparison with the version active at that moment; a job reports the version it used or a later one |

The code reads the active version under the lock of the company and writes later in the same transaction.
`SwitchInv` is that what a promotion or a rollback read stands until it lets go, and that it has the company
to itself, against other switches and against trainings that compare; `ComparedInv` is the same for a
training, which shares the lock. `TrailInv` ties the recorded switches to the rows: the chain is gapless,
every promotion beat what it replaced, and no version of the chain is a candidate again. `ReaderInv`
remembers where in the chain a job joined, which is what makes "the version it used or a later one" provable
although switches go on. `NumberInv` and `WrittenInv` keep the numbers of concurrent trainings apart:
without them two candidates could be the same version.

`ManifestsExplain` is `DatasetSpec => []ManifestExplains`, for any batches, lines, movements and charts and
any number of builds (`DatasetAssumption`: lines and movements are finite sets of records with numbers, and
different things; no batch that is there from the beginning is empty). The argument is about what a build has
judged so far (`JudgedSoFar`): every source it is done with has an example, and that example is the one its
hash determines (`RowOf`), or one exclusion, and not both; so the examples follow from hashes and exclusions
(`Explained`, kept of every manifest), and the counts add up (`Discards`). `LinesRead` is about time: lines
were read whole batches at a time, and an item that nobody has touched since the build began is among what
holds its lines up, although the builder asked for it much later.

### Accounts and imports of a company (`ImportacoesProofs`)

Of the accounts, for any number of codes, batches and commands of the backfill, without an assumption; how
the numbers of identities are handed out plays no part.

| Theorem | Says |
| --- | --- |
| `Invariance` | `[]IInv` |
| `AccountsAreStable` | `IdentitiesAreStable`: a link with an identity has the one its code has, and an identity goes only as its execution created it and with nothing that refers to it |

A ledger batch looks identities up and links to them much later. `LoteInv` says what a batch has created
and not committed: it is new to its code, no other batch creates it (the unique key makes the second
wait), and it is what the batch will refer to. `JournalInv` and `RunInv` say that what a rollback is about
to delete is one identity that an execution created, even when another command has marked the same item of
the journal in between; with `OneIdentity` (the unique key again) that is all the code has, so no link is
left naming it.

Of the sheets:

| Theorem | Says | Assumption |
| --- | --- | --- |
| `MovementsAccounted` | `ImportacaoSpec => []MovementsAreAccounted` | `ImportacaoAssumption`: sheets end, no account has an empty code; `CellsAssumption`: a blank cell, a bad cell and a number are different |
| `LaterUploadsAreBlocked` | `LaterUploadIsBlocked`, about every step of `ImportacaoSpec` | the same |
| `ClosingsAgreeWithLedger` | `LivroSpec => []ClosingsAgree` | `LivroAssumption`: sheets end, what is converted to an amount or a balance is a number, blank or bad, a block has at least one line; `CellsAssumption` |
| `LedgersTellDoubts` | `LivroSpec => []DoubtsAreTold` | the same |

They hold for sheets of any length and content, which TLC sees up to three or four rows. The parsers, the
importers and the reference definitions are recursive functions over the rows or lines. The library's
theorems about recursion take operators as parameters, so what is needed is proved once per function and in
first-order terms (`ReadingStep`, `BlockStep`, `AddingStep`, `BalancingStep`, ...): a function with the right
value at zero and the right step exists on `0..n` for `n = 0` and, extended by one point, for `n + 1`, so on
`0..Len`, and then the CHOOSE that defines the recursive function picks one. Climbing from zero (`Climb`) rests
on the least element of a set of numbers, and that on the well-foundedness of strict inclusion between
finite sets.

What remains is an invariant of the loop, kept by one row or one line. For movements it is `ImportKept`:
every line so far is stored with the status of its kind or warned of, and the running balance of each account
is the reference balance of the lines stored for it; a stored line leaves the earlier lines alone
(`AppendOne`). A batch is then good whatever accounts it saw (`LotIsGood`) and the validator, which states
the rules a second time, agrees (`ValidatorFindsTheSame`). `ImportacaoInv` adds what an upload knows: every
batch of its sheet that was completed before the upload began would have stopped it. For ledgers it is
`Accumulated`: lines told (`LinesTold`), items (`ItemsTold`), the running sums of months and years as
reference sums over the stored lines (`SumsKept`), stated balances that agree (`Reconciled`), and closings of
the last line with a balance, with all warnings (`AboutKept`, `ClosingsKept`). A reference sum is over a set of
lines, and a set that a later line joins has the sum plus that line (`SumExtends`); sets of lines up to an
earlier one do not change (`UpToEarlier`), so an old closing stays right. The invariant is about line by
line, so the size of a block plays no part beyond being positive.

### Charts with dates (`PlanoSnapshotsProofs`)

For any charts, effective dates, imports, people, batches and dates of their lines, without an assumption.
The run `partes` checks `ConflictsAreSettled` on three instances.

| Theorem | Says |
| --- | --- |
| `Invariance` | `[]IInv` |
| `ChoicesSeeAll` | `[]ChosenAmongAll` |
| `ConflictsAreOpen` | `[]ConflictCanBeDecided` |
| `DecisionsAreUnique` | `[]DecidedOnce` |
| `BatchesAreReported` | `LinesAreReported`, about every step |
| `ConflictsSettled` | `ConflictsAreSettled`, the four together |

An import locks the company and a decision locks its item, so neither keeps the other out. `ImportInv` says
that what an import read is what is there when it commits, since nobody else adds an event; `UserInv` that
the item of a decision under way is open, of a conflict nobody has decided, and nobody else's. `ItemInv`
makes the item of a conflict unique and open until it is decided: the end of an import then finds it open
or makes it (`FinishImportStep`), the end of a decision closes it together with the conflict
(`FinishDecisionStep`), and no step of a batch or of the review centre touches it (`ItemsGrow`). For
`BatchesAreReported` the keys of a chain follow older items, so the last item of a chain has no successor
and the chain a free end (`ChainKeyIsFree`, with the least and greatest elements of sets of numbers as lemmas).

`ChartsAreCertain` is `SugestoesSpec => []ChartIsCertain`, for any charts, dates and movements
(`SugestoesAssumption`: dates and numbers of movements are natural numbers). The code asks for the chart of
the first day of a period and of the effective dates within it. `AtMovement` is what it knows on the way:
while no chart changes, the first day has the chart it started with and so has every later effective date it
need not ask for any more. Between two effective dates the chart does not change (the latest effective
date is the same), so at the end every day has it (`ChartsHold`). `InChart` is about decisions and
suggestions: whatever the run writes names accounts of the chart it holds.

### What is only model-checked

- Liveness: `ActiveBatchesSettle`, `LeftoverFilesCollected`, `JobsSettle`. TLAPS does not handle fairness
  and ENABLED here.
- The disagreements of section 16: they are counterexamples.
- That the actions can all be taken, and in interesting orders: the runs fire every action and disjunct.

## 16. Disagreements between code and documentation

Each is the counterexample to a property that says what the documentation, a docstring or a test says.
Two are runs of `PROJECT.json`:

- `DecidedCanBeResolved` (`plano_pendencias`): a ledger item about a date that follows a closed one has
  the key `<date>:after:<id>`, and the route that resolves it reads the whole key as a date: it answers
  409 whatever was decided, and a conflict cannot be dismissed either, so it stays open for ever.
- `SheetCompletedOnce` (`movimentos_duplicados`): the duplicate check of an import of movements has no
  unique key behind it. Two uploads at once both complete, and the next one breaks on two rows.

The others are kept as configurations beside the runs, with the property in the module. TLC stops at the
first property that fails: where a configuration names several, leave out the others to see one.

- `WarningsOfLastAttempt` (`FilaRazaoDisagreements.cfg`): a manual retry resets the totals of warnings but
  keeps the warning rows of the earlier attempt.
- `FirstAttemptFailsForCause` (`FilaRazaoDisagreements.cfg`): a momentarily locked file is treated as a
  deterministic failure, so the first attempt ends the batch; Spec 04 reserves that for deterministic causes.
- `ConsumersRunUntilShutdown` (`FilaRazaoDisagreements.cfg`): one exception ends a consumer while the process
  goes on.
- `CancelledPublishedNothing` (`MLJobsDisagreements.cfg`): a cancel that read `queued` overwrites `completed`.
  The whole job must fit between the read and the commit of the request, so the window is small.
- `OnlyFailedRequeued` (`MLJobsDisagreements.cfg`): the second of two retries puts a settled job in the queue
  again.
- `CandidateHasArtifact` (`MLJobsDisagreements.cfg`): a lost acknowledgement of the commit makes the worker
  remove the artifact of the candidate it has just published.
- `ReopeningNamesConclusion` (`ReviewItemsReopened.cfg`): a reopening that read the item while somebody
  worked on it, and reached its lock after the conclusion, records "in_review" as the state before.
- `RejectedIsClean` (`MovimentosRejected.cfg`): a rejection and an approval of the same movement that
  overlap leave it rejected with a final account and eligible for training, because the rejection has
  nothing to write in columns that were empty when it loaded the row.
- `SheetNeverOverwrites` (`MovimentosOverwritten.cfg`): the version of a row of the sheet is compared
  without a lock, so a review that commits before the import does is overwritten.
- `VersionTracksState` (`MovimentosVersion.cfg`): classification and bulk approval change the movement and
  not its `row_version`, which spec 16 asks for.
- `EventExecutedOnce` (`AgentRunnerRepeated.cfg`): the runner stores an event with its response, after the
  work; two signed copies of one event, each with a nonce of its own, both pass the lookup and make an
  execution each. Spec 14 asks for the event to be stored first.
- `ChangeInvalidates` (`AgentRunnerTree.cfg`): a reconciliation that finds the relevant tree changed
  returns the decision stored for that tree earlier and leaves the execution validated.
- `PublishedInScope` (`AgentWorkspaceScope.cfg`): `git commit -m` takes the whole index, and `_changed_files`
  drops the old name of a rename. What another run of the worktree stages after the status, or a file out
  of scope that was moved to an allowed name, is committed and pushed. Spec 14 ("O commit e o push somente podem incluir arquivos previstos
  na Task Review", `docs/specs/14-esteira-agentes-supervisionada.md:431`) forbids it.
- `LinkCountsLines` (`ContasEmpresaDisagreements.cfg`): two batches load the link of an account before either commits,
  and the second writes its own count over that of the first.
- `FilterSelects` (`ContasEmpresaDisagreements.cfg`): the list of a company's accounts, filtered, fills in accounts
  of the catalogue for the codes whose identity the filter left out.

Met while modelling and not stated as a property:

- A build of the dataset during which a ledger is imported reports a discard that no exclusion explains,
  since `total_descartes` counts the table again (`docs/dataset-contrapartida-contrato.md:80`);
  `DiscardsAreExplained` leaves such builds out.
- No code opens a critical review item about a movement: the two checks for one, in the dataset and in
  the classification, never find any.
- Identities that `importar_snapshot` creates are never financial origins and no route sets the flag on
  an identity: a company whose chart came before its ledgers excludes every line as `origin_invalid`.

## 17. Not modelled

- Admission of ledgers: hash deduplication and disk reservation of concurrent uploads (they decide
  whether a batch is created, not what becomes of it), progress counters, and the retry of a batch whose
  file is missing, which is refused without effect.
- Companies, users, permissions, service credentials: each operation is one row in one transaction, or a
  stateless check of a token.
- Transactions of the first version of the API and the Streamlit page; the correction of a ledger line
  is an action of `DatasetTreino`.
- Export of movements, reading and writing of spreadsheets below the level of cells, number formats,
  dates: conversions to what `LivroRazao` and `ImportacaoMovimentos` take as cells.
- Training and prediction (scikit-learn): an evaluation and a prediction are any value.
- Notifications (stateless), audit, logs and metrics (append-only, read by no rule), migrations and
  scripts run by hand, frontend (renders server states).
- Two concurrent pruners of the telemetry: the maintenance is one scheduled command.
- In `ModelVersions` a commit whose acknowledgement is lost (it is in `MLJobs`); an artifact that
  disappears from the volume is an external action (`LoseFile`).

## 18. Running the checks

```
tlc -workers 2 -config FilaRazao.cfg MCFilaRazao.tla
tlc -workers 2 -config MLJobs.cfg MCMLJobs.tla
tlc -workers 2 -config ReviewItems.cfg MCReviewItems.tla
tlc -workers 2 -config Movimentos.cfg MCMovimentos.tla
tlc -workers 2 -config MovimentosSheets.cfg MCMovimentos.tla
tlc -workers 2 -config AgentRunner.cfg MCAgentRunner.tla
tlc -workers 2 -config ModelVersions.cfg MCModelVersions.tla
tlc -workers 2 -config Partes.cfg MCPartes.tla
tlapm FilaRazaoProofs.tla
tlapm MLJobsProofs.tla
tlapm ReviewItemsProofs.tla
tlapm MovimentosProofs.tla
tlapm AgentRunnerProofs.tla
tlapm ModelVersionsProofs.tla
tlapm ImportacoesProofs.tla
tlapm PlanoSnapshotsProofs.tla
```

The other configurations run in the same way: `FilaRazao*`, `MLJobs*`, `ReviewItems*`, `Movimentos*` and
`AgentRunner*` with the `MC` module of that name, `MovimentosDuplicados.cfg` with
`MCImportacaoMovimentos.tla`, `PlanoPendencias.cfg` with `MCPlanoSnapshots.tla`, `ContasEmpresa*.cfg` with
`ContasEmpresa.tla`. `PROJECT.json` names the runs, the properties each checks, and for every property of
a passing run a mutation of one mapped definition under which it fails. The mutated forms stand next to
the definitions they replace, marked `mutant`.
