# Emperor OS: models, model checks and proofs

Emperor OS is an autonomous agent for two on-chain job markets: AGIJobManager
("v1" and "v2": one employer, one agent, one completion request) and
AGIJobDiscoveryPrime ("Prime": a procurement with commit, reveal, finalist, trial
and scoring windows).  The agent decides, writes and packages; it never signs.
Every transaction is written as an unsigned package that a human operator
reviews, signs and sends.  All state is in files, updated by several `node`
processes that share directories and, but for one lock around the agent's loop,
no locks.

This directory holds TLA+ modules of that system, the TLC configurations that
check them on small instances, and TLAPS proofs.

## 1. Inventory

| Part | Where | State it keeps | Operations | Hard behaviour |
|---|---|---|---|---|
| Prime phase model, next action | `agent/prime-phase-model.js`, `prime-next-action.js` | none | phase of a clock, legal moves, missed windows, the one proposed action | boundaries between windows; statuses the table forgets |
| Prime state store | `agent/prime-state.js` | `artifacts/proc_<id>/state.json`: status, history, hash, integrity error | get, create, set, force, transition; write by temporary file and rename | no lock between processes; a crash in an update; stale whole-object write-back; edits from outside |
| Prime orchestrator and gates | `agent/prime-orchestrator.js`, `prime-review-gates.js`, `prime-artifact-builder.js`, `prime-tx-builder.js`, `prime-execution-bridge.js` | artifacts and unsigned transactions of a procurement | one handler per action, four gates | handlers of ten writes that may stop after any; two cycles at once; a window that closes under a handler |
| Prime monitor | `agent/prime-monitor.js` | block cursors with anchors, health; flags in `state.json` | discover, shortlist and winner events, refresh, reorganisation check | snapshot read before long chain reads; reorganisations; failed reads; deaths |
| Operator tools | `agent/prime_approve_action.js`, `prime_mark_external_action.js` | approval packets, receipts | approve, mark | the check of the status and its move are separate |
| Validator scoring | `agent/prime-validator-scoring.js`, `prime-validator-engine.js`, two endpoints of the console | score payloads, salts, two transactions | discover, score, commit, reveal | two programs over one payload; the reveal must open what was sent |
| Contents, model budget, archive | `agent/prime-content.js`, `llm-router.js`, `prime-retrieval.js` | audit log, `archive/index.json`, records | ask a model, log, extract, search | the budget is counted from a log written after the call; three writes per archived entry |
| v1 job lifecycle | `agent/state.js`, the eight stages, `recovery.js`, `state-retention.js` | `agent/state/jobs/<id>.json` | one stage per file, idempotency claims, recovery | a crash inside a stage; claims never released; recovery's moves |
| v1 operator tools | `approve_for_apply.js`, `run_execute_job.js`, `stage_storage.js`, `build_completion_package.js` | the same job files | approve, execute, stage, package | run beside the agent, with other claim keys |
| Scripts run by hand | `agent/build_*.js`, `seed_*.js`, `run_dry_job.js`, `run_validate_completion.js` and others | files of a procurement or a job | each writes its outputs in order, skips what is there, `--force` | a death between two outputs; runs that overwrite in part |
| Process lock | `agent/lock.js` | `agent.lock` | acquire, break stale, release | two processes that break one stale lock; reused pids |
| Runtime pipelines | `protocols/`, `runtime/`, `app/`, `core/` | one file per work item | stages with guards and transition tables; a daemon and a command line | two writes per stage; a death between them |
| Execution tier | `agent/execution-tier/` | one run's state | select a tier, run, repair, escalate | limits of a loop that answers drive |
| Agent runs | `agent/agent-runner.js`, `adapters/`, `agent-result-ingest.js`, console endpoints | `agent-runs.json` | submit, poll, ingest, cancel | a record merged after an await |
| Validation lane | `validation/` | evidence, adjudication, disputes, settlement | review, score, dispute, reconcile; the dry run of a v1 job | few scores; scores at the tolerance |
| Mission control server | `mission-control/server.js`, `lib/` | the agent's own job files, notification feed | prepare, mark, reconcile, views, scans | requests that await the chain over files others change |
| Mission control browser | `mission-control/src` | panels, figures, lists in memory | select, click, poll, dismiss | answers in any order |
| Employer lane, chain clients, formats, audits, CI, tests, docs | `employer-validation/`, `prime-client.js`, `audits/`, ... | reports | - | mostly pure, or input and output |

### How the parts interact

* The **monitor** polls the chain every few minutes, creates the state of a new
  procurement, sets `shortlisted` and `selection` from events, and moves a
  procurement whose required window has passed to `MISSED_WINDOW`.
* The **orchestrator** reads state and chain phase, asks `computeNextAction`,
  runs one handler.  A handler writes artifacts, asks a gate, builds the unsigned
  transaction and transitions the status, each in a separate awaited write.
* The **operator** reads the review packages, changes some statuses by hand
  (`FIT_APPROVED`, `SHORTLISTED`, `SELECTED`, `DONE`, ... are written by no code),
  signs, sends, and reports with the mark tool or in the console.
* The **contract** holds commitments, opens them at the reveal, emits events, and
  may be reorganised under all of them.
* **Mission control** keeps its packages in the agent's job files, builds the same
  validator transactions as the agent, hands work to outside agents, and shows
  the browser what it read.

What makes each part correct: a status is never reached but along the graph and
never ahead of the files it speaks of (stores, orchestrator, stages, tools,
scripts); the salt that opens a sent commitment is never lost (orchestrator,
scoring); a procurement is given up only when its window is really gone, and is
not forgotten (monitor); no event is skipped (monitor); the state file parses
after any crash, and an edit from outside stays visible (store); what the
operator signs or marks is what the operator chose (console, browser); money is
spent at most once per purpose (claims, budget, tiers, lock).

## 2. Modules and how they correspond to the code

| Module | Models | State | One action is |
|---|---|---|---|
| `PrimePhases` | `prime-phase-model.js`, `prime-next-action.js` | none (operators) | - |
| `StatusGraph` | the promise of `prime-phase-model.js`: a procurement appears as `DISCOVERED` and then moves along `VALID_TRANSITIONS` | `status` | one legal move |
| `ProcStateFile` | `prime-state.js`: one update of `state.json` by several processes | the file, the temporary files, each process's place, version, stamp and descriptor; as a history, the versions computed before the file last changed (`late`) | one awaited step of an update (read and compute, open, write, rename), a crash, or an edit from outside |
| `PrimeProcurement` | orchestrator, gates, builders, monitor, both tools, with operator and contract | state, artifacts, transactions, contract, each handler's place | one write or status update of a handler, one monitor or tool step |
| `PrimeMonitor` | the monitor's poll loop over a chain that reorganises | chain, cursors and anchors in memory and on disk, recorded events, health; as a history, per cursor, the block from which its scans have no gap (`since`) | one chain read or write of a cycle, a block, a reorganisation, a death |
| `ValidatorScoring` | the agent's and the console's score commit and reveal | payloads, transactions, assignment, contract, the pair each request of the console holds | the part of a request before its last await, one write of either program, a death, a signature |
| `PrimeMemory` | `prime-content.js` with the router, `prime-retrieval.js` | contents, audit log, archive index, records | one call, one write, a death |
| `JobStatus` | the v1 status table of `state.js` | none (operators) | - |
| `JobLifecycle` | the eight v1 stages, recovery, retention, the four v1 operator tools | job files, artifacts, contract, the agent's place in its cycle, the tool that runs | one update or one claim of a job file together with the artifacts written just before it; in `validate` the report and the status that follows it are two |
| `SubmissionDryRun` | `validation/contract1-dryrun.js` | none (operators over `JobLifecycle`) | - |
| `OperatorScripts` | the scripts run by hand | per file who wrote it and what it says, the script under way | one write of one output, a death between two or half-way through one |
| `AgentLock` | `lock.js` | the lock file, each process's place, reused pids | one awaited step of an acquisition, a release, a kill |
| `RuntimePipeline`, `RuntimeDaemon` | the stage tables of `protocols/`, `runtime/`; `app/daemon.js` under `AgentLock`, `app/cli.js` under none | work items, artifacts, the copy a runner holds | one write of a state file, a death |
| `ExecutionTier` | `agent/execution-tier/` | one run, the stage on disk | one call of a model, one validation |
| `AgentRuns` | runs handed to outside agents | `agent-runs.json`, requests under way | the part of a request before, or after, its await |
| `ValidatorReview` | `validation/` but for the score's transactions and the dry run | evidence, scores, disputes, settlement | one operation |
| `OperatorQueue` | the console's packages in the agent's job files | the job file, requests under way, the row on the screen | the part of a request before, or after, its await; the read, and the write, of an update of the agent |
| `ChainViews` | rows and operator views of a job | contract, the request at work | one chain call, one event of the contract |
| `NotificationFeed` | `scanAndNotify` and dismissals | feed, scans under way | one await of a scan |
| `BrowserPanels` | `mission-control/src`: `JobDetail.jsx`, `useWallet.js`, `useActions.js` | panels, requests on their way, figures, lists | one click, one answer |
| `MC*` | instances for TLC | - | - |
| `*_proofs` | the theorems: one module each for `ProcStateFile`, `PrimeProcurement`, `JobLifecycle` (with `SubmissionDryRun`), `ValidatorScoring`; `RuntimeDaemon_proofs` (`AgentLock`, `RuntimeDaemon`), `MissionControl_proofs` (`ChainViews`, `OperatorQueue`, `AgentRuns`, `BrowserPanels`), `PrimeMonitor_proofs` (`PrimeMonitor`, `PrimeMemory`), `Services_proofs` (`ExecutionTier`, `OperatorScripts`, `ValidatorReview`) | - | - |

`PrimePhases` is extended by what is about Prime's windows.  `StatusGraph` is the
abstract specification; `ProcStateFile` and `PrimeProcurement` each implement it
(`FollowsGraph`, by `INSTANCE StatusGraph WITH status <- ...`), the first for the
file under one process, the second for the lifecycle under any number of
orchestrators, where an update is atomic.  The two levels belong together: what
`PrimeProcurement` takes as one step is what `ProcStateFile` opens up.
`RuntimeDaemon` composes `AgentLock` with `RuntimePipeline`: the daemon's steps
exist only between an acquisition and a release.  `SubmissionDryRun` extends
`JobLifecycle`, whose states it judges.  `MCServices` and `MCConsole` are not
compositions but collections: their parts share no file in the code, so each
behaviour is about one part (the variable `part`) while the others rest.

What is abstracted:

* A Prime application is a number (the n-th draft) that stands for its URI, salt
  and hash; 0 is none.  Two drafts have different salts, so comparing numbers is
  comparing commitments.  Trials, score salts and archive entries are numbered the
  same way.
* Of a v1 job, a path in the state file is a Boolean (set or not) and an artifact
  is a name in a set of files.  Claims keep their key, since what stops a second
  run is whether the key is the same.  The claims of evaluate, apply, confirm and
  reconcile are keyed by `updatedAt`, which the claim itself changes; they stop
  nobody and are left out.
* The chain's time is a counter; the monitor's snapshot and its later judgement
  are separate steps.
* A file of a script is who wrote it (script and run) and the one word another
  script reads in it.
* A panel of the browser is the job its content is about.
* Texts, prices, ranks, hashes of artifacts and JSON shapes are left out, but for
  what a guard asks of them.  Scores are kept where they are compared
  (`ValidatorReview`, `ExecutionTier`, `Recommended` in `OperatorScripts`).

### Constants that are not sizes

`HelperDefined` (PrimeProcurement, ValidatorScoring).  Every gate calls
`requireJsonFieldValue`, which exists nowhere, so at this commit every gate
fails.  `FALSE` is this commit, `TRUE` is the code with the helper its callers
expect.  The graph, readiness, missed-window and binding theorems hold for both.
`console` uses `FALSE`: a scoring gate is asked after the payload and the
transaction are written, so it decides about a status and not about them.

`Defects` (JobLifecycle).  `"ids"`: `parseVersionedJobId` (`agent/state.js:44`)
doubles the backslash in a regular expression literal, so it never matches a
versioned id, `rawJobId` gives NaN and the market server answers no question
about a job.  `"schema"`: `submit` demands a `schema` field of artifacts that
`execute` and `validate` write without one.  `"retrieval"`: `submit`'s
`ensureTerminalCompoundingArtifacts` looks for a retrieval packet in the
directory `retrieval`, `execute` writes it beside it, so `submit` throws
"Terminal completion blocked" after it wrote completion and manifest and fails
the job.  Each only removes behaviour (it occurs as a conjunct
`... \notin Defects` of a step that could also fail), so a safety property
checked with the empty set holds for this commit too, and for what lies behind
those defects as well.  `jobs_lanes` and `jobs_dryrun` use the empty set,
`jobs_recover` uses all three.

`PromptIsList` (PrimeMemory).  `prime-content.js:253` calls
`llmCall(system, user, spec)`, `llm-router.js:213` expects a list of messages;
at this commit every call throws before a model is asked and a template stands
in, against `prime-content.js:8-9`.  `console` uses `TRUE`, the router as its
other callers use it: with `FALSE` nothing is ever spent.

`DetailsDefined` (OperatorQueue).  The builder of a v1 apply package reads a
variable `details` that it does not declare (`lib/contract-first.js:189`), so at
this commit it throws and the v1 lane writes no such package.  `console` uses
`FALSE`, this commit; the theorems hold for both.

`Overlapping` (AgentLock).  Whether a process may start while another is still
starting.  The lock keeps its promise only if not (section 5); `services`, the
lock's two safety theorems and the runtime's two use `FALSE`, the type theorem
holds for both.

## 3. Runs

| Run | Instance | What it shows |
|---|---|---|
| `statefile_single` | one process, six kinds of update, crashes, own milliseconds | the file implements the status graph (`FollowsGraph`), keeps what was recorded (`FieldsAccumulate`), always parses (`NeverTorn`) |
| `statefile_collisions` | two processes, the same millisecond, forced updates, an edit from outside, histories of at most 3 | whatever races or dies, a version's history is legal (`HistoryIsLegal`), an edit stays flagged (`TaintIsFlagged`), and what is on file is lost only to a version computed before the file last changed (`OnlyLateOverwrites`) |
| `prime_single` | one orchestrator, monitor, tools, operator, two drafts, one crash, windows of one tick | the salt of a sent commitment is not lost (`MaterialBindsCommit`), a prepared reveal opens it (`RevealWillOpen`), a status that asks for a signature has its file (`ReadyHasTx`), no unsent application is missed early (`MissedNotEarly`), the lifecycle implements the graph (`FollowsGraph`) |
| `prime_progress` | one orchestrator, fair, gates repaired | nothing waits for a closed window for ever (`NoLimbo`); an open reveal window leads to a prepared reveal (`RevealIsPrepared`) |
| `prime_missed_early` | one orchestrator | violated: a sent commitment is declared missed in the commit window |
| `prime_gates_closed` | one orchestrator, fair, this commit's gates | violated: no reveal is ever prepared |
| `jobs_lanes` | one job, seeded for review or found on the market, with or without the tools, two deaths of the agent, PINATA_JWT set or unset at each start | one model call per job (`OneCallPerJob`), no status past execution without an artifact (`ArtifactFirst`), none that waits for a signature without its whole package, but for an upload whose bad report a death left unheeded (`PackageIsBacked`), none that claims the chain's assent without a finalized receipt (`FromReceipts`), a job that ended stays so (`TerminalIsFinal`) |
| `jobs_recover` | the same, this commit's defects | violated: recovery attempts an illegal move and the agent cannot start |
| `jobs_dryrun` | the same without deaths, every state put to the dry run | violated: a job with nothing missing does not pass (`PackagedJobPasses`) |
| `console` | nine parts, below | what the operator marks, signs and sees is what it was chosen for |
| `monitor_reorg` | one fair monitor, one reorganisation | violated: a procurement refreshed at a block that was replaced is never refreshed again (`RefreshGoesOn`) |
| `services` | eight parts, below | lock, pipelines, notifications, tiers, review and scripts |

The parts of `console`:

| Part | Instance | Properties |
|---|---|---|
| queue | two requests at once, three packages prepared, one mark of each kind, one status request, the agent's own updates with their read and their write apart, failing reads of the chain | a mark goes to the package chosen (`MarkHitsChosen`), assigned means assigned to us (`AssignedIsOurs`), marks are lost in three named ways only (`MarksKept`) |
| scoring | the agent alone, the console alone with two requests at once, the console with a caller that brings another score or salt, or all of them; two derived salts, one death of a program that is alone | the console alone prepares a reveal that opens what was sent, unless one of two named requests replaced the payload (`RevealOpens`); whoever writes, a reveal holds a pair once committed to (`RevealOfCommitted`) |
| views | one request (`OneView`), two validations, two failing calls, the contract moving under the request | a row shows what was so, as far as it was read (`RowWasTrue`) |
| runs | two requests at once, two packets, three results, five calls | what was taken in stays (`ReportKept`) |
| monitor | a first chain of five blocks, with an event in the second or none, one block more, confirmations and span 1, one reorganisation, one failure or death | no event is skipped (`NoEventSkipped`) |
| memory | a maker that dies once or whose record of a call fails once, a cloud and a local provider, every combination of keys | records name archived entries (`RecordIsIndexed`), the budget holds but for deaths and failed records (`BudgetHolds`) |
| detail, wallet, list | two selections and two clicks over two v1 jobs and a procurement; two accounts; two actions and three polls | what says it has loaded is about what is selected (`SettledIsSelected`), a dismissed action stays gone (`DismissedStaysGone`) |

The parts of `services`:

| Part | Instance | Properties |
|---|---|---|
| runtime | three starts of the daemon that do not overlap, deaths anywhere, reused pids | `OneLoop`, `RefusedForCause`, `StatusFollowsTable`, `BundleBehindSubmission` |
| job, proc | the command line on a v1 item and on a procurement, called at any time from 0 to 6, dying in mid-run | `StatusFollowsTable`, `BundleBehindSubmission`; a procurement comes to rest (`Settles`) |
| feed | two overlapping scans, one entity, a feed of two entries, one scan that breaks | what settles is told (`SettledIsTold`) |
| tier | every combination of features, calls of 9 or 60 hundred tokens | `SpendingBounded` |
| review | three validators, scores 40 and 70, a full trial and a thin one | `DisputedIffApart` |
| desk, bench | the scripts of a procurement and of a job, one death, one run that overwrites | outputs that are all there are of one run (`OneRunUnlessTorn`); a stage that died is made up for (`Repairable`) |

A run marked "violated" checks one statement a comment or a document of the
repository makes; PROJECT.json quotes it.

**Bounds.**  One tick per window lets every handler step fall before, in and
after every window; six ticks pass all windows.  Two drafts are the least at
which material can belong to another draft than the commitment; one draft
suffices where the property does not compare drafts.  One crash in
`prime_single` can fall into any step of any handler; what a second one adds is
a restart from a state another first crash also leads to.  Two processes are the
least that race, and the code has pairwise shared state only (one file).  History
length 6 passes every status of the updates used; with two colliding processes
and edits 3 is enough for a merged history to go wrong at either end, and for one
update to be lost to another and the next to build on what is left.  In
`jobs_lanes` two deaths are needed for the hardest case of `PackageIsBacked` (one
between upload and verification, or between the verification and its report's
status, one in what follows) and suffice for
PINATA_JWT to be set, unset and set again.  `MaxCalls` = 2 is one more than the
invariant allows.  `MaxActive` = 1 makes the market both full and not.  One job is
enough for these properties since each of them speaks of one job, and jobs
influence each other through an aborted cycle and a full market only, both of
which can only withhold steps; section 4 proves the same five for any number of
jobs.

In `console`, two requests of the queue are a preparation and a reconciliation, or
two of either, that wait for the chain together; marks, the two validator
preparations and the agent's reads and writes fall in between and take no slot.
Three preparations make a package of each kind, or of one kind again with another
between, which is what moves a package to another's place; the third is made
where nothing else writes back what it read earlier, that is, without a status
request and between the agent's updates (`LastAlone`).  `OneOfEach`
(`MCConsole`) leaves out behaviours in which one party, we or a stranger, is given
the job of both contract versions: a second assignment differs from the first by
its lane only. `ScoringBounds`: of the two writers of a score either both run or
one may die; of two that run, one that stands still for good leaves the same
files.  Requests overlap where the console is alone, callers come one at a time,
and beside the agent they bring no salt: which of them replaces a payload that was
sent makes no difference to `RevealOfCommitted`.  `WholeScores` are adjudications
of whole points, see section 5.  Two requesters are what `ReportKept` needs: one
ingests, one ends later.  `Confirmations`, `Span` and the six blocks let a
reorganisation fall within the confirmed depth, one block deeper, and on every
cursor; an address (two more scans) and an active procurement (its refresh) are
taken in turn, because they meet nowhere but in the number of steps.  The event in
the second of five blocks is one the first scan of a new monitor leaves out and a
rewind may still reach.  Two selections and two clicks give every order of two
answers for two jobs, three polls a poll under an old filter beside one under the
new.  In `services`, three processes are one that dies, one that breaks its lock
and one more that finds the second's; `InOrder` starts them in a fixed order, as
they are interchangeable.  Scores 40 and 70 lie on either side of the tolerance of
25, and one, two and three of them give every median.  `MaxFeed` = 2 makes entries
drop out.

**Deadlock.**  `CHECK_DEADLOCK FALSE` is set where the system may stop: a counter
at its bound leaves nothing to do, and a procurement or job that ended does so
for good.

**Fairness.**  `prime_progress` and `prime_gates_closed`: weak fairness of each
orchestrator's next step, because `advanceProcurement` is called again every cycle
and awaits nothing that never returns (chain reads that fail return), and of the
monitor's snapshot and judgement, because `startPrimeMonitor` polls with an
interval.  Neither time, nor the operator, nor the tools, nor failing reads get
fairness.  `NoLimbo` is therefore stated on condition that time passes the trial
window.  `monitor_reorg`: the interval keeps starting cycles and a cycle that
began goes on.  `services`: the command line is called again on a procurement
(its documented use is to be called until the work is done) and a call that began
goes on; scans begin, tell and save (`setInterval`, and Telegram calls have a
timeout); a script that began goes on unless it dies, and an operator comes back
to a script that died.  The last one is strong fairness, since other scripts run
in between and make the return impossible for a while.  Deaths, broken scans,
dismissals and the chain have none.

## 4. What is proved

All theorems hold for every value of the constants under the named assumptions
of the modules (deadlines are naturals, bounds are naturals, the marker values
differ from real versions).

`ProcStateFile_proofs`

* `TypeCorrect`, `HistoryTheorem`, `TaintTheorem`: for any processes, updates and
  stamps.  The argument of the last two is one: the versions after a step are
  among the versions before it, the empty state, and the one version `Patched`
  derives from an old one (`VersionsDescend`), and `Patched` keeps a history legal
  (`PatchedIsLegal`) and a flag set.
* `AtomicTheorem`: if no two processes write in the same millisecond, the file
  parses after any crash.  `NeverTorn` is not inductive; `OwnedTmp` adds that a
  process's temporary file is its own, torn while it is open and complete when it is
  renamed.
* `TmpsTheorem`: the same from the weakest condition the argument needs,
  `TmpsApart`: no two updates that are writing at the same time took the same
  millisecond.  Stamps may repeat, as long as the earlier file is renamed by then.
* `OverwriteTheorem` (`OnlyLateOverwrites`): for any processes, in one millisecond or
  not, with force, crashes and edits.  `PendingIsTimely` says of every version on
  its way (in a process or in a temporary file, a dead one's included) that it
  extends the file or was computed before the file last changed.
* `GraphTheorem`, `FieldsTheorem`: any number of processes whose
  updates take turns (`TakingTurns`: no two are at an update at once).  They need
  `OneMoveAway`, the version in flight is one legal move from what is on disk, and
  `KeepsFields`, what is about to be installed has every field of what is on disk;
  both hold because nobody else moves the file meanwhile, and that is all that
  is asked of the others.  The graph wants updates without force too; the fields
  are kept by forced ones as well.
* `AloneTheorem`: one process takes turns by itself, so both hold of it
  whatever it does without force and wherever it dies.

`PrimeProcurement_proofs`

* `TypeCorrect`, and `GraphTheorem`: any number of orchestrators implement
  `StatusGraph`.
* `ReadyTheorem`: `ReadyHasTx` for any number of orchestrators, from `TxInv`:
  beyond the status it speaks of the tool that is about to record a status and
  of every handler that is past its write.
* `MissedTheorem`: `MissedNotEarly` for any six deadlines, from `MissInv`: a
  status that presupposes a commitment, on disk or in a monitor's snapshot, has one
  on chain, and a snapshot is never newer than the clock.
* `BindTheorem`, `RevealTheorem`: `MaterialBindsCommit` and `RevealWillOpen` for any
  number of orchestrators of which no two are between choosing to draft and
  recording the draft at once (`DraftsApart`); everything else they do may
  overlap.  `BindInv` follows the draft through its handler: while it drafts
  nothing is on chain, what it holds is what it has written, and a reveal in
  preparation carries the material.  Where drafts do overlap it is false: the
  slower draft replaces the material of a commitment that was sent (section 5).
  `OneOrchestratorTheorem`: a single one satisfies the condition.
* `GatesClosedTheorem`, the general form of the divergence `prime_gates_closed` shows
  on one instance: as long as the helper of the gates is not defined, no
  procurement gets past `COMMIT_SUBMITTED`, for any deadlines, orchestrators and
  bounds.  `ClosedInv` has to speak of the handlers too: none is past its gate.

`JobLifecycle_proofs`, for any number of jobs, deaths and tool calls, and for
every set of `Defects`

* `JobsTypeCorrect`.  Apart from the types it keeps `Desk`, what the agent holds
  at each place of its cycle.
* `ArtifactTheorem`, `ReceiptTheorem`, from `Evidence`: a status that says something
  was delivered has a delivery on disk.  It speaks of three more places
  where a job is said to have been delivered and its status is not asked again: the
  jobs reconcile has listed, the job in hand when submit records its move, and
  the job in the packaging tool.  Recovery does not undo it, because the table
  lacks the move back to working.
* `OneCallTheorem`, `PackageTheorem`, `EndsTheorem`, from `Own`, which leaves out the
  jobs the operator uses the tools on: the job in hand has the status its stage
  took it up in (`InPlace`), a call of the model has a claim behind it that lets no
  other begin, and a status that waits for the signature has the files of the
  package (`Vouched`).  The package is verified, or a death left the report against
  it unheeded (section 5).
* `MendTheorem`: recover finds nothing to reset in a job that no tool has touched,
  wherever the agent has died, because every stage writes its files before it
  moves the status (`Executed`, with `Evidence` and `Own`).  So `RecoverSurvives`, which
  `jobs_recover` shows to fail, holds where no tool is used: the resets the table
  refuses come up for the tools' jobs only.
* `DryRunTheorem`, the general form of what `jobs_dryrun` shows: the dry run passes no
  job in any state, whatever else it finds.  Its first step refuses the
  statuses outside `Meaningful`, and from each of these it tries to jump to
  `completed` (`SomeMoveFails`).

`RuntimeDaemon_proofs`, first about the lock

* `LockTypeCorrect`, also for starts that overlap.
* `LockKeepsOneLoop` (`OneLoop`) and `LockRefusesForCause` (`RefusedForCause`): for
  any number of processes, deaths at any moment and pids that are used again, as
  long as starts do not overlap.  `LockInv` ties each place of a start to the lock:
  who runs owns a filled file, who is about to break one has read the pid of a
  process that was dead by then, and who is about to create it again finds none.

and about what composes with it: the daemons under the lock's invariant, and the
command line beside them, with starts that do not overlap

* `TableTheorem` (`StatusFollowsTable`) from `RunInv`: who is in the middle of a run
  is past the lock, and the copy a runner holds is the item as it is on disk.  The
  lock's `OneLoop` is what keeps a second daemon from the runtime item; the command
  line has items of its own.
* `BundleTheorem` (`BundleBehindSubmission`), if moreover no call of the command line
  begins a job past its submission (`PlainStarts`; `initialStatus` of its input takes any
  status).  The invariant adds the transitions a stage still owes: after a bundle
  was found whole, a death between the two loses the second only, and artifacts
  are never removed.

`ValidatorScoring_proofs`, for adjudications of whole points (`WholePoints`; with
half points both are false, section 5)

* `RevealWasCommitted` (`RevealOfCommitted`) and `RevealFits` (`RevealOpens`) from
  `ScoringInv`: the score and salt a program holds between its reads and its
  writes were committed to, and with the console alone everything that was
  built or sent is the payload on file, for any number of requests that overlap
  and whatever they bring.  `excused` is the history in which that is false: a
  commit request replaced the payload by another pair, because it brought a score
  or a salt of its own or because it read the files before the payload was
  written (section 5).  Only such a request can.

`MissionControl_proofs`

* `ViewIsTrue` (`RowWasTrue`) from `ViewInv`: a job on chain only gains, so what a later
  call finds includes what an earlier one found, and the status put together of
  both is the one that held when the core was read or one that has held since.
  It holds of a status whose two calls were answered and of approvals that were
  read; what the view shows in place of what it could not read is section 5's.
* `MarksTheorem` (`MarkHitsChosen`), for any number of requests under way: the id on
  the screen names the kind of its package (`RowNamesKind`), and the lookup
  compares the whole id.
* `AssignedTheorem` (`AssignedIsOurs`) from `AssignedInv`: an assignment to us on chain
  is not taken back, so a file or an answer that is written back late is still
  right about it.
* `MarksKeptTheorem` (the action property `MarksKept`) and `KindsTheorem`, from
  `KindsInv`: in the file, and in every copy of it a reconciliation holds over its
  question to the chain, and in what the agent holds over its own update, there is
  one package of a kind at most.  Without it a filter by kind could take out more
  than the package that is prepared anew; with it the filter of the code is
  `Without` of the model, which takes out one. `WithoutKind` and `OneMore` say
  what a filter and an append leave of a list; `MarkChanges` says that a mark
  changes one package and takes nothing back.
* `ReportTheorem` (`ReportKept`) from `RunInv`: a report in a record is about the result
  in the same record, because both are merged into the record of the moment.
* `SettledTheorem` (`SettledIsSelected`) from `DetailInv` and `WalletInv`: a request of an
  effect that still counts is for the selected job, and a panel that is not busy
  shows that job or nothing; a figure that no read is under way for is the
  account's.  `hasty` and `swapped` are the two histories in which it is false (a
  handler that outlives a selection, answers of the wallet out of order;
  section 5), and the theorem, like the property, says nothing of them.
* `DismissedTheorem` (`DismissedStaysGone`): inductive by itself once an answer on its
  way is known to be a set of actions.

`PrimeMonitor_proofs`

* `NothingSkippedTheorem` (`NoEventSkipped`), for any confirmations, span and number of
  blocks, failing calls and deaths, for first chains of any length, and for
  cycles that overlap, which the runs do not have.  `MonitorInv` says of each
  cursor, in the file and in the memory, what is `Firm`: a block with the
  confirmations on top of it below which everything since the last gap is
  recorded.  The property alone is not inductive, because a cursor is taken
  back by more than its anchor tells: by `Span` below an anchor that no longer
  matches (`AnchorInv`: so far down the chain is the one that was scanned), and
  to `Span` below a head that reads lower (`KeyInv`: so far down a cursor is firm
  whatever became of its anchor).  The places of a cycle carry the same for the
  range in hand (`CycleInv`).
* `StaleTheorem`, the general form of what `monitor_reorg` shows: once the block a
  procurement was refreshed from is replaced and no refresh is under way, no
  step of the monitor and no restart refreshes it again, and no failure but one:
  that of the read of this very block, which the code catches as if the block
  were the old one (`FetchUnchecked`).  That or another reorganisation alone can
  end it (`StaysStale`, an action property).
* `BudgetOfManyTheorem`: with any finite number of processes of which at most k
  ask a model at once (`AskAtOnce`), less than the budget, the mishaps and k
  together is asked; a mishap is a death or a record that could not be appended.
  The audit log is read before a call and written after it, so `BudgetInv` counts
  the processes between the two; each may ask once more than the budget, and each
  mishap may lose one entry.  `BudgetTheorem` (`BudgetHolds`) is the case of calls
  that do not overlap, `BudgetOfOneTheorem` that of one process.
* `RecordTheorem` (`RecordIsIndexed`) for any processes that do not overlap between
  reading the index and writing it (`SavesApart`), from `RecordInv`: the copy of the
  index that is about to be saved is the index, and an entry that is about to be
  recorded is in it.  Where they overlap it is false (section 5).
  `RecordOfOneTheorem`: one process needs no such care.

`Services_proofs`

* `SpendingTheorem` (`SpendingBounded`) from `TierInv`: the tiers tried are the one
  selected, or that one and its successor, and what was asked is within the
  calls of the first and those counted in the second.
* `OneRunTheorem` (`OneRunUnlessTorn`), for any order of the scripts, any deaths and any
  runs that overwrite, from `ScriptsInv`: an output that is last in a script's
  order and there has all the others of its run before it (`WholeRun`), and of
  the script under way what it has done is there, of this run and whole, and
  what it has left is the rest of the table's list (`Progress`).
* `ReviewTypeCorrect` and `DisputedTheorem` (`DisputedIffApart`), for any finite number of
  validators and any scores.  The model sorts by choice among the orders of the
  validators (`Sorted`); that one ascends is an induction over the subsets of the
  validators (`OrderExists`).  The library's induction theorems take operators;
  `SetOfAll` gets induction for sets instead, from the well-foundedness of the
  order on the naturals.  The trimmed mean lies between the extremes because
  a sum over n places lies between n times the lowest and n times the highest
  value (the section on sums over finite sets, which proves of the library's sum
  that it adds one element at a time), and n is not 0 where it divides.
* `ScoreInRange`: no adjudication leaves the range from 0 to 100, so the clamp of
  `normalizeScore` cuts none off.

**Hypotheses.**  Those that are not assumptions of a module are stated in the
theorem.  Where the code has no lock and the property needs one, the theorem
asks for turns and for no more: `TakingTurns`, `DraftsApart`, `AskAtOnce`, `SavesApart`,
`TmpsApart`, each over the few steps in which two processes harm each other, and
each true of one process without further ado (`AloneTheorem`,
`OneOrchestratorTheorem`, `BudgetOfOneTheorem`, `RecordOfOneTheorem` prove that, so
none is a hypothesis no behaviour meets).  Besides: updates without force, starts
that do not overlap, adjudications of whole points, and for
`GatesClosedTheorem` the helper that this commit lacks.  The runs have instances
that meet each.

**Only model-checked.**  The liveness properties (`NoLimbo`, `RevealIsPrepared`,
`Settles`, `SettledIsTold`, `Repairable`), which are out of the prover's reach.  Every
invariant and every action property of a passing run is proved; `NeverTorn`
and the properties above without their hypothesis are false, and the divergence
they come from is in section 5.

## 5. Divergences

Where the code does something other than its documents or its other parts say.
Those with a run are in PROJECT.json as findings; the rest were met while
modelling, are in the models as the code has them, and have no run.

Prime

* `setProcState` has no lock: an update computed before a terminal status
  replaces it (`prime-state.js:174`, against `prime-phase-model.js:64`), and one
  computed before another was installed loses it.  `OnlyLateOverwrites` says that
  nothing else takes recorded work away.
* `writeJson` names its temporary file by the millisecond (`prime-state.js:52`), so
  two writers in one millisecond may publish a truncated file; line 7 says "All
  writes are atomic".  `AtomicTheorem` assumes distinct milliseconds.
* `handleDraftApplication` overwrites `commitment_material.json` before it looks at
  a status (`prime-orchestrator.js:360`), so of two orchestrators the slower
  loses the salt of a commitment the operator has sent
  (`prime-artifact-builder.js:191` says what the salt is for).
* `recordLinkedJobCompletion` (`prime-execution-bridge.js:313`) sets
  COMPLETION_READY although no handler that can be reached builds the completion
  transaction that status announces (`prime-phase-model.js:277`); `ReadyHasTx`
  therefore ranges over the four kinds the code does build.
* `handleDraftApplication` (`prime-orchestrator.js:371`) sets COMMIT_READY without a
  gate, although line 17 says every handler passes one.
* `stake_preflight.json` is rewritten with unanswered questions in every cycle of
  its handler (`prime-artifact-builder.js:311`), so the operator's answers there
  (line 308) are lost.
* SHORTLISTED, NOT_SHORTLISTED, WAITING_SCORE_PHASE, WINNER_PENDING, SELECTED,
  REJECTED, DONE, COMPLETION_SUBMITTED and FIT_APPROVED are set by no code: the
  model leaves them to the operator (`Decide`), along the graph.
* Nothing calls `advanceAllActive` or `startPrimeMonitor` but their own files, and
  neither takes the agent lock.

Monitor

* Anchors are compared at the start of a cycle only.  A reorganisation deeper than
  `REORG_SAFETY_BLOCKS` that falls between that comparison and the scans of the
  same cycle, into a scan, or between a scan and the reading of its anchor, is
  anchored over and its events are skipped.  `Reorg` leaves these out: one
  deeper than the confirmations happens while no cycle scans and every anchor
  is there.
* The shortlist and winner cursors begin at 0, which the first scan cuts to the
  last thousand blocks, so earlier events are never seen.
* `from > safe` moves a cursor back without an anchor; recorded events of replaced
  blocks stay; the evidence of a winner is appended again by a second scan.
* Failures are counted on disk across restarts; a fatal count in the first cycle
  reaches `handle` before it is initialised (a ReferenceError).
* A failing read of the block a procurement was last refreshed from counts as a
  block that is still there (`prime-monitor.js:374-376`), so a procurement that is
  passed over because that block was replaced is refreshed after all
  (`FetchUnchecked`).
* `setInterval` may start a cycle while one runs; the runs have cycles that do not
  overlap, `NothingSkippedTheorem` has any.
* A head that reads lower than the last one sets all cursors to a thousand blocks
  below it, "Rewinding cursors" in the log (`prime-monitor.js:194-199`).  A cursor
  that failed scans left further behind goes forward, and the blocks between are
  never scanned.  `since` records this gap, as it does the one of the first scan,
  and `NoEventSkipped` speaks of what a cursor has passed without one.
* `docs/audits/MAINNET_READINESS_AUDIT_2026-04-04.md:87` claims the rollback of a
  submitted status, which `setProcState` refuses (see `monitor_reorg`).

Contents and archive

* No entry of phase "application" is ever archived (`seedPrimeArchive` has no
  caller).  Each poll of a completed job extracts it again.
* A call whose record cannot be appended is answered by a template and not counted
  (`prime-content.js:71-80`): the model was asked, the budget does not know.
* Two makers lose each other's index entries (`RecordIsIndexed` is checked for one).
* The handlers `default`, `development`, `research` and `creative` (line 35-39 of
  each) call `llmCall` as `prime-content.js` does; `legacyLlmCall`
  (`llm-router.js:331`) has the arguments they pass.

Validator scoring and validation lane

* The agent scores again with a new salt and overwrites the payload of a
  commitment that was sent; `RevealOpens` is therefore stated for the console as
  the only writer.
* The console's score commit uses the salt on file again, but not where the request
  brings one (`server.js:3453`), nor where it brings another score, nor where two
  first requests read the files before either wrote (`server.js:3434`, then awaits
  up to 3460): each replaces the payload of a commitment that may have been
  sent.  `RevealOpens` excuses these and no other.
* The commitment hashes the score as it is, the reveal encodes `Math.round` of it:
  an adjudication with a half point does not open.  `console` takes whole points.
* The agent's scorer never reaches the READY statuses, and the console writes
  lower-case ones of its own.
* `adjudicateScore` depends on the time of the call, though line 16 says "One
  deterministic output per evidence bundle"; its timeliness uses the scorer's
  clock.  `score-tx-handoff.js:71` says keccak256 and hashes with sha256.
* The spread of the scores starts its sum at the number of scores.  A winner is
  looked up among the validators, so a settlement is RECONCILED only when the
  winner is one of them.  `resolveDispute` has no check of a final status.  Each
  check of the assignment sets the validator's lifecycle back to DISCOVERED.
  Collecting and resolving at once lose one of the two.

v1

* The table (`agent/state.js:125-192`) lacks moves the stages make.  `discover`:
  queued to review_pending and queued to assigned; `evaluate`: queued to failed.
  The error is not caught, the cycle ends, and the stages after it do not run in
  that cycle for any job.  A queued job nobody wants does so in every cycle.
  (`docs/PRODUCTION_FAILURE_SCENARIOS.md:17` lists it: "One failing
  job/procurement blocks full cycle.")
* `reconcile`: completion_pending_review to completed is missing.  The stage logs
  the error; each poll extracts the completion to the archive before it, and
  nothing looks at a job again once it is submitted.  `completed` is reached
  only through the rule that a status without an entry may become any terminal
  one.
* That rule also lets failed become completed.  It happens when a tool fails a
  job that reconcile has listed; this is why `TerminalIsFinal` leaves out the
  jobs the operator uses the tools on.
* `submit` looks for a finalized receipt under `requestJobCompletion` (lines 131-135);
  receipts are bound under `completion`, so the check never finds one
  (`SubmitClaim`).  Without PINATA_JWT `submit` throws before it looks for
  work, and `reconcile` never runs.
* `validate` writes its report (`validate.js:81`, `:171`) before the status that heeds it.
  A death between the two leaves a report with `ok: false` and a claim that keeps a
  restart with the same key from looking again; `submit`, which takes up the same
  status and asks only whether a report of its schema is recorded, then packages
  the job (the report's path is recorded since an earlier validation, when
  PINATA_JWT was set otherwise).  `PackageIsBacked`
  exempts that job (`unheeded`); at this commit the "schema" defect stops `submit`
  first.
* A claim is never released.  A crash after the claim of `execute` leaves the job
  assigned for good, and likewise in `validate` and `submit`; `README.md:511` of the
  repository calls the workflow fully resumable.
* `execute` and `run_execute_job` use one claim slot with different keys, so each
  erases the other's claim and a second model call is possible; `OneCallPerJob`
  leaves out the jobs the operator uses the tools on.  On such a job
  `run_execute_job` also moves publication_pending back to deliverable_ready, from
  which `submit` packages an upload that nobody verified; this is why the
  agent's half of `PackageIsBacked` leaves them out.
* `run_execute_job --force` accepts storage_verified, from which deliverable_ready is
  no legal move: the job fails.
* A job assigned to somebody else stays in confirm's list for ever.
* `discover` lists the same market under two contract versions, each with a state
  file of its own; MAX_ACTIVE_JOBS is compared once at its start.
* `app/daemon.js` runs recovery and retention around the newer runtime pipeline;
  `runOrchestratorCycle` has no caller in the repository.  The model runs the
  documented cycle between them.
* A retained job is forgotten with its claims; should the contract still name this
  agent, only the missing move queued to assigned keeps it from a second model
  call.  `pruneStateFiles` counts the overflow after the expired files and
  compares it with the total removed, so it removes too few.
* The dry run measures the deliverable untrimmed, `validateOutput` trimmed.

Scripts

* `approve_prime_commit_package` cannot succeed on material any script writes: that
  of `build_prime_commit_material` lacks the subdomain and the proof, although the
  hint names that stage, the seeded one lacks `procurementId`, and a live one
  needs `readyForCommitTx`, which nobody sets.  Unforced it accepts a transaction
  built before the material was, and the constants of `build_prime_unsigned_tx`,
  which overwrites a procurement's transaction with a fixture's.
* `build_prime_commit_material` overwrites the orchestrator's
  `commitment_material.json` (the salt of a sent commitment) without `--force`,
  since the orchestrator writes no review packet beside it.  It asks for four of
  the draft's five outputs, so after a death before the fifth the material is
  built, and the draft, run again, replaces the files it hashed.
* `publish_prime_application` looks for each of its outputs before it writes it
  (`Keeps`), where the others look once for all; so after a death its next run
  adds the rest to what is there, and the outputs are of two runs.
* A death between the last output and the state update is not made up for; the
  last output of a script that writes in place, torn by a death, stays torn until
  `--force`.
* `publish_prime_application` reports `localHashVerification` "verified" and hashes
  nothing, and rewrites `state.json` without its hash, for a live procurement too.
* `run_validate_completion` leaves when one of its outputs exists, so a death
  between them leaves no packet until `--force`; `Repairable` leaves this script
  out.  It asks the report for `passed`, `run_dry_job` writes `ok`.
* `run_dry_job`'s manifest hashes `job_completion.json` before it is rewritten, and
  an unsigned transaction of an earlier run stays when validation fails.
* `clear_test_review_queue` lists `v1_fixture_apply_001`, the seed writes `v1_001`; it
  deletes a job by the status it had before its awaits.

Lock, runtime and tiers

* With overlapping starts two loops run: one process removes the lock another has
  just created in place of a stale one, and a lock created and not yet filled
  reads as stale.
* A submission with an incomplete bundle asks for SUBMISSION_READY to
  BLOCKED_ARTIFACT_EMISSION_REQUIRED, which the table lacks: the daemon exits.  A
  call that dies between the two writes of one stage strands the item (`died` in
  `Settles`).
* T3 is never applied for without an explicit confidence; an escalation spends
  more than was priced; `finalizePlan` is not counted; `withinBudget` is always true;
  `finalize` asks for repair logs that a run without repairs does not have; a state
  file that does not parse begins at discover.  Nothing in the cycle calls the
  tiers.

Mission control

* The prepare endpoint checks the status, awaits the chain and writes without
  another look (`server-apply-prepare.test.js:114` tests "rejects non-open existing
  job state" without the wait).  A failed read of the core lets it go on, and
  the view then says "Open".  A failed read of the bond gives '0' and approve(0).
* The reconciliation, a status request too, writes back the file it read before it
  asked the chain: it loses marks, and may set assigned over deliverable_ready
  or completed.  So does the agent's `setJobState` (`agent/state.js:229-263`), which
  reads, awaits and writes in another process.  With the package prepared anew
  these are the three exceptions `MarksKept` names.
* A job the contract delisted reads "Delisted" in a v2 view and "Open" in every row
  and v1 view: `deriveJobStatus` is there twice (`server.js:555`,
  `lib/contract-first.js:22-30`).
* When the validation of a job cannot be read, its approvals show as 0
  (`server.js:830`, `v1-operator-view.js:59`) next to the validations the same view
  lists from the logs.  `RowWasTrue` is about counts that were read.
* The builder of a v1 apply package throws a ReferenceError (`details`,
  `lib/contract-first.js:189`): no v1 application is packaged at this commit.
* The packages of v1 and v2 for jobs of the same number share one file name; a
  package prepared anew has the id of the old one; marking a finalized package
  as broadcast resets it to pending.
* `VERSIONED_JOB_ID_RE` has doubled backslashes; the agent's discovery names a file
  `v1_77.json`, the console `77.json`.
* A dismissal that comes while a scan awaits Telegram is lost; an entity that no
  longer needs attention keeps its last status, so the same status later is not
  told again.
* Two starts of the runner both spawn it while `npm install` runs; a runner killed
  by a signal still counts as running; stop's timer kills whatever runs by
  then; the script it runs is not in the repository.
* A run record is pushed twice and only the first copy updated; a poll may
  overwrite "ingested" and "cancelled" by what the agent's server said before;
  the phase is never passed, so a Prime packet always asks for the commit's
  files; a result of any status, and for another packet, is taken in.
* Browser: the handlers of buttons show, and open the files of, a job that is no
  longer selected; `completionMeta`, `briefSpec` and `scoringBrief` are kept for the
  next job; the first effect leaves the operator view and the artifacts of the
  former job while the new ones load; balances of the former account stay when a
  read fails; answers to `eth_accounts` out of order leave the former account; a
  poll under an old filter fills the new list; "dismiss all" counts a failed
  dismissal as done and drops what arrived meanwhile.

## 6. Not modelled, and what could follow

PROJECT.json lists every part with its reason.  Not modelled:

* the employer lane (it keeps nothing between runs), the scoring formulas of jobs
  (`score.js`, `strategy.js`: choices in `JobLifecycle`), chain clients and ABIs,
  formats and hashes of packages, the reports of settlement and readiness;
* of mission control the drafts, uploads, job requests, the runner process and the
  pages that only show an answer;
* texts, ranks and rollout percentages; audits, CI scripts, tests and
  configuration.

What could follow:

1. The claims of `JobLifecycle` as two steps (read, write) under two agents, on the
   pattern of `ProcStateFile`, and a second job in its instance: a failing job and
   the progress of the other.
2. A run with cycles of the monitor that overlap, and reorganisations inside a
   scan.
3. Proofs: what stays true of `MaterialBindsCommit` when drafts overlap and of
   `RecordIsIndexed` when saves do; type theorems for the parts of `console` and
   `services` that have none.

