# A TLA+ model of jobcli

`jobcli` (the `wboxcli` command) applies to jobs on a user's behalf.  It imports
listings from the WBL server into one SQLite table (`discover`), drives a
visible Chrome through them one by one (`apply`, `continue`), lets a human take
over where the program is stuck, and reports to the server (`sync`, and the
upload at the end of each run).  Paths below are relative to `src/src/jobcli/`.

This directory holds specifications of that program, the configurations TLC
checks them with, and proofs TLAPS checks.

1. Inventory
2. Modules and runs
3. ApplyBatch
4. FieldMemory
5. UsageOutbox and Delivery
6. Discovery
7. ApplyJob
8. ToolExecutor
9. SelfHealing
10. Phases
11. AtsForm and AshbyAnswers
12. FormRows
13. What is not modelled

## 1. Inventory

| Part | State | Operations | What is hard about it | Modules |
|---|---|---|---|---|
| Apply batch, checkpoint: `cli/main.py` `_run_apply`, `utils/apply_checkpoint.py`, `utils/exit_signal.py` | `jobs.status`; `config["apply_run_checkpoint"]`; exit flag; the run's list, cursor and exit reason | fresh batch, `--url`, resume, stop, save/clear checkpoint, question | Ctrl+C, quit keywords and kills anywhere; a cursor counted in two lists; a checkpoint read long after it was written | ApplyBatch |
| Application engine: `orchestration/engine.py` | page, `_stop_requested`, flags of skipped jobs, counters | detect, hand over, fill, review, submit, record | many loops that call one another; a submission and its record are not one step; some paths return a status they never write | ApplyJob, ApplyBatch |
| Log reconciliation: `analytics/backfill.py`, `cli/upload_pipeline.py` | `job_<id>/application.jsonl` | promote to SUBMITTED | a file keyed by a row id that is reused | ApplyBatch, Discovery |
| Discovery: `orchestration/wbox_discoverer.py`, `scanner.py`, `source_filter.py`, `utils/url_normalize.py` | job table | clear, import row by row | not atomic; ids, statuses, logs and uploads get out of step; paging over a list that changes | Discovery |
| Repositories: `storage/` | SQLite tables | one commit per call | several processes, no lock | all of the above and below |
| Field memory: `intelligence/memory.py`, `sync/sqlite_merger.py`, `sync/extractor.py` | answers with counts, confidence and source | save, outcome, look up by priority, merge, extract | merge protection against local writes and against the server; gate at 0.6 and 3 | FieldMemory |
| Sync and usage outbox: `sync/manager.py`, `sync/client.py`, `analytics/service.py` | `last_sync_at`, event queue with retry time | upload activity, flush | swallowed failures, answers that are errors without an exception, lost answers | UsageOutbox, Discovery |
| Human interaction: `human/` | a pending prompt | hand over, ask, review, skip, cancel, quit | prompt against what the human does in the same browser | ApplyJob, FieldMemory |
| Tool executor: `orchestration/tool_executor.py` | failed actions, completed uploads | fill, select, click, upload | loose matching of labels; others write into the same form | ToolExecutor |
| Execution and healing: `execution/`, `healing/` | patterns file, failure history, confidence | locate, act, verify, heal, learn, escalate | repeating an action that worked; a file shared by sessions | SelfHealing |
| Asynchronous engine, phase state machine: `orchestration/async_engine.py`, `state_machine.py` | semaphore, last request time, statistics, phase | rate limit, phases with retries | check-sleep-set race; when to stop trying | Phases |
| ATS handlers and locators: `ats/`, `utils/fill_guard.py` | the DOM of a foreign page | click Apply, fill, go through steps, submit, judge | clicks that time out after they arrived; several passes over one field; answers by rule | AtsForm, AshbyAnswers, FormRows |
| Profile, canonical model, semantic engine, application memory, LLM client, automation, launcher, diagnostics, API server, coder agent | | | | none, see section 13 |

How they interact: `_run_apply` owns the process.  It calls the engine's
`apply_to_job` for each job of its list; the engine writes `jobs.status` through
the repository and the success marker into the job's log; it fills a form with
the LLM's plans through the tool executor, or by rules through an ATS handler;
the signal handler sets the exit flag, which the loop, the engine (`_check_stop`)
and the prompts read and turn into `ExitRequested`; the shutdown releases the
interrupted job, writes or clears the checkpoint, and runs the upload step,
which reads the logs back, repairs statuses, and flushes the queue of events.
`discover` replaces the table the next run reads.  `execution/`, `healing/`, the
asynchronous engine and the phase state machine are library engines of the same
repository; the command line does not call them.

What makes each part correct, in brief: *apply batch* - nothing is applied to
twice, nothing is lost between runs, a resume runs exactly what is left;
*discovery* - the table mirrors the listing, what was applied to is not offered
again, no row inherits the history of another, activity is reported; *field
memory* - a human's answer is not replaced by a machine's, and only trusted
answers are used; *outbox* - an event is not marked sent before it is delivered,
and is delivered in the end; *engine* - SUBMITTED is recorded only with something
behind it, a skip is final, a job ends; *tool executor and handlers* - what
is filled is kept, an answer goes to its own question, a form is sent once;
*healing* - nothing is counted that did not work, nothing sent that failed;
*asynchronous engine* - requests keep their rate and jobs end.

`PROJECT.json` lists the hazards at the lines where they bite and the property
that watches each of them, or the reason why there is none.

## 2. Modules and runs

| Module | Models | Proofs |
|---|---|---|
| `ApplyBatch` | one `apply` process after another over one table, with stops and kills | `ApplyBatch_proofs` |
| `FieldMemory` | the table of answers, over jobs, prompts, handoffs, merges | `FieldMemory_proofs` |
| `UsageOutbox` | the queue of events, processes that flush it, a failing network | `UsageOutbox_proofs` |
| `Delivery` | what the queue promises; the abstract specification of UsageOutbox | |
| `Discovery` | the job table across imports, runs, reconciliations and uploads | `Discovery_proofs` |
| `ApplyJob` | one `apply_to_job` from the landing page to the row | `Engine_proofs` |
| `ToolExecutor` | the actions of a plan on one form that others write into too | `Engine_proofs` |
| `SelfHealing` | actions, verification, healing, the shared patterns, escalation | `Retries_proofs` |
| `Phases` | the asynchronous engine and the phase state machine | `Retries_proofs` |
| `AtsForm` | the twenty handlers on the site of a job | `AtsForm_proofs` |
| `AshbyAnswers` | what Ashby's handler answers without an LLM; extended by AtsForm | |
| `FormRows` | repeating sections of the generic filler and of Workday | `FormRows_proofs` |

Each module `M` with variables has an `MCM` module with the definitions its
configurations need; the `_proofs` modules extend the modules they are about and
`TLAPS`.  Two of them extend two modules each, the engine with its tool executor and
the two ways of trying again; where both modules of a pair have an operator of one
kind, those of `ToolExecutor` and `SelfHealing` begin with `Tool` and `Heal`.  Every
safety invariant and every action property of the passing runs is proved for all
values of the constants, four of them under an assumption that their sections name;
the liveness properties are not, because the prover has neither fairness nor
ENABLED.  Operators marked "Fault:" are not used by the specifications: they are the
plausible bugs with which each property was tried, and each property is violated by
one of them.

The modules meet at interfaces rather than in one product, which would be out of
reach: the `Job` actions of `ApplyBatch` are the outcomes `ApplyJob` arrives at;
the "any filling and possibly a click" of `ApplyJob` stands for `ToolExecutor`,
`AtsForm` and `FormRows`; the reconciliation and the statuses of `ApplyBatch`
occur again in `Discovery`, with one job at a time; `UsageOutbox` is what the
upload at the end of a batch flushes.  One refinement is checked and
proved: `UsageOutbox` implements `Delivery`.

| Run | Configuration | Question |
|---|---|---|
| `apply_batch` | `ApplyBatch.cfg` | two fresh batches, a `--url` run, resumes and interruptions over two jobs |
| `apply_batch_resubmit` | `ApplyBatchResubmit.cfg` | README:483 against an application sent and not yet recorded: violated |
| `field_memory` | `FieldMemory.cfg` | one question on one ATS and on unknown ones, any number of jobs and merges |
| `usage_outbox` | `UsageOutbox.cfg` | two processes on one queue, killed, refused, locked out, answered too late |
| `discovery` | `Discovery.cfg` | discoveries of a list that changes, beside scans, resets, uploads and every kind of run |
| `apply_job` | `ApplyJob.cfg` | one application on every kind of landing page, with and without an LLM |
| `tool_executor` | `ToolExecutor.cfg` | a plan of three actions on a form whose labels are alike |
| `self_healing` | `SelfHealing.cfg` | two sessions that share the patterns file |
| `phases` | `Phases.cfg` | three jobs for two permits, or through the phase graph |
| `ats_form` | `AtsForm.cfg` | all handlers on eleven sites, with a parser, a user, dialogs and a late click |
| `ats_form_labels` | `AtsFormLabels.cfg` | `form_fields.py:835` against the NameError at line 941: violated |
| `form_rows` | `FormRows.cfg` | both fillers on thirteen sites, with late rows, a parser, a user and late clicks |

Every passing run ends within five minutes on two cores.  The *further
configurations* named below are kept beside the runs for whoever changes the
code.  Five hold further properties at the same bounds: `ApplyBatchFurther`,
`DiscoveryFurther`, `ApplyJobFurther`, `AtsFormFurther` and `FormRowsFurther`.
The others show what a document promises and the code does not do, or not in
every case: TLC reports a violation, which is described in the section of the
module.  Where a configuration has two such properties TLC stops at the first;
take its line out to see the other.

## 3. ApplyBatch

### State and actions

`ApplyBatch` models one `wboxcli apply` process after another over one table.

| Variable | Code |
|---|---|
| `status` | `jobs.status`; "ABSENT" for an id without a row |
| `checkpoint` | the JSON under `apply_run_checkpoint`: `job_ids`, `next_index` |
| `logged` | jobs whose `application.jsonl` holds "Application completed successfully" |
| `pc` | where the process is; "idle" when there is none |
| `kind`, `queue`, `fullIds`, `base`, `pos` | `url` / `resume`, `jobs`, `full_job_ids`, `batch_start_index`, the loop variable `i` of `_run_apply` |
| `exitReason` | `exit_reason` and whether `interrupted_at_index` was set |
| `outcome` | what `apply_to_job` returned for the last job |
| `exitFlag` | `exit_signal._exit_requested` |
| `applied` | history: jobs whose employer received an application |

A process begins with `StartBatch` (a selection by `--sort`, `--limit`,
`--job-id`, domains, `--ats`), `StartUrl` (`apply --url`), `ContinueRun` or
`ContinueNothing` (`continue`, `apply --continue`, or "yes" to the question at
the end).  `TakeJob` is the write of IN_PROGRESS; the `Job` actions are the
paths through `apply_to_job`, reduced to what they write and to the order of
submission, log and table; `CheckStop`, `UserLeaves` and `ExitBetweenJobs` are
the ways a stop request is noticed.  `Shutdown` is the tail of `_run_apply`, one
action per commit.  `CtrlC` sets the flag at any moment and `Die` ends the
process at any moment (second Ctrl+C, kill, uncaught exception).

Left out: how a form is filled (`ApplyJob`); the run counters and
messages; `saved_at`, `mode`, `sort` and `limit` of the checkpoint, which no
decision reads beyond the list already saved; the order of a listing, because a
user chooses any part of it in any order through `--sort`, `--limit` and the
domain filter.  Whether the engine's judgement of success is right is left open:
`LogSuccess` may follow a form that was never submitted, `ReturnRecorded` a form
that was.

### Runs

`apply_batch` runs two jobs through two fresh batches, one `--url` run and any
number of resumes, with two interruptions anywhere.  `apply_batch_resubmit` is
README:483 against an application that was sent but not recorded yet: violated.

Properties of `apply_batch`, beyond the type invariant:

- `StoppedJobIsReleased` - after a clean stop the interrupted job is pending
  again or decided.
- `NoReapplication` - no run takes a job that is recorded SUBMITTED.
- `ResumeSkipsFinished` - a resumed run takes only pending or interrupted jobs.
- `NoPendingLeftBehind` - a saved cursor passes no job that is still pending.
- `SavedJobsAreRun` - if the user keeps continuing and starts no further batch,
  every saved job is run.

Further configurations:

- `ApplyBatchFurther` - `ResumeListIsFilteredSuffix`: the list computed by
  positions equals the list a reference definition computes by filtering.
- `ApplyBatchSkip` - README:497 against the status of skipped LinkedIn jobs:
  `SkippedIsRecorded` is violated.
- `ApplyBatchRepeatedId` - the comment at `cli/main.py:1375` against
  `--job-id 1,1`: `NoReapplication` is violated.
- `ApplyBatchFilteredResume` - README:443 against `apply --continue --ats ashby`:
  `NoPendingLeftBehind` is violated.

Bounds.  Two jobs give every relation the properties can tell apart between two
positions of a list (before the cursor, at it, after it), and two fresh batches
with a `--url` run let another run change the rows a checkpoint refers to.  Two
interruptions reach a stop of a resumed run, a Ctrl+C followed by a kill, and an
interrupted shutdown.  Three jobs with two interruptions exceed five minutes;
`ApplyBatchFilteredResume` needs and has three jobs.  The proofs cover every
size.  `RepeatedIds` and `FilterResume` are FALSE in `apply_batch`, because the
code does violate `NoReapplication` with the one and `NoPendingLeftBehind` with
the other: those are two of the further configurations.  Deadlock is not checked:
with all bounds used up nothing is left to start.

Fairness.  `WF_vars(Program)`: the process runs on, which the operating system
gives it; prompts are answered in the end, or time out.  `WF_vars(ContinueRun)`:
the premise of `SavedJobsAreRun` is a user who keeps continuing.  Nothing is
assumed of interruptions, new batches, or of which answer a prompt gets; the
bound on interruptions stands for "interruptions end some day", without which no
program finishes anything.

### Proofs

`ApplyBatch_proofs` proves, for every table, every selection and every number of
interruptions:

- `TypeCorrect`: `Spec => []TypeOK`.
- `BookkeepingHolds`: `Spec => []Bookkeeping`.
- `StoppedIsReleased`: `Spec => []StoppedJobIsReleased`.
- `NothingLeftBehind`: `NoPendingLeftBehind`, assuming `~FilterResume`.
- `NeverReapplied`, `ResumeIsSafe`: `NoReapplication` and
  `ResumeSkipsFinished`, assuming `~RepeatedIds`.

The assumptions are those of the module: `Ids` is finite, the bounds are
naturals.  `NoPendingLeftBehind` is not inductive: it speaks of the moment of a
save, and needs to know how the list of a resumed run lies in the list it saves.
The inductive invariant is `TypeOK /\ Bookkeeping`:

- `Control`: which variables mean something at which `pc`.
- `Aligned`: job m of the run's list stands at place `base + m` or later in the
  list it would save, and every pending job behind `base` is in the run's list.
- `Passed`: what the loop has passed is not pending any more.
- `Distinct` and `Ahead`: without repeated ids lists are injective, and what the
  loop has yet to take is as it was when the list was made.

`Aligned` for a new resumed run is the hard part: `ResumeList` derives it from
`PlacesLeft` and `Rank`, with the lemmas `RankBounds`, `RankInjective` and
`RankOnto` on the position of the k-th element of a finite set of naturals.

Only model-checked: `SavedJobsAreRun` (liveness), and
`ResumeListIsFilteredSuffix` (its reference definition uses the recursive `SelectSeq`).

## 4. FieldMemory

### State and actions

`FieldMemory` models the table `field_answers` and everything that writes to it.
A row is keyed by normalised label and ATS and holds value, source, two counts
and the stored confidence, a pair `<<n, d>>` for n / d.

| Variable | Code |
|---|---|
| `answers` | the table; `NoRow` where there is no row |
| `stage` | no process, between jobs, or where `_agent_fill_loop` is in a pass: before the LLM's actions, after them, after the page scan |
| `ats` | `state.detected_ats` |
| `page` | the values of the form's fields; `by` is history: a human or a machine |
| `cache`, `saved` | `_session_question_cache`, `_saved_this_session` of the `AgentInterface` |

The operators under "Writing one row" are the repository and `AgentMemory`
methods, those under "Looking up" the five priorities of `get_best_answer`
(the fourth is there although the third always finds its row).  `CreateTables`
repairs rows older than the confidence column, `Merge` is one answer of a
server payload.  `LLMFills` and `LLMFails` are a planned action with its save
and its outcome; `Ask` and `Reuse` a question put to `request_field_input` with
and without a prompt; `RetryAsked` and `RetryReused` the same for a failed field,
with the second save the engine makes; `ScanPage` the "learn from browser" step;
`HandOver` the scrape after a handoff; `HumanEdits` the human in the visible
browser.  A job and a process may end anywhere.

Left out: the normalisation of labels, reserved values, the autonomous fill from
memory (`MEMORY_PREFILL_DISABLED`), job ids and dates of a row, and what the LLM
does with suggestions: its values are arbitrary.  Rows of different labels never
meet.  The server's answers are arbitrary rows of source "auto"; it is assumed to
send one answer per label and ATS in a payload.

### Runs

`field_memory` takes one question, two answers, one ATS and the unknown ones.
Properties of `field_memory`, beyond the type invariant:

- `MergeProtection` - the table README:759-768 as a statement about steps: only
  the retry and the page scan, which save as human, and a server answer of more
  confidence change what is stored under a high-trust source.
- `ConfidenceIsEarned` - the stored confidence is the ratio of its counts, or
  the row is as the server sent it.
- `AskedOnlyIfUnknown` - a prompt implies that no human's answer is stored here
  or for every ATS, and that no gated answer is stored anywhere.
- `OneAnswerPerSession` - the answer to a question does not change within one
  application, although the rows do.

Further configurations: `FieldMemoryOverwritten` is README:50 against the page
scan (`HumanAnswersAreKept` is violated), `FieldMemoryReuse` is
`agent_interface.py:1591` against the check for an equal value
(`AnswersAreReused` is violated).  The two are of one kind: "human" is the source
of what a human did not say (the scan cannot tell who filled a field), and is not
the source of what a human did say (the check for an equal value comes first).

Bounds.  One question, because rows of different labels do not meet; one known
ATS, because only "this one" and "another one" matter, and a job on an unknown
ATS sees the known one as the other.  `MaxUses` = 5 lets a row pass the gate of
three, fall below it by failures and meet the server's 4/5 and its weak 9/10
with one success.  Jobs, passes, restarts and merges are not bounded.

### Proofs

`FieldMemory_proofs` proves `TypeCorrect`, `MergeProtected`, `ConfidenceEarned`,
`KnownIsNotAsked` and `OneAnswer` for every set of labels, answers, old rows and
server payloads, and every finite set of sites (they are an enumeration in the
code), from the module's two assumptions.

- `RowSteps`: a step leaves each row as one of four things, and local writes
  compose (`LocalTransitive`, `KeepsTransitive`).  The action properties rest on it.
- `ConfidenceIsEarned` is not inductive: old rows are dishonest until the next
  start, so `Earned` adds that they can be so only while no process runs, with
  confidence zero.
- `KnownIsNotAsked` (`AskedOnlyIfUnknown`) needs that the lookup across sites
  finds something whenever an answer passed the gate.  It takes the row of the
  highest ratio and, among those, of most successes.  `BeatsIsOrder` shows that this
  is a strict order although ratios are compared by cross-multiplication, and
  `BestIsThere` that a row which beats most others is beaten by none.

## 5. UsageOutbox and Delivery

### State and actions

`UsageOutbox` models the table `usage_event_queue` and the processes that fill
and flush it.

| Variable | Code |
|---|---|
| `queue` | the table; a row has its event, "queued" or "sent", and whether `next_retry_at` has passed |
| `made` | events made so far |
| `received` | what the server has taken in |
| `dropped` | history: events marked sent although no server let the client log in |
| `crossed` | history: events marked sent by a flush that held the id of their row for an event since deleted |
| `pc`, `todo` | per process: where it is, and the steps of its command that are left |
| `token` | per process: whether the client has a token |
| `rows`, `payload` | per process: the ids of the rows `flush_usage_events` holds, and the events it read in them |
| `calm` | nothing fails any more |

A command is a sequence of steps.  `SyncDone` and `SyncFailed` are `perform_sync`
up to the flush, `Enqueue` is `track_usage_event` with the failure its callers
swallow, `ClearUsageEventQueue` is `analytics-backfill --clear-queue`, which asks
nobody: it deletes the rows that another process's flush holds, and SQLite gives
their ids to the next rows.  A flush
is `ListReady`, `Login` or `LoginFailed`, `Accepted`, `AnswerLost` or `Refused`,
and `MarkSent` or `MarkRetry`, which update by id - so they may meet other rows than
were read - or `RowsGone` when an id they hold is missing (the UPDATE matches too few
rows, and the exception ends the flush); each is a commit or a request of its own, and a
process may `Crash` between any two, when the table is locked (`MarkSentFailed`,
`MarkRetryFailed`) included.  `LoginFailed` leads to `MarkSent`: the client
returns a dictionary with an error then, and the service takes a return for a
delivery.

`Delivery` is what the callers rely on: an event that was put in waits until the
server has it; a batch is closed (`Close`) with some of its events settled, all of
which the server has, and the rest abandoned; everything in the queue may be
deleted; the server may receive an event more than once.  Which events are
abandoned is UsageOutbox's to say: those in `dropped` and `crossed`.

### Runs

`usage_outbox` checks, beyond the type invariant:

- `SentImpliesAccepted` - what is marked sent was received, or dropped, or crossed:
  besides the login that failed, deleting the queue under a running flush is the only
  way to lose an event that was made after the deletion.
- `Delivers` - the refinement: `Stage(e)` maps the queue to Delivery's stages, and
  every step of every process is a step of Delivery or none.
- `EventuallySent` - what waits when failures end is sent.

The further configuration `UsageOutboxOffline` checks `NothingIsDropped`, the same
without the exception for the login (docs/ANALYTICS_PLAN.md:126, "Queue events
locally when offline and retry with backoff"): violated.

Bounds.  Two processes, because the table is all they share and a third adds no
new pair of steps; two events and a batch of two, so that two flushes
overlap in one event, in two, or in none.  Of the commands one syncs and tracks
and one clears and refills, which between them reach every step, a deletion between
the reading and the marking of the other's flush included.

Fairness.  `WF_vars(Step(p))`: a process that can go on does, and commands are
started again, which is how the program is used; `WF_vars(RetryDue)`: time
passes.  Failures are not assumed to end: `EventuallySent` is about the
behaviours in which `calm` holds, and about whatever state the failures left.

### Proofs

`UsageOutbox_proofs` proves `TypeCorrect`, `SentIsAccepted` and
`ImplementsDelivery` for every number of processes and events, every command
and every batch size.  `SentImpliesAccepted` is inductive only together
with what a process may claim: the invariant adds that a process at "answered"
with a token has delivered the events it read (`AnsweredIsAccepted`), that an event
given up is not queued again (`LostIsSent`), and that only made events are in the
table, in a payload or given up (`Numbered`).  The table keeps its order
(rows are appended, so events are distinct: `DistinctEvents`).  `AbstractStep`
is the refinement: `StageOf` and `SameStage` say how a change of the table
changes stages, and each step is a Put, Receive, Close, Delete or a stutter.  A
`MarkSent` closes what it marks: `kept` is what its payload held, `lost` the rest.  The type invariant strengthens both.

Only model-checked: `EventuallySent` (liveness).

## 6. Discovery

### State and actions

| Variable | Code |
|---|---|
| `jobs` | the table; SQLite gives ids from 1 again once it is empty, so the row with id i is `jobs[i]` |
| `fresh` | rows with `updated_at > last_sync_at` |
| `logs` | ids with a success marker in `job_<id>/application.jsonl` |
| `server`, `old` | what the server lists now; it has no `cli_window` route |
| `disc`, `rows`, `total`, `seen` | the discovery: place, the rows read so far, `total_in_window`, URLs seen |
| `hand` | the job the application run holds: its id, and the posting it read |
| `synced`, `upload`, `sync` | `last_sync_at` is set; an upload is under way; the ids it uploads |
| `applied`, `reused`, `forgotten`, `late`, `reported`, `missed`, `mirror` | history, see the module |
| `started` | what the bound counts: commands, and changes of the server's list |

`FetchPage` is one request of `fetch_cli_window_listings`, with its fallback for
old servers; `ClearJobRelatedData` sorts, commits the deletion and begins the
import; `ImportRow` is one row with its checks and its own commit.
`FetchFailed` and `DiscoverKilled` end a discovery anywhere.  `Scan`,
`DiscoverPlaywright`, `ClearJobs` (or `db reset`, which forgets `last_sync_at` too),
`Reconcile` and the run are the other writers.  A run lists a job as `apply` does
(`ListPending`), as `apply --ats ashby` (`ListPendingAshby`: failed and skipped ones
too), as `continue` (`JobsFromCheckpoint`: those in progress too), or as
`apply --url` (`ApplyUrl`: the posting's row, set back to pending whatever it is, or
a new one).  Between `Take` and `StoreSubmitted` come `Submit` (the application goes
out) and `LogSuccess` (the engine thinks so too); at each of these places the run may
be killed (`RunKilled`), and before or after them end otherwise: FAILED or SKIPPED,
also after the application is out (`NotSubmitted`), or pending again after Ctrl+C
(`Interrupted`).  `Take`, `StoreSubmitted` and the other ends update by id, whatever
row has that id by then.  `RecordSync` sets `last_sync_at`, although the upload may
have failed; until there is one, activity older than seven days is not listed
(`WeekPasses`).

### Runs

`discovery` checks:

- `MirrorsListing` - after a discovery nobody disturbed the table has the postings
  whose newest listing is allowed, once each and newest first, as that listing has
  them; of two listings of one date the first in the list counts, and if that one
  is not allowed the posting is left out, whatever the other says.  On an old server
  this holds only if one page has the list.
- `SubmittedIsJustified` - a row is submitted because its posting was applied to
  or the server says so, unless its id once named another row.
- `ActivityIsReported` - what was submitted or failed is uploaded, or will be,
  unless its upload failed, it was written during one, or it was a week old before
  the first.
- `NoSecondApplication` - a posting applied to is not applied to again, unless it is
  `forgotten`: its row was deleted or reset by `apply --url`, or the run that sent it
  ended without writing SUBMITTED (killed, failed, interrupted) and no reconciliation
  has repaired that.  The exceptions are what the code does; `ApplyBatch` shows one
  of them as a finding.  What is left is that a row that records a submission is
  final for every way of listing jobs, also when a run writes by an id that names
  another row by now.

`DiscoveryFurther` adds the type invariant and `DiscoverEnds` (the paging
ends, also when the list gets shorter).  `DiscoveryStale` checks
`SubmittedWasApplied`, which leaves out the exception for reused ids: violated, by
a log file of a deleted row that promotes the new row with its id.

Bounds.  Two postings, one the CLI can apply to and one not; lists with a repeated
posting, a posting twice on one date of which the first is not allowed, a listing
without a URL, one that is not allowed, a shorter list, an empty one; pages of two,
so that the longest list takes two requests and may change between them; three
commands or changes of the list, in any order (`MaxStarted`): an id is reused only by
a second command that fills the table, and found by a third, and a run, a scan or an
upload beside a discovery are two.  Reconciliations, kills and the steps of what was
begun are not counted.  The proofs cover every number.

Fairness.  `WF_vars` of the discovery's own steps, for `DiscoverEnds` only.
Nothing is assumed of the other writers.

### Proofs

`Discovery_proofs` proves the type invariant (with it, that a posting has one row,
whoever imports beside whom), `JustifiedAlways`, `ReportedAlways`, `AppliedOnce`
and `MirrorsAlways`, for any postings, lists and bounds.

- The sort: `PlaceBounds`, `PlaceInjective` and `PlaceOnto` show that the places of
  a stable sort are a permutation.
- `Justified`: the row a run holds is still that posting's or its id was reused,
  and a log file belongs to a row whose posting was applied to, or to a reused id.
- `Telling`: while an upload is under way, fresh activity is in it or came late.
- `Guarded`: a posting applied to and not forgotten has a row that says SUBMITTED
  (`Recorded`), or is the one the run has sent and not yet written (`Pledged`); a run
  holds no such posting before it sends, and holds the row it took, unless everything
  it could know was emptied.  It is inductive because none of the ways to list a job
  takes a SUBMITTED row, and none of the writes by id meets one of another posting.
- `MirrorOK`: while nothing disturbs it, a discovery that fetches holds a beginning
  of the server's list (`Fetching`), and one that imports has in the table what
  the first listings of the sorted list call for, has seen their URLs, and holds
  the rest of that list (`Importing`).  The induction step is why the order of
  listings of one date matters: the import sees the first one, and passes over
  the posting for good if that is not allowed.

Only model-checked: `DiscoverEnds` (liveness).

## 7. ApplyJob

### State and actions

`ApplyJob` models `apply_to_job` from its call to its return.

| Variable | Code |
|---|---|
| `setup` | `InteractionMode`, whether there is an API key, what `page.goto` landed on |
| `site` | the browser: what it shows, empty required fields, further pages, errors, a verification challenge, and when it shows the words of a confirmation |
| `sent` | applications the employer received |
| `moved` | whether the URL changed since the last handoff began |
| `pc`, `at` | where the engine is; which handoff it is in, or where a freeze goes on |
| `run`, `n` | its flags (`skipped`, `declined`, `good`, `step`, ...) and counters |
| `stop` | `stop_requested` |
| `row`, `result` | the status in the table, and what was returned |

The actions follow the engine: `Land`, `Board`, `DetectATS`, `ClickApplyButton`;
`FillForm`, `PauseForFormReview` and `SubmitWithoutLLM` (the branch without an LLM,
with `AnswerRetry`); `LoginGate`, `Iterate`, `Plan` and `PageDone` (the LLM's
iterations and pages); `PreSubmit`, `ClickSubmit`, `Settle`; `FillFormRules`,
`HandleMultiStep`, `SubmitByRules` (the fallback); `Judge`, `AfterUnfinished`,
`Final`.  `Stopped` is `_check_stop`, `Crash` any other exception.  A handoff is
answered by `PressEnter`, `TypeSkip` or `Cancelled`, or ends by
`SubmissionDetected`, `PromptClosed` or `PromptRaises`; `HumanActs` is what the
human does in the browser while JobCLI waits, `CloseBrowser` and `RequestStop` come
at any moment.

What a plan does to a page is any filling and possibly a click; what a handler
does is any filling; the site refuses, accepts, shows the next page or a login.
Left out: which fields there are, time-outs that are only waited for, panels and
sounds.

### Runs

`apply_job` checks:

- `CompleteUnlessTouched` - the click after the review meets a form with nothing
  missing, unless the human touched it in between.
- `SubmittedIsBacked` - a SUBMITTED has a click of the program, a human or a
  confirmation behind it.  A click that failed counts as one: `SubmittedWasSent` of
  `ApplyJobUnsent` does not count it, and is violated.
- `ReturnedIsRecorded` - what is returned is in the table, but for LinkedIn and
  Workday.
- `NothingAfterSkip` - after a skip the program sends nothing for this job.
- `JobEnds` - every application ends.

Further configurations: `ApplyJobFurther` (the type invariant), `ApplyJobReview`
and `ApplyJobUnsent`.  `ApplyJobReview` checks two promises of the review, both
violated: `CancelAborts` ("Type cancel + ENTER to abort."; nobody had filled
anything, so `_fill_form_rules` fills and sends before the cancel is looked at)
and `ReviewWaits` ("Waits indefinitely for ENTER"; it clicks Submit by itself
once every visible group is answered).  `ApplyJobUnsent` checks
`SubmittedWasSent`: violated, after the last failed attempt without an LLM the
branch returns True (`orchestration/engine.py:2763`).

Bounds.  `AskLoops` 2 instead of the program's 3, `Pages` 3 and `SubmitTries` 2
instead of 5: each loop has a first and a last round, the pages one between.  One
required field and one further page tell "something missing" from "nothing missing"
on the first and the last page.  One act of the human outside of prompts, or one
stop.  The modes are AUTO and MANUAL: SUPERVISED does nothing MANUAL may not do.

Fairness.  `WF_vars(Step)` with `Step == Program \/ Answer`: the program goes on,
and the human answers every prompt.  The second is a premise about the user: some
prompts time out, others wait for ENTER by design.  `JobEnds` says that the engine
does not ask for ever, and nothing about humans who do not answer.

### Proofs

`Engine_proofs` proves `ApplyJobTypes`, `ClickIsComplete`
(`CompleteUnlessTouched`), `SubmittedHasBacking` (`SubmittedIsBacked`),
`ReturnIsRecorded` and `SkipIsFinal` (`NothingAfterSkip`) for any modes, landing
pages, numbers of pages, rounds and acts of the human.  None of the four is
inductive: each is about a moment many actions after the one that decides it.
One invariant, `IInv` (`ApplyJobInvariant`), carries them:

- `WorldOK`, `BookOK`, `RunOK`, `CountOK`, `PlaceOK` are the types.
- `LandOK`: nothing is written or returned before the end, and only a LinkedIn
  landing page leads to the question that ends without a record.
- `BackOK`: a success of the run, a click that is still to be judged and a SUBMITTED
  have something behind them, and a confirmation page an application.
- `ReviewOK`: from the review to the click, the form has nothing missing as long
  as the human's acts are those counted when the review began.
- `SkipOK`: after a skip only the end of `apply_to_job` is left, and no second fill.

`StepMoves` says once what any step may do to the browser and the employer; the other
parts are preserved by what the actions do to place, flags and counters.

Only model-checked: `JobEnds` (liveness).

## 8. ToolExecutor

### State and actions

`ToolExecutor` models how the plans of the LLM are carried out in one form.

| Variable | Code |
|---|---|
| `val`, `answer`, `file` | the form: who wrote each field and answered each question, what is attached in each slot |
| `layout` | how the page is built: legends or not, radio buttons or pairs of plain buttons, questions close together, Delete buttons, what it shows of an attachment |
| `snap` | `_snapshot_filled`, read by the engine's filter when the plan arrives |
| `doing`, `act`, `todo` | what the executor does (`radio`, `pair` and `plain` are the searches for an answer, one after the other), its action, the actions left |
| `done`, `failed` | `_completed_uploads`, and whether `_failed_actions` has one |

A label is looked up by the page: `Alike[f]` are the fields the label of `f` may be
taken for, `TitleScore` how well titles of questions match.  `MakePlan` and `Take`
are the filter, `LookAtField`, `Type` and `DeepSearch` the strategies of a fill,
`SelectOption` and `SelectFails` those of a dropdown.  The option of a question is
looked for in four ways, each when the one before found nothing: `ClickOption` is
Ashby's handler, the best fieldset (`BestFieldset`) and behind it the first title
that leads to buttons (`PairOf`); `SelectRadio` the scored search for a radio button
(`RadioScore` walks up from the button, and meets a legend before the text around
several questions); `SelectPair` the first title that leads to a pair of plain
buttons, going up as far as a neighbour's (`PairFrom`); `PlainClick`, for a click
only, the first element with the title in its name.  `RefuseUpload`,
`AlreadyUploaded`, `DeleteFirst` and `Attach` are an upload; `Present` is what
`_verify_upload_present` sees, on a `traces` page a file name or a Remove button of
something else.  Between any two of
them `Touch` is the extension, the parser or the human; `FollowNewTab` starts over
in another tab.

### Runs

`tool_executor` checks:

- `FilledBeforeThePlanIsKept` - what was filled when the plan was filtered stays,
  unless its label may be taken for another's.
- `AnswersItsQuestion` - on pages with legends and one kind of option, radio buttons
  or pairs of plain buttons, an answer goes to its own question, through all four
  searches; but where a search takes the first match instead of the best
  (`FirstMatch`) a title that stands earlier and matches too (`Told`) may get it.
  Outside this - no legends, or radio buttons and pairs on one page, where the pair
  search goes up from a question with radio buttons to a neighbour's pair - the code
  does answer another question, and the property does not say otherwise.
- `UploadIsThere` - an upload reported as done leaves something attached, on pages
  where no trace of a file stays when it is taken away.  Where one does, the check
  of the code takes it for the file and skips the upload.

`ToolExecutorCross` checks `NeverCrossContaminates`, the comment "so we never
cross-contaminate two Yes/No questions on the same page", on every page: violated
where questions have no legends.

Bounds.  Two text fields of which one label contains the other, a dropdown, two
questions of which one title contains the other and stands first; five pages, which
have each kind of option with legends, both kinds together with and without, traces,
and Delete buttons (`MCLayouts`); three actions in a plan let a later action meet what an earlier one did; one touch,
anywhere.  No liveness: every strategy is a bounded loop, and its actions are
single steps.

### Proofs

`Engine_proofs` proves its type invariant and the three properties for any fields,
labels, titles and plans.  `Stage` ties what is done to the kind of its action.
`Aim` says that the field an action names was empty when the plan was made, or its
label is ambiguous; `Finds` and `KeptStep` carry that over to the field that is
found.  `Asked` says that a search for an option is for a question; `BestIsOwn`,
`PairIsOwn` and `PlainIsOwn` say where each search ends.
`AnsweredInPlace` assumes `TitlesDiffer`, that no title matches another question as
well as its own, which the code needs too: its first candidate wins.

## 9. SelfHealing

### State and actions

| Variable | Code |
|---|---|
| `value`, `broken`, `hidden` | a session's page: what each element holds, which selectors hit nothing, what is not visible |
| `stage`, `n`, `attempt`, `sel`, `mended` | the action of `execute_batch`: its stage, place, attempt, selector, and whether that is the healer's |
| `ok`, `sent` | fields reported as filled in this batch; whether submit was clicked |
| `conf`, `recent` | of the field in the adaptive retry: confidence, failures within the hour |
| `mem`, `file`, `torn` | `SelectorHealer.patterns` of each session, the patterns file, a write that is under way |
| `earned` | history: how often each selector worked |

`Locate`, `Fill` or `Click`, and `Verify` are one attempt of `ExecutionEngine`;
`Heal` tries what the strategies of the healer find, in their order; `Learn` and
`Save` are `record_success` and the two halves of writing the file, between which
another session may save or `Restart`.  `StartRetry`, `Check` and `Operate` are
`AdaptiveRetryManager.execute_with_retry`, `TimePasses` lets failures grow old.
`PageChanges` is the page that hydrates, hides or loses what was typed.

### Runs

`self_healing` checks:

- `CountsAreEarned` - a pattern counts no more than the successes of its selector,
  in any session and in the file.
- `SubmitFollowsSuccess` - a batch clicks submit only after every field before it
  was reported as filled.  Reported is not still there: a repeated action may empty a
  field after its report, and the property does not see that.

Bounds.  Two sessions (the symmetry on them is sound: nothing orders them), one
field and submit, one other element the healer may take for the field; two attempts;
the retry limits of `RetryConfig`, with three recent failures for the program's
five, so that a second call meets the limit too; two batches in all, one change of a
page, one restart. No liveness: nothing starts a batch by itself.

### Proofs

`Retries_proofs` proves the type invariant, `CountsEarned`, `SubmitIsLast` and
`FailuresBounded` for any number of sessions, fields, attempts and batches.
`Due` adds that a success which is not counted yet is one more than the
count; `Behind` that every action behind the current one was reported as filled;
`FailureInv` that a field is tried only while it has failed less than `TooMany`
times.  `FailuresAreBounded` is proved and not a property of the run.

Not claimed, because the code does not keep it: that a failed fill leaves the field as
it was (it is cleared first), that a click is done once (a navigation that times out
is clicked again), that a healed selector hits the field it was healed for, and
that no update of the file is lost.

## 10. Phases

### State and actions

A program uses one of two library engines, `mode`.

| Variable | Code |
|---|---|
| `at`, `try`, `good` | where each job is, its attempt or page, whether a page of the LLM went well |
| `sleep`, `age`, `since` | what is left of its wait, the time since it started, the time since `_last_request_time` |
| `row`, `result`, `stats` | the row, what `apply_to_job` returned, the summary |
| `won`, `asked`, `raised` | which phase reported success; who was asked about; whose exception ended it |
| `known` | whether locators were learnt from the LLM |

`Admit` and `Wake` are `_rate_limit` with a permit of the semaphore in hand: the
wait is computed, slept, and the time written after it.  `BatchRules` and
`BatchLlm` are the attempts of a phase of the asynchronous engine; `Memory`,
`LlmPage`, `LlmFails`, `LlmEnds` and `GraphRules` the nodes of the graph, `After`
its edges; `Human` belongs to both.  `Report`, `Count` and `Close` are commit,
statistics and clean-up, and `Raises` an exception at one of these or while the
browser opens.

### Runs

`phases` checks:

- `RateIsBounded` - no more requests start within one delay than there are permits.
- `GivesUpLast` - no job fails before the human was asked or an exception ended it.
- `EveryJobEnds`.

`PhasesClaims` checks what comments promise and the code does not do:
`AllOrNothing` (`storage/session.py:40`: the repositories commit by themselves)
and `MinimumDelay` ("Minimum 2s between requests": two permits wake together).

Bounds.  Three jobs for two permits: one waits, two race.  `MinDelay` is one tick,
since only "within the delay" and "after it" matter; two attempts and two pages.

Fairness.  `WF_vars(Step(j))` for every job and `WF_vars(Tick)`: the event loop runs
what is ready, calls return or raise (they have timeouts), and time passes.

### Proofs

`Retries_proofs` proves for any jobs, permits, delay and retries: the type invariant,
`HumanIsLast` (on the way out without a winner means asked), `CountedIsRecorded` (the
statistics count only jobs past their commit) and `RateBounded`.  The last is not
inductive at all: after one delay the recent requests may be other ones.  Its
invariant `RateInv` follows a *cohort*: those that started when r did or later, and
those whose sleep ends while r is still recent; they all held a permit when r started,
so there are at most `Permits` of them.

Only model-checked: `EveryJobEnds` (liveness).

## 11. AtsForm and AshbyAnswers

### State and actions

A handler is a record: the order of the parts of its fill, and the lists of controls
it looks for when it applies, goes on and submits, each followed by those of
`BaseATSHandler`.  `Supported` has the nineteen handlers of the factory that are not
Workday's (section 12), and the generic one.  A site is a record as well: which
fields there are, what the handler's selectors find, what a field says of itself,
how many pages, which buttons, whether a page lags, and for each of Ashby's questions
where the search for a Yes or No that starts from its title ends (`reach`).

| Variable | Code |
|---|---|
| `h`, `site`, `mode` | handler, site, `_fill_form_rules` or `_run_rules_prefill` |
| `val`, `select`, `ans`, `essay`, `resume` | the form: who wrote what |
| `page`, `moving`, `errors`, `overlay` | what the browser shows, and what is loading |
| `sent`, `early` | applications the site accepted; those of them before the fill |
| `pc`, `part`, `cur`, `typing`, `used`, `results` | where the fill is, its field, `used_answers`, what it notes |
| `whose`, `item`, `round`, `moves` | the list of selectors a click goes through, and the steps taken |
| `pass`, `verdict`, `start`, `left` | the prefill pass, the report; history and bounds |

`Hit`, `HitLate`, `Intercepted`, `ToSuper`, `Round`, `GiveUp` are how any list is
gone through; `HitLate` is a click that times out although the site got it.
`AshbyClick`, `Check`, `Recheck` and `AshbyEnds` are Ashby's own submit with its fix
of validation errors.  The parts are `Keep`, `Look`, `Type`, `TypeFails`, `Raise`
for text fields - by the handler's selectors or by `Score`, the confidence
arithmetic of `form_fields.py` - and one action for each other part.  `Raise` is the
NameError of `form_fields.py:941`.  `FillYesNoQuestions` scans every title, goes up
from it to the nearest buttons, and clicks where that search ends, which may be
another question's pair: a topic without a rule is answered Yes.  `Land`, `Parse`, `Edit` and `Cover` are the
environment. `AshbyAnswers` has the tables of `ashby_handler.py`, from topics to
answers.

### Runs

`ats_form` checks:

- `FilledBeforeThePassIsKept` - a text field that had a value when a pass
  began keeps it, whatever parts come by; but for Ashby's fix of validation errors,
  which overwrites zip code and location.
- `NoSecondApplication` - a second application needs a click that timed out after
  it arrived, or the search for Apply that found the button that sends.
- `EeoIsLeftToTheUser` - a question that both of Ashby's passes leave to the user is
  changed by neither, answered or open, unless the search for another question's
  options ends at it: a title without buttons of its own, below an element that has
  the pair of an EEO question, gets that pair a Yes, and the code does not see it.
- `AnswersRepeatOnlyWhenSpent` - two essays get the same text only when all
  descriptions and candidates are used up.

`ats_form_labels` checks `LabelsAreTried`, the docstring of `fill_personal_info`:
violated.  `AtsFormFurther` adds the type invariant and `EveryPassEnds`.

`NoSecondApplication` leaves Ashby on a lagging site out, where the code does send
twice: it takes the errors of the old page for an answer.  Both passes of Ashby know
different words: sexual orientation is left alone by one of them only, so
`EeoIsLeftToTheUser` is about the words both know.

Bounds.  Each of the eleven sites differs from a plain one in one way or two (no file
input, two steps, a weak label, a location, an embedded form, a lag, Ashby's
questions, of which one EEO question is reached from another title and one is not,
...); three text fields, at most two on a site, four starting values.  `MaxMoves` is the program's five; one late
click, one edit, one overlay.

Fairness.  `WF_vars(Program)`: the handler goes on.  Nothing is assumed of the site,
which may stay on a page for ever.

### Proofs

`AtsForm_proofs` proves `AtsFormTypes`, `FilledIsNotReplaced`
(`FilledBeforeThePassIsKept`), `SentOnce` (`NoSecondApplication`), `EeoIsLeft`
(`EeoIsLeftToTheUser`) and `AnswersDiffer` (`AnswersRepeatOnlyWhenSpent`) for any of
the handlers on any sites, with any resume and any number of late clicks, edits and
dialogs.  Besides the sites' shape it assumes that the handler has a candidate and
makes at least one move, and that the descriptions and the candidates are texts
other than the summary, which the code writes in its own words.

- `PlaceOK`: where a pass can be, and with which part, list, round and move.
- `Chosen`: while the fill types, the field it types into is the one it found, and
  that was empty when the pass began.  A look and the typing are two steps; the field
  chosen in the first is still the field of the second (`SameField`).
- `QuestionsStep`: the topics left to the user have no answer in either pass
  (`ManualHaveNoAnswer`), so a click that changes one comes from another question
  (`Separate`).
- `SentOK` counts: what the site accepted is at most the late clicks, what was sent
  before the fill, and one for the click that ended the pass.
- `EssayOK`: what the running pass wrote is among its used answers, and those are
  fewer than the essays it went through.  `OneOfIs` and `DefaultIs` say when an
  answer may be a used one.  Links are left out of the property: the same link
  is the right answer twice.

Only model-checked: `EveryPassEnds` (liveness).

## 12. FormRows

### State and actions

`FormRows` models the two fillers of repeating sections, and the Workday handler
around its own from the Apply button to the submit.

| Variable | Code |
|---|---|
| `kind`, `site` | which filler, on which site |
| `rows`, `coming` | the rows of each section with their inputs; rows added and not shown yet |
| `screen`, `file`, `sent` | page of the site, its parser, applications accepted |
| `pc`, `back`, `turn`, `ent`, `fld`, `failed` | where the filler is: section, entry, field, `entry_failed_fields` |
| `at`, `focus` | within `humanized_fill`: after the look, after the click; the input with the keyboard |
| `marks` | containers with the attribute `data-jobcli-repsection` |
| `filled`, `skipped`, `moves` | counts of `SectionFillResult`; steps taken |
| `touched`, `crossed` | history: inputs filled by others since the look; rows the user went to while the filler typed |
| `added`, `left` | history and bounds |

`FindSection`, `ClickAdd` (with `ClickAddLate`, `NoAdd`), `FillField`, `EntryEnds`,
`ClickSave`, `SectionEnds` are the loop over the entries;
the section is the first marked container on the page at every use, since no mark is
ever taken away, and the input the last one with a label (`LastOf`) or the first
with an id (`FirstOf`).  Filling an input takes three steps, as in
`human_interaction.py`: `Look` asks whether it has a value (`Blank`: a placeholder
such as "None" or "N/A" is none), `ClickInput` gives it the keyboard after a hover and a wait,
`TypeIn` sends Ctrl+A, Backspace and the words to wherever the keyboard is by then.
Workday has `fill()` instead (`FillInput`), and for the name, degree, major, average and
years of a school a choice from a list (`ChooseFromList`), for which nobody looks.
Between these steps the parser and the user may do what they like.  Workday takes the
button after a heading even if it says "Add another" (`NextButton`), and elsewhere only a
plain "Add" (`SaysAdd`).  `Apply` to `Upload` are Workday's start dialog, `Step` and
`Submit` its navigation.  `Render`, `Parse` and `Edit` are the environment.

### Runs

`form_rows` checks:

- `RowsAreBounded` - no button adds a row more than the entries begun ask for, unless
  a click timed out that the site had got.
- `RowsAreOfOnePiece` - in a section that has its rows, labels and container to
  itself no row mixes two entries, however entries fail and users type, unless the
  user takes the keyboard to that row while the filler types.
- `NonDestructive` - no row goes away, and no value that was there when the filler
  looked is replaced by one of the resume, but for Workday's choices from the lists of a
  school.
- `FillerEnds`.

`FormRowsFurther` adds the type invariant and `CountsAddUp`, that the
entries of a finished section were filled or skipped.

`OnItsOwn` names the sites `RowsAreOfOnePiece` leaves out, because there the code does
mix: late rows, a container or labels in common, and education after work
(its Add goes to the first mark of the page, which is work's).  Workday's rows are left
out as well, since an id finds the first row again; and the property is about one pass
over a form, not about a second one.

What `NonDestructive` lets pass is lost in the code too.  `touched`: a value that the
user or the parser writes after the look and before the typing is wiped, or the words go
to another input, since the generic filler types to the keyboard and not to an
input.  `Choice`: a list for a school is set anew whatever it says.  And a placeholder the user
means, "N/A" for a school, counts as no value.

Bounds.  Two jobs, of which one has no date, two schools and a certification, so
that an entry follows one that failed, in each section; thirteen sites, each
different from a plain one in one way or two.  Three steps of navigation are one
more than the form has. One late click, one failing input, one edit.

Fairness.  `WF_vars(Program)`, as in AtsForm.

### Proofs

`FormRows_proofs` proves `NothingIsTaken` (`NonDestructive`), `OneRowAnEntry`
(`RowsAreBounded`) and `RowsOfOnePiece` (`RowsAreOfOnePiece`) for any resume, sites
and bounds.

- `PlaceOK` ties section, entry and field to the place of the filler, `RowsOK` is the
  type of the rows.
- `Extremes` and `Chosen` show that the input chosen is an input that exists, which
  needs a first and a last element of the places of rows in the order of the page.
- `WriteOK` carries the look to the typing: what is to be clicked or typed into was
  without a value, or is `touched`.  `WriteStep` is the work of it, since the input that
  matches may change under the filler, with a row of the parser for instance
  (`TargetMoves`: then it is an input of that row).
- `CountOK`: the entries begun (`Begun`) only grow, since the filler only goes
  forth (`GoesForth`), and a click on Add is the beginning of an entry or a late click.
- `GenericOK`: on a site whose sections have containers of their own, the marks are
  those of the sections that had their turn.
- `PieceOK`: a row holds one entry at most, none before its section's turn, and the
  last open row none but the entry in hand.  `OwnCandidate` says that the Add clicked
  is that of the section in hand, `OwnTarget` that what is typed goes into its last
  open row (`AimOK`, after the click), or into a row in `crossed`: the two steps where
  `OnItsOwn` is needed.

Only model-checked: `CountsAddUp`, a property of `FormRowsFurther` which would need
the counts of all earlier sections in the invariant, and `FillerEnds` (liveness).

## 13. What is not modelled

Of the components that are modelled in part:

- `cli/main.py`: the commands for log-in, configuration, database listings and agents,
  which have no state of their own to get wrong; the run counters.
- `orchestration/engine.py`: browser and session set-up, the payloads for the extension.
- `storage/repositories.py`: learned locators, dropdown strategies and the log of
  interactions, whose only readers are suggestions.
- `sync/`: log-in itself and the upload of knowledge, which is read from `FieldMemory`'s
  table by `sync/extractor.py` and has no retry.
- `ats/`: the personal fields of Workday, detection of the ATS (a choice in
  `ApplyJob`), `ats/locators/apply_button.py` beyond the adoption of a new tab:
  nothing calls the rest.
- `orchestration/tool_executor.py`: drag and keyboard actions; how labels are compared.

Not modelled at all:

- Browser automation (`automation/`): mouse curves, delays and page scripts.
- Canonical model, profile and semantic engine (`canonical/`, `profile/`,
  `semantic/`): pure mappings and text classification, mostly without a caller in the
  application flow; `AtsForm` and `FormRows` take a resume as a constant.
- LLM client (`llm/`): a remote service; its answers are choices of `ApplyJob`
  and `ToolExecutor`.
- Application memory (`memory/`): a record store nobody calls.
- Debug, observability and helpers: files for a reader; nothing depends on them.
- Launcher, doctor and shell (`cli/`): menus that start the commands.
- API server (`api/`): reads the same database; its stop request is `RequestStop` of
  `ApplyJob`.
- Coder agent (`agents/`): a developer's tool.

Known limits of what is modelled: two `apply` processes on one database are outside of
`ApplyBatch` (nothing in the code locks a job, and nothing claims it does), and
`ApplyJob` is not shown to refine the `Job` actions of `ApplyBatch`: the
correspondence is by name and by reading.
