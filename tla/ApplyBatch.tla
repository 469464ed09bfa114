----------------------------- MODULE ApplyBatch -----------------------------
(***************************************************************************)
(* One `wboxcli apply` process after another over one SQLite job table:    *)
(* cli/main.py `_run_apply`, the checkpoint of utils/apply_checkpoint.py,  *)
(* the exit flag of utils/exit_signal.py and the persistent effects of     *)
(* orchestration/engine.py `apply_to_job`.                                 *)
(*                                                                         *)
(* Three things survive a process: the status column of the jobs table,    *)
(* the checkpoint row of the config table, and the per-job log files that  *)
(* analytics/backfill.py reads back.  Everything else is the memory of the *)
(* running process and is forgotten when it ends, however it ends.         *)
(***************************************************************************)
EXTENDS Naturals, Sequences, FiniteSets, Functions

CONSTANTS
  Ids,          \* primary keys of the jobs table
  AshbyIds,     \* those whose listing is hosted by Ashby
  RepeatedIds,  \* may `--job-id` name the same id twice?
  FilterResume, \* may `apply --continue` be given `--ats ashby`?
  MaxSelected,  \* bound: ids a `--job-id` selection names
  MaxBatches,   \* bound: fresh batches started
  MaxUrls,      \* bound: `apply --url` runs started
  MaxStops      \* bound: Ctrl+C, quit, closed window, kill, failed start

ASSUME IdsAssumption   == IsFiniteSet(Ids) /\ AshbyIds \subseteq Ids
ASSUME BoundAssumption ==
  /\ RepeatedIds \in BOOLEAN /\ FilterResume \in BOOLEAN
  /\ MaxSelected \in Nat /\ MaxBatches \in Nat
  /\ MaxUrls \in Nat     /\ MaxStops \in Nat

VARIABLES
  status,      \* jobs.status, "ABSENT" for an id that has no row
  checkpoint,  \* config["apply_run_checkpoint"]
  logged,      \* ids whose log file holds the success marker
  pc,          \* where the process is; "idle" when there is none
  kind,        \* "batch", "resume" (continue) or "url"
  queue,       \* jobs: what this run iterates over
  fullIds,     \* full_job_ids: what a checkpoint of this run would save
  base,        \* batch_start_index
  pos,         \* the loop variable i
  exitReason,  \* "none"; "startup": interrupted_at_index stays None; "job"
  outcome,     \* what apply_to_job returned for the last job
  exitFlag,    \* exit_signal._exit_requested
  applied,     \* history: jobs whose employer received an application
  batches, urls, stops  \* history: what the bounds count

persistent == <<status, checkpoint, logged>>
run        == <<kind, queue, fullIds, base>>
counters   == <<batches, urls, stops>>
vars == <<persistent, pc, run, pos, exitReason, outcome, exitFlag, applied,
          counters>>

Final    == {"SUBMITTED", "FAILED", "SKIPPED"}
Statuses == {"ABSENT", "PENDING", "IN_PROGRESS"} \cup Final

\* load_apply_checkpoint answers None for a checkpoint without ids.
NoCheckpoint == [ids |-> <<>>, next |-> 0]

InJob == {"filling", "sent", "logged", "recorded"}
Pcs   == {"idle", "starting", "loop", "saving", "checkpointing", "uploading",
          "prompt"} \cup InJob

current == queue[pos]

-----------------------------------------------------------------------------
(* What a command line selects.                                            *)

ListPending      == {j \in Ids : status[j] = "PENDING"}
\* Fault: the Ashby list also names the submitted jobs.
ListAshbyAll == {j \in AshbyIds : status[j] # "ABSENT"}

ListPendingAshby == {j \in AshbyIds : status[j] \notin {"ABSENT", "SUBMITTED"}}

\* --sort, --limit and the domain filter choose and order any part of a list.
Sublists(S) == UNION {Injection(1..n, S) : n \in 1..Cardinality(S)}

\* --job-id names pending jobs one by one, in the order of the command line.
Selections(S) == UNION {[1..n -> S] : n \in 1..MaxSelected}

FreshQueues ==
  Sublists(ListPending) \cup Sublists(ListPendingAshby)
    \cup (IF RepeatedIds THEN Selections(ListPending) ELSE {})

\* jobs_from_checkpoint, and the filter --ats puts on its answer: the places of
\* the saved list, from the saved cursor on, whose job can still be run and is
\* listed in L, and the jobs at those places in order.
\* Fault: every saved job that still has a row is resumed.
PlacesUnfiltered(c, L) ==
  {k \in (c.next + 1)..Len(c.ids) : c.ids[k] \in L /\ status[c.ids[k]] # "ABSENT"}

PlacesLeft(c, L) ==
  {k \in (c.next + 1)..Len(c.ids) :
     c.ids[k] \in L /\ status[c.ids[k]] \in {"PENDING", "IN_PROGRESS"}}

Rank(P, k) == Cardinality({l \in P : l <= k})

JobsFromCheckpoint(c, L) ==
  LET P == PlacesLeft(c, L)
  IN  [m \in 1..Cardinality(P) |-> c.ids[CHOOSE k \in P : Rank(P, k) = m]]

-----------------------------------------------------------------------------
Init ==
  /\ status \in [Ids -> {"ABSENT", "PENDING", "SKIPPED", "SUBMITTED"}]
  /\ checkpoint = NoCheckpoint
  /\ logged = {} /\ applied = {}
  /\ pc = "idle" /\ kind = "batch"
  /\ queue = <<>> /\ fullIds = <<>> /\ base = 0 /\ pos = 1
  /\ exitReason = "none" /\ outcome = "none" /\ exitFlag = FALSE
  /\ batches = 0 /\ urls = 0 /\ stops = 0

\* The part of _run_apply before the browser starts.
Begin(k, q, ids, b) ==
  /\ pc' = "starting"
  /\ kind' = k /\ queue' = q /\ fullIds' = ids /\ base' = b
  /\ pos' = 1 /\ exitReason' = "none" /\ outcome' = "none"
  /\ exitFlag' = FALSE

\* The process is gone: return, typer.Exit, os._exit or a kill.
ProcessEnds ==
  /\ pc' = "idle"
  /\ kind' = "batch" /\ queue' = <<>> /\ fullIds' = <<>> /\ base' = 0
  /\ pos' = 1 /\ exitReason' = "none" /\ outcome' = "none"
  /\ exitFlag' = FALSE

StartBatch ==
  /\ pc = "idle" /\ batches < MaxBatches
  /\ \E q \in FreshQueues : Begin("batch", q, q, 0)
  /\ batches' = batches + 1
  /\ UNCHANGED <<persistent, applied, urls, stops>>

\* apply --url: the row is created or forced back to PENDING before the
\* domain filter, which may end the run at once.
StartUrl ==
  /\ pc = "idle" /\ urls < MaxUrls
  /\ \E j \in Ids :
       /\ status' = [status EXCEPT ![j] = "PENDING"]
       /\ Begin("url", <<j>>, <<j>>, 0) \/ ProcessEnds
  /\ urls' = urls + 1
  /\ UNCHANGED <<checkpoint, logged, applied, batches, stops>>

\* remaining, as the run that stopped computes it for its question.
Remaining == IF exitReason = "job" /\ kind # "url"
             THEN Len(fullIds) - (base + pos - 1) ELSE 0

\* `wboxcli continue`, or "yes" to the question; a resumed run never asks.
MayResume ==
  \/ pc = "idle" /\ checkpoint.ids # <<>>
  \/ pc = "prompt" /\ kind # "resume" /\ Remaining > 0

\* --ats may restrict a resume from the command line, not one from the question.
ResumeFilters ==
  IF FilterResume /\ pc = "idle" THEN {Ids, AshbyIds} ELSE {Ids}

\* Fault: the checkpoint is cleared as soon as it is loaded.
ContinueRunClearing ==
  /\ MayResume
  /\ JobsFromCheckpoint(checkpoint, Ids) # <<>>
  /\ Begin("resume", JobsFromCheckpoint(checkpoint, Ids), checkpoint.ids,
           checkpoint.next)
  /\ checkpoint' = NoCheckpoint
  /\ UNCHANGED <<status, logged, applied, counters>>

\* A filter that leaves no job ends the process with nothing written.
ContinueRun ==
  /\ MayResume
  /\ \E L \in ResumeFilters :
       /\ JobsFromCheckpoint(checkpoint, L) # <<>>
       /\ Begin("resume", JobsFromCheckpoint(checkpoint, L), checkpoint.ids,
                checkpoint.next)
  /\ UNCHANGED <<persistent, applied, counters>>

ContinueNothing ==
  /\ MayResume
  /\ JobsFromCheckpoint(checkpoint, Ids) = <<>>
  /\ checkpoint' = NoCheckpoint
  /\ ProcessEnds
  /\ UNCHANGED <<status, logged, applied, counters>>

-----------------------------------------------------------------------------
(* start_session and the loop over the jobs.                               *)

StartSession ==
  /\ pc = "starting" /\ pc' = "loop"
  /\ UNCHANGED <<persistent, run, pos, exitReason, outcome, exitFlag, applied,
                 counters>>

\* ExitRequested, BrowserClosed or KeyboardInterrupt while Chrome starts.
StartInterrupted ==
  /\ pc = "starting" /\ stops < MaxStops
  /\ pc' = "saving" /\ exitReason' = "startup"
  /\ stops' = stops + 1
  /\ UNCHANGED <<persistent, run, pos, outcome, exitFlag, applied, batches, urls>>

\* is_exit_requested() at the top of an iteration.
ExitBetweenJobs ==
  /\ pc = "loop" /\ pos <= Len(queue) /\ exitFlag
  /\ pc' = "saving" /\ exitReason' = "job"
  /\ UNCHANGED <<persistent, run, pos, outcome, exitFlag, applied, counters>>

TakeJob ==
  /\ pc = "loop" /\ pos <= Len(queue) /\ ~exitFlag
  /\ status' = [status EXCEPT ![current] = "IN_PROGRESS"]
  /\ pc' = "filling" /\ outcome' = "none"
  /\ UNCHANGED <<checkpoint, logged, run, pos, exitReason, exitFlag, applied,
                 counters>>

LoopEnds ==
  /\ pc = "loop" /\ pos > Len(queue)
  /\ pc' = "saving"
  /\ UNCHANGED <<persistent, run, pos, exitReason, outcome, exitFlag, applied,
                 counters>>

-----------------------------------------------------------------------------
(* apply_to_job, reduced to its writes to the table, the log and the world. *)

Return(r) ==
  /\ outcome' = r /\ pos' = pos + 1 /\ pc' = "loop"
  /\ UNCHANGED <<checkpoint, run, exitReason, exitFlag, counters>>

\* The employer receives the form: the engine's submit or the human's.
FormSubmitted ==
  /\ pc = "filling" /\ pc' = "sent"
  /\ applied' = applied \cup {current}
  /\ UNCHANGED <<persistent, run, pos, exitReason, outcome, exitFlag, counters>>

\* Every path that writes FAILED or SKIPPED before it returns it: expired
\* posting, challenge not solved, handoff skipped or cancelled, submission
\* declined, an exception in the engine.
ReturnRecorded ==
  /\ pc \in {"filling", "sent"}
  /\ \E r \in {"FAILED", "SKIPPED"} :
       Return(r) /\ status' = [status EXCEPT ![current] = r]
  /\ UNCHANGED <<logged, applied>>

\* The paths that return without a write: LinkedIn and Workday listings, and
\* an exception raised before the try of apply_to_job.
ReturnUnrecorded ==
  /\ pc = "filling"
  /\ \E r \in {"FAILED", "SKIPPED"} : Return(r)
  /\ UNCHANGED <<status, logged, applied>>

\* A LinkedIn listing the human applied to, or says to have.
ReturnByHand ==
  /\ pc = "filling"
  /\ Return("SUBMITTED")
  /\ applied' \in {applied, applied \cup {current}}
  /\ UNCHANGED <<status, logged>>

\* success is true; it is a judgement and may be wrong.
LogSuccess ==
  /\ pc \in {"filling", "sent"} /\ pc' = "logged"
  /\ logged' = logged \cup {current}
  /\ UNCHANGED <<status, checkpoint, run, pos, exitReason, outcome, exitFlag,
                 applied, counters>>

RecordSubmitted ==
  /\ pc = "logged" /\ pc' = "recorded"
  /\ status' = [status EXCEPT ![current] = "SUBMITTED"]
  /\ UNCHANGED <<checkpoint, logged, run, pos, exitReason, outcome, exitFlag,
                 applied, counters>>

\* The form could not be verified as submitted.
RecordFailed ==
  /\ pc \in {"filling", "sent"} /\ pc' = "recorded"
  /\ status' = [status EXCEPT ![current] = "FAILED"]
  /\ UNCHANGED <<checkpoint, logged, run, pos, exitReason, outcome, exitFlag,
                 applied, counters>>

ReturnVerdict ==
  /\ pc = "recorded"
  /\ \E r \in {"SUBMITTED", "FAILED"} : status[current] = r /\ Return(r)
  /\ UNCHANGED <<status, logged, applied>>

\* The pause after the write fails: the handler of Exception writes FAILED.
FinalPauseFails ==
  /\ pc = "recorded"
  /\ Return("FAILED")
  /\ status' = [status EXCEPT ![current] = "FAILED"]
  /\ UNCHANGED <<logged, applied>>

LeaveJob ==
  /\ pc \in {"filling", "sent", "recorded"}
  /\ pc' = "saving" /\ exitReason' = "job"
  /\ UNCHANGED <<persistent, run, pos, outcome, exitFlag, applied>>

\* _check_stop, or a prompt that the signal handler woke.
CheckStop == exitFlag /\ LeaveJob /\ UNCHANGED counters

\* A quit keyword at a prompt, or the browser window closed.
UserLeaves ==
  /\ stops < MaxStops /\ stops' = stops + 1
  /\ LeaveJob
  /\ UNCHANGED <<batches, urls>>

-----------------------------------------------------------------------------
(* After the loop: checkpoint, upload, question.                           *)

\* Fault: the interrupted job keeps the status it was taken with.
ForgetInterrupted ==
  /\ pc = "saving" /\ exitReason = "job" /\ kind # "url"
  /\ pc' = "checkpointing"
  /\ UNCHANGED <<persistent, run, pos, exitReason, outcome, exitFlag, applied,
                 counters>>

\* reset_interrupted_job_to_pending
ResetInterrupted ==
  /\ pc = "saving" /\ exitReason = "job" /\ kind # "url"
  /\ status' = [status EXCEPT ![current] =
                  IF @ = "IN_PROGRESS" THEN "PENDING" ELSE @]
  /\ pc' = "checkpointing"
  /\ UNCHANGED <<checkpoint, logged, run, pos, exitReason, outcome, exitFlag,
                 applied, counters>>

\* Faults: the cursor one past, or one before, the interrupted job.
SaveCheckpointAt(n) ==
  /\ pc = "checkpointing" /\ pc' = "uploading"
  /\ checkpoint' = [ids |-> fullIds, next |-> n]
  /\ UNCHANGED <<status, logged, run, pos, exitReason, outcome, exitFlag,
                 applied, counters>>
SaveCheckpointPast   == SaveCheckpointAt(base + pos)
SaveCheckpointBefore == SaveCheckpointAt(base + pos - 2)

\* save_apply_checkpoint, with next_index = interrupted_at_index
SaveCheckpoint == SaveCheckpointAt(base + pos - 1)

ClearCheckpoint ==
  /\ pc = "saving" /\ exitReason = "none" /\ kind # "url"
  /\ pc' = "uploading"
  /\ checkpoint' = NoCheckpoint
  /\ UNCHANGED <<status, logged, run, pos, exitReason, outcome, exitFlag,
                 applied, counters>>

KeepCheckpoint ==
  /\ pc = "saving" /\ (exitReason = "startup" \/ kind = "url")
  /\ pc' = "uploading"
  /\ UNCHANGED <<persistent, run, pos, exitReason, outcome, exitFlag, applied,
                 counters>>

\* run_post_apply_upload: reconcile_submitted_from_logs, which tracking that
\* is off, a missing login or a failed step leaves out.
Reconcile ==
  /\ pc = "uploading" /\ pc' = "prompt"
  /\ status' = [j \in Ids |-> IF j \in logged /\ status[j] # "ABSENT"
                              THEN "SUBMITTED" ELSE status[j]]
  /\ UNCHANGED <<checkpoint, logged, run, pos, exitReason, outcome, exitFlag,
                 applied, counters>>

SkipReconcile ==
  /\ pc = "uploading" /\ pc' = "prompt"
  /\ UNCHANGED <<persistent, run, pos, exitReason, outcome, exitFlag, applied,
                 counters>>

\* No question to ask, or answered "no".
Finish ==
  /\ pc = "prompt"
  /\ ProcessEnds
  /\ UNCHANGED <<persistent, applied, counters>>

-----------------------------------------------------------------------------
(* What can happen at any moment.                                          *)

\* The first Ctrl+C: _handle_sigint sets the flag.
CtrlC ==
  /\ pc # "idle" /\ ~exitFlag /\ stops < MaxStops
  /\ exitFlag' = TRUE
  /\ stops' = stops + 1
  /\ UNCHANGED <<persistent, pc, run, pos, exitReason, outcome, applied,
                 batches, urls>>

\* The second Ctrl+C within 2 s (os._exit), a kill, or an exception that
\* _run_apply does not catch.
Die ==
  /\ pc # "idle" /\ stops < MaxStops
  /\ ProcessEnds
  /\ stops' = stops + 1
  /\ UNCHANGED <<persistent, applied, batches, urls>>

-----------------------------------------------------------------------------
Job ==
  \/ FormSubmitted   \/ ReturnRecorded  \/ ReturnUnrecorded
  \/ ReturnByHand    \/ LogSuccess      \/ RecordSubmitted
  \/ RecordFailed    \/ ReturnVerdict   \/ FinalPauseFails \/ CheckStop

Shutdown ==
  \/ ResetInterrupted \/ SaveCheckpoint \/ ClearCheckpoint \/ KeepCheckpoint
  \/ Reconcile        \/ SkipReconcile  \/ Finish

\* The steps the process takes by itself, or with a user who answers.
Program ==
  \/ StartSession \/ ExitBetweenJobs \/ TakeJob \/ LoopEnds \/ Job \/ Shutdown

Next ==
  \/ StartBatch \/ StartUrl \/ ContinueRun \/ ContinueNothing
  \/ Program
  \/ StartInterrupted \/ UserLeaves \/ CtrlC \/ Die

Spec == Init /\ [][Next]_vars

\* The process runs on, and a user who has a checkpoint continues it.
FairSpec == Spec /\ WF_vars(Program) /\ WF_vars(ContinueRun)

-----------------------------------------------------------------------------
TypeOK ==
  /\ status \in [Ids -> Statuses]
  /\ checkpoint \in [ids : Seq(Ids), next : Nat]
  /\ logged \subseteq Ids /\ applied \subseteq Ids
  /\ pc \in Pcs /\ kind \in {"batch", "resume", "url"}
  /\ queue \in Seq(Ids) /\ fullIds \in Seq(Ids)
  /\ base \in Nat /\ pos \in 1..(Len(queue) + 1)
  /\ exitReason \in {"none", "startup", "job"}
  /\ outcome \in {"none"} \cup Final
  /\ exitFlag \in BOOLEAN
  /\ batches \in Nat /\ urls \in Nat /\ stops \in Nat

\* Which parts of the process's memory mean something where.
Control ==
  /\ pc = "starting" => pos = 1
  /\ pc \in InJob \cup {"starting", "loop"} => exitReason = "none"
  /\ pc \in InJob \/ exitReason = "job" => pos <= Len(queue)
  /\ pc = "checkpointing" => exitReason = "job" /\ kind # "url"

\* After a clean stop of a batch the interrupted job is not left IN_PROGRESS:
\* it is pending again, or decided.
StoppedJobIsReleased ==
  /\ exitReason = "job" /\ kind # "url"
  /\ pc \in {"checkpointing", "uploading", "prompt"}
  => status[current] # "IN_PROGRESS"

\* How the list a run iterates over lines up with the list it would save, which
\* for a resumed run is longer: job m of the one is at base + m or later in the
\* other, and every pending job behind the cursor is in both (unless the
\* resume was filtered).
Aligned ==
  /\ \A m \in 1..Len(queue) :
       \E k \in (base + m)..Len(fullIds) : fullIds[k] = queue[m]
  /\ \A k \in (base + 1)..Len(fullIds) :
       fullIds[k] \in Range(queue) =>
         \E m \in 1..Len(queue) : m <= k - base /\ queue[m] = fullIds[k]
  /\ ~FilterResume =>
       \A k \in (base + 1)..Len(fullIds) :
         status[fullIds[k]] = "PENDING" => fullIds[k] \in Range(queue)

\* What the loop has passed, and what it is at, is no longer pending, but for
\* the interrupted job, which may stand in the list twice.
Passed ==
  /\ pc \in InJob => status[current] # "PENDING"
  /\ pc \in {"loop", "saving", "checkpointing"} \cup InJob =>
       \A m \in 1..(pos - 1) :
         status[queue[m]] = "PENDING" => pc = "checkpointing" /\ queue[m] = current

\* Without repeated ids no list names a job twice, and what the loop has yet
\* to take is as it was when the list was made.
Distinct ==
  ~RepeatedIds =>
    IsInjective(queue) /\ IsInjective(fullIds) /\ IsInjective(checkpoint.ids)

Ahead ==
  ~RepeatedIds /\ pc \in {"starting", "loop"} \cup InJob =>
    \A m \in 1..Len(queue) :
      m > pos \/ (m = pos /\ pc \notin InJob) =>
        /\ status[queue[m]] # "SUBMITTED"
        /\ kind = "resume" => status[queue[m]] \in {"PENDING", "IN_PROGRESS"}

\* What the run keeps straight at every step, however it is interrupted.
Bookkeeping == Control /\ Aligned /\ Passed /\ StoppedJobIsReleased /\ Distinct /\ Ahead

\* "A stale command therefore cannot re-apply a job which was already
\* submitted" (cli/main.py): no run takes a job that is recorded SUBMITTED.
\* An explicit --url run writes PENDING first.
NoReapplication ==
  [][\A j \in Ids : status[j] = "SUBMITTED" => status'[j] # "IN_PROGRESS"]_vars

\* README, "What resume means": jobs already submitted, skipped or failed are
\* not re-run by a resumed run.
ResumeSkipsFinished ==
  [][\A j \in Ids : kind = "resume" /\ status'[j] = "IN_PROGRESS"
       => status[j] \in {"PENDING", "IN_PROGRESS"}]_vars

\* The cursor never passes a job that is still pending: whatever this run's
\* checkpoint leaves behind is decided, or comes again after the cursor.
\* (A resumed run indexes a filtered list but saves the unfiltered one.)
NoPendingLeftBehind ==
  [][pc = "checkpointing" /\ pc' = "uploading" =>
       \A k \in (base + 1)..checkpoint'.next :
         status[checkpoint'.ids[k]] = "PENDING" =>
           \E l \in (checkpoint'.next + 1)..Len(checkpoint'.ids) :
             checkpoint'.ids[l] = checkpoint'.ids[k]]_vars

\* Every job a checkpoint still holds is run in the end, if the user keeps
\* continuing and starts no further batch.
Saved(j) ==
  /\ pc = "idle" /\ batches = MaxBatches
  /\ \E k \in PlacesLeft(checkpoint, Ids) : checkpoint.ids[k] = j

SavedJobsAreRun == \A j \in Ids : Saved(j) ~> status[j] # "PENDING"

-----------------------------------------------------------------------------
(* What the documentation says and the code does not keep.                 *)

\* README, "What resume means": jobs already submitted are not re-run.  Here
\* submitted means that the employer has the application, recorded or not.
ResumeSkipsApplied ==
  [][\A j \in Ids : kind = "resume" /\ pc = "loop" /\ status'[j] # status[j]
       => j \notin applied]_vars

\* README, LinkedIn handling: a LinkedIn job that is skipped is marked
\* SKIPPED.  What the batch counts as skipped, the table says is skipped.
SkippedIsRecorded ==
  pc = "loop" /\ outcome = "SKIPPED" => status[queue[pos - 1]] = "SKIPPED"
=============================================================================
