------------------------------- MODULE Phases -------------------------------
(***************************************************************************)
(* The two library engines that work in phases.  The asynchronous one      *)
(* (orchestration/async_engine.py) applies to a batch of jobs at once:     *)
(* a semaphore, a delay between requests, then rules, LLM and human.  The  *)
(* graph (orchestration/state_machine.py) applies to one job after the     *)
(* other: memory, LLM page by page, rules, human.  A program uses one of   *)
(* them.  The handlers, the filler, the executor and the human are         *)
(* outcomes here: they report success, fail, or raise.                     *)
(***************************************************************************)
EXTENDS Integers, FiniteSets, FiniteSetsExt

CONSTANTS
  Jobs,
  Permits,    \* the semaphore: jobs in work at once
  MinDelay,   \* _min_delay, in ticks
  MaxRetries, \* config.max_retries, of a phase
  MaxPages,   \* pages of the LLM loop of the graph
  HasLLM      \* whether a client is configured

ASSUME PhasesAssumption ==
  /\ IsFiniteSet(Jobs) /\ HasLLM \in BOOLEAN
  /\ {Permits, MinDelay, MaxRetries, MaxPages} \subseteq Nat \ {0}

VARIABLES
  mode,    \* the engine: "batch" or "graph"
  at,      \* where each job is
  try,     \*   the attempt, or the page
  good,    \*   whether a page of the LLM loop went well enough
  sleep,   \*   for how long it still waits
  age,     \*   the time since it started, up to MinDelay
  since,   \* the time since _last_request_time, up to MinDelay
  row,     \* the rows: the detected ATS and the status
  result,  \* what apply_to_job returned
  won,     \* which phase reported success
  asked,   \* the jobs the human was asked about
  raised,  \* the jobs whose exception ended them
  stats,   \* the counts of the engine
  known    \* whether there are locators learnt from the LLM

clock  == <<sleep, age, since>>
record == <<row, result, stats>>
marks  == <<won, asked, raised>>
vars == <<mode, at, try, good, clock, record, marks, known>>

PhaseNames == {"memory", "llm", "rules", "human"}

TypeOK ==
  /\ mode \in {"batch", "graph"}
  /\ at \in [Jobs -> {"waiting", "sleeping", "opening", "report", "count", "close", "done"}
                     \cup PhaseNames]
  /\ try \in [Jobs -> 0..Max({MaxRetries, MaxPages + 1})] /\ good \in [Jobs -> BOOLEAN]
  /\ sleep \in [Jobs -> 0..MinDelay] /\ age \in [Jobs -> 0..MinDelay] /\ since \in 0..MinDelay
  /\ row \in [Jobs -> [ats : BOOLEAN, status : {"pending", "submitted", "failed"}]]
  /\ result \in [Jobs -> {"none", "submitted", "failed"}]
  /\ won \in [Jobs -> PhaseNames \cup {"none"}]
  /\ asked \subseteq Jobs /\ raised \subseteq Jobs
  /\ stats \in [processed : Nat, successful : Nat, failed : Nat]
  /\ known \in BOOLEAN

Init ==
  /\ mode \in {"batch", "graph"}
  /\ at = [j \in Jobs |-> "waiting"] /\ try = [j \in Jobs |-> 0]
  /\ good = [j \in Jobs |-> FALSE]
  /\ sleep = [j \in Jobs |-> 0] /\ age = [j \in Jobs |-> MinDelay]
  /\ since \in {0, MinDelay}   \* after another batch, or the first one
  /\ row = [j \in Jobs |-> [ats |-> FALSE, status |-> "pending"]]
  /\ result = [j \in Jobs |-> "none"] /\ won = [j \in Jobs |-> "none"]
  /\ asked = {} /\ raised = {}
  /\ stats = [processed |-> 0, successful |-> 0, failed |-> 0]
  /\ known \in BOOLEAN

Goes(j, where) == at' = [at EXCEPT ![j] = where]

\* Enter a phase at its first attempt or page.
Enters(j, phase) ==
  /\ Goes(j, phase) /\ try' = [try EXCEPT ![j] = IF phase = "human" THEN 0 ELSE 1]
  /\ good' = [good EXCEPT ![j] = FALSE]

\* A phase has its result.
Wins(j, phase) ==
  /\ Goes(j, "report") /\ won' = [won EXCEPT ![j] = phase]
  /\ try' = [try EXCEPT ![j] = 0] /\ good' = [good EXCEPT ![j] = FALSE]

-----------------------------------------------------------------------------
(* The batch: admission                                                    *)

Tick ==
  /\ mode = "batch"
  /\ since' = Min({since + 1, MinDelay})
  /\ age' = [j \in Jobs |-> Min({age[j] + 1, MinDelay})]
  /\ sleep' = [j \in Jobs |-> Max({sleep[j] - 1, 0})]
  /\ UNCHANGED <<mode, at, try, good, record, marks, known>>

\* Fault: a permit is not returned.
EverInWork == {j \in Jobs : at[j] # "waiting"}

InWork == {j \in Jobs : at[j] \notin {"waiting", "done"}}

Starts(j) == Goes(j, "opening") /\ since' = 0 /\ age' = [age EXCEPT ![j] = 0]

\* Take a permit; who has to wait for the last request sleeps for what is
\* missing now.
Admit(j) ==
  /\ mode = "batch" /\ at[j] = "waiting" /\ Cardinality(InWork) < Permits
  /\ \/ since = MinDelay /\ Starts(j) /\ UNCHANGED sleep
     \/ /\ since < MinDelay /\ Goes(j, "sleeping")
        /\ sleep' = [sleep EXCEPT ![j] = MinDelay - since] /\ UNCHANGED <<since, age>>
  /\ UNCHANGED <<mode, try, good, record, marks, known>>

\* Fault: the time of the request is written before the sleep only.
WakeUnrecorded(j) ==
  /\ at[j] = "sleeping" /\ sleep[j] = 0
  /\ Goes(j, "opening") /\ age' = [age EXCEPT ![j] = 0]
  /\ UNCHANGED <<mode, try, good, sleep, since, record, marks, known>>

\* The sleep is over; the time of the last request is not looked at again.
Wake(j) ==
  /\ at[j] = "sleeping" /\ sleep[j] = 0 /\ Starts(j)
  /\ UNCHANGED <<mode, try, good, sleep, record, marks, known>>

\* The next job goes through the graph.
StartGraph(j) ==
  /\ mode = "graph" /\ at[j] = "waiting" /\ InWork = {}
  /\ Enters(j, "memory")
  /\ UNCHANGED <<mode, clock, record, marks, known>>

\* Browser, navigation, detection; update_ats_type commits by itself.
Open(j) ==
  /\ at[j] = "opening" /\ Enters(j, "rules")
  /\ row' = [row EXCEPT ![j].ats = TRUE]
  /\ UNCHANGED <<mode, clock, result, stats, marks, known>>

\* The summary with one more job.
Counted(success) ==
  [processed  |-> stats.processed + 1,
   successful |-> stats.successful + IF success THEN 1 ELSE 0,
   failed     |-> stats.failed + IF success THEN 0 ELSE 1]

\* Whatever raises in apply_to_job: counted as failed, and nobody is asked.
Raises(j) ==
  /\ mode = "batch" /\ at[j] \in {"opening", "report", "count", "close"}
  /\ Goes(j, "done") /\ result' = [result EXCEPT ![j] = "failed"]
  /\ stats' = Counted(FALSE)
  /\ raised' = raised \cup {j}
  /\ UNCHANGED <<mode, try, good, clock, row, won, asked, known>>

-----------------------------------------------------------------------------
(* The phases of the batch                                                 *)

\* What follows a phase that failed: the edges of the graph, or the order of
\* _execute_three_phase, which leaves the LLM out when there is no client.
After(phase) ==
  CASE phase = "memory" -> "llm"
    [] phase = "llm"    -> IF mode = "graph" THEN "rules" ELSE "human"
    [] phase = "rules"  -> IF mode = "batch" /\ HasLLM THEN "llm" ELSE "human"

\* An attempt of the rules (handler or apply button, fill, submit), or of the
\* LLM (one plan of actions) of the batch: what it raises is caught.
Attempt(j, phase) ==
  /\ mode = "batch" /\ at[j] = phase
  /\ \/ Wins(j, phase)
     \/ /\ try[j] < MaxRetries /\ try' = [try EXCEPT ![j] = @ + 1]
        /\ UNCHANGED <<at, good, won>>
     \/ try[j] = MaxRetries /\ Enters(j, After(phase)) /\ UNCHANGED won
  /\ UNCHANGED <<mode, clock, record, asked, raised, known>>

BatchRules(j) == Attempt(j, "rules")
BatchLlm(j)   == Attempt(j, "llm")

\* The rules of the graph, once.
GraphRules(j) ==
  /\ mode = "graph" /\ at[j] = "rules"
  /\ \/ Wins(j, "rules")
     \/ Enters(j, After("rules")) /\ UNCHANGED won
  /\ UNCHANGED <<mode, clock, record, asked, raised, known>>

\* The human shows the apply button, the form is filled and, confirmed, sent.
Human(j) ==
  /\ at[j] = "human" /\ asked' = asked \cup {j}
  /\ \/ Wins(j, "human")
     \/ Goes(j, "report") /\ UNCHANGED <<try, good, won>>
  /\ UNCHANGED <<mode, clock, record, raised, known>>

-----------------------------------------------------------------------------
(* The phases of the graph                                                 *)

\* The locators learnt from the LLM are replayed, up to the first that fails.
Memory(j) ==
  /\ at[j] = "memory"
  /\ \/ known /\ Wins(j, "memory")
     \/ Enters(j, After("memory")) /\ UNCHANGED won
  /\ UNCHANGED <<mode, clock, record, asked, raised, known>>

\* Fault: an exception of the loop leaves the phases.
LlmOrGiveUp(j) ==
  /\ mode = "graph" /\ at[j] = "llm" /\ Goes(j, "report") /\ UNCHANGED <<try, good, won>>
  /\ UNCHANGED <<mode, clock, record, asked, raised, known>>

\* No client, no plan for the human's sake, a question, or an exception: the
\* phase failed, whatever the pages before it did.
LlmFails(j) ==
  /\ mode = "graph" /\ at[j] = "llm" /\ Enters(j, After("llm"))
  /\ UNCHANGED <<mode, clock, record, marks, known>>

\* One page: a plan is executed, and half of its actions make the phase a
\* success.  Locators are kept of a plan that worked as a whole and had
\* nothing to upload.  The loop goes on while the page changes.
LlmPage(j) ==
  /\ mode = "graph" /\ at[j] = "llm" /\ HasLLM /\ try[j] <= MaxPages
  /\ \E well \in BOOLEAN :
       /\ good' = [good EXCEPT ![j] = @ \/ well]
       /\ known' \in {known, known \/ well}
  /\ try' = [try EXCEPT ![j] = @ + 1]
  /\ UNCHANGED <<mode, at, clock, record, marks>>

\* No answer, no actions, no change, or the last page.
LlmEnds(j) ==
  /\ mode = "graph" /\ at[j] = "llm" /\ HasLLM
  /\ \/ good[j] /\ Wins(j, "llm")
     \/ ~good[j] /\ Enters(j, After("llm")) /\ UNCHANGED won
  /\ UNCHANGED <<mode, clock, record, asked, raised, known>>

-----------------------------------------------------------------------------
(* The result                                                              *)

Outcome(j) == IF won[j] # "none" THEN "submitted" ELSE "failed"

\* _finalize; the graph writes no row.
Finalize(j) ==
  /\ mode = "graph" /\ at[j] = "report" /\ Goes(j, "done")
  /\ result' = [result EXCEPT ![j] = Outcome(j)]
  /\ UNCHANGED <<mode, try, good, clock, row, stats, marks, known>>

\* update_status commits by itself.
Report(j) ==
  /\ mode = "batch" /\ at[j] = "report" /\ Goes(j, "count")
  /\ row' = [row EXCEPT ![j].status = Outcome(j)]
  /\ UNCHANGED <<mode, try, good, clock, result, stats, marks, known>>

Count(j) ==
  /\ at[j] = "count" /\ Goes(j, "close") /\ stats' = Counted(won[j] # "none")
  /\ UNCHANGED <<mode, try, good, clock, row, result, marks, known>>

\* Commit of what is left, page and browser closed, permit returned.
Close(j) ==
  /\ at[j] = "close" /\ Goes(j, "done") /\ result' = [result EXCEPT ![j] = Outcome(j)]
  /\ UNCHANGED <<mode, try, good, clock, row, stats, marks, known>>

-----------------------------------------------------------------------------

Step(j) ==
  \/ Admit(j) \/ Wake(j) \/ StartGraph(j) \/ Open(j) \/ Raises(j)
  \/ BatchRules(j) \/ BatchLlm(j) \/ GraphRules(j) \/ Human(j)
  \/ Memory(j) \/ LlmFails(j) \/ LlmPage(j) \/ LlmEnds(j)
  \/ Finalize(j) \/ Report(j) \/ Count(j) \/ Close(j)

Next == Tick \/ \E j \in Jobs : Step(j)

\* The event loop runs what is ready, and calls return or raise.
Spec == Init /\ [][Next]_vars /\ \A j \in Jobs : WF_vars(Step(j)) /\ WF_vars(Tick)

-----------------------------------------------------------------------------
(* Properties                                                              *)

\* Whatever the order in which the waiting jobs wake up, no more than Permits
\* requests start within MinDelay (the semaphore is held while _rate_limit
\* sleeps, and the time is written after the sleep).
RateIsBounded == Cardinality({j \in Jobs : age[j] < MinDelay}) <= Permits

\* The summary counts no job as successful whose row does not say submitted,
\* also when closing its browser raises afterwards (update_status commits
\* before the statistics are touched).
SuccessIsRecorded ==
  stats.successful <= Cardinality({j \in Jobs : row[j].status = "submitted"})

\* A job that no phase could do and no exception ended was brought before the
\* human: an LLM that gives up half way, runs out of pages or raises leads on
\* to the rules and to the human.
GivesUpLast ==
  \A j \in Jobs : result[j] = "failed" => j \in asked \cup raised

\* Every job of the batch, and every job of the graph, comes to an end.
EveryJobEnds == <>(\A j \in Jobs : at[j] = "done")

\* async_engine.py: "Minimum 2s between requests".
MinimumDelay == [][\A j \in Jobs : age'[j] = 0 /\ age[j] # 0 => since = MinDelay]_vars

\* session.py of the transaction around apply_to_job: "All committed together
\* or rolled back on error".
AllOrNothing ==
  \A j \in Jobs : j \in raised => row[j] = [ats |-> FALSE, status |-> "pending"]
=============================================================================
