----------------------------- MODULE FieldMemory -----------------------------
(***************************************************************************)
(* The answers the program remembers: table field_answers, its repository  *)
(* (storage/repositories.py), AgentMemory (intelligence/memory.py), and    *)
(* everything that writes to it: the form-filling loop of                  *)
(* orchestration/engine.py, the prompts of human/agent_interface.py, the   *)
(* scrape after a handoff, the merge of server updates                     *)
(* (sync/sqlite_merger.py) and the repair at start-up (storage/models.py). *)
(*                                                                         *)
(* A row is keyed by a normalised label and an ATS.  Its confidence is a   *)
(* stored column, here the pair <<n, d>> that stands for n / d.            *)
(***************************************************************************)
EXTENDS Integers, FiniteSets

CONSTANTS
  Labels,        \* normalised field labels
  Known,         \* those the synonym resolver recognises
  Values,        \* answers
  NoValue,       \* no answer
  Sites,         \* the ATS types other than UNKNOWN
  Resume,        \* what resume and common questions answer, by label
  LegacyAnswers, \* rows older than the confidence column
  ServerAnswers, \* field answers the server may send
  MaxUses        \* bound: counts of a row the local program reaches

Unknown == "UNKNOWN"
Ats     == Sites \cup {Unknown}
Keys    == Labels \X Ats

HighTrust == {"human", "user"}
LowTrust  == {"llm", "human_observed", "auto"}

\* confidence = success_count / (success_count + failure_count)
ComputeConfidence(s, f) == IF s + f = 0 THEN <<0, 1>> ELSE <<s, s + f>>

AtLeast(c, d) == c[1] * d[2] >= d[1] * c[2]
Exceeds(c, d) == c[1] * d[2] >  d[1] * c[2]

Ratio == Nat \X (Nat \ {0})
Row   == [value : Values \cup {NoValue}, source : HighTrust \cup LowTrust \cup {"none"},
          success : Nat, failure : Nat, confidence : Ratio]
NoRow == [value |-> NoValue, source |-> "none", success |-> 0, failure |-> 0,
          confidence |-> <<0, 1>>]

ASSUME AnswersAssumption ==
  /\ Known \subseteq Labels /\ NoValue \notin Values /\ Unknown \notin Sites
  /\ IsFiniteSet(Sites)
  /\ Resume \in [Labels -> Values \cup {NoValue}]
  /\ MaxUses \in Nat
ASSUME RowsAssumption ==
  /\ LegacyAnswers \subseteq {r \in Row : r.value # NoValue /\ r.source = "human"
                                          /\ r.confidence[1] = 0}
  /\ ServerAnswers \subseteq {r \in Row : r.value # NoValue /\ r.source = "auto"}

VARIABLES
  answers,  \* table field_answers
  stage,    \* "down": no process; "idle": between jobs; else a stage of the fill loop
  ats,      \* state.detected_ats of the current job
  page,     \* what the fields of the form hold, and who put it there
  cache,    \* agent._session_question_cache
  saved     \* agent._saved_this_session

form == <<ats, page, cache, saved>>
vars == <<answers, stage, form>>

Content == [value : Values, by : {"human", "machine"}]
Blank   == [value |-> NoValue, by |-> "machine"]
Filling == {"plan", "filled", "scanned"}

NoPage  == [q \in Labels |-> Blank]
NoCache == [q \in Labels |-> NoValue]

-----------------------------------------------------------------------------
(* Writing one row.                                                        *)

ConfidenceThreshold == <<3, 5>>
MinSuccessCount     == 3

\* Fault: the counts move, the stored confidence does not.
CountedStale(row, ok) ==
  [row EXCEPT !.success = IF ok THEN @ + 1 ELSE @, !.failure = IF ok THEN @ ELSE @ + 1]

Counted(row, ok) ==
  LET s == IF ok THEN row.success + 1 ELSE row.success
      f == IF ok THEN row.failure ELSE row.failure + 1
  IN  [row EXCEPT !.success = s, !.failure = f, !.confidence = ComputeConfidence(s, f)]

\* Fault: a label without a row gets one.
RecordOutcomeAlways(row, ok) == Counted(row, ok)

RecordOutcome(row, ok) == IF row = NoRow THEN NoRow ELSE Counted(row, ok)

\* High-trust answers start above the gate, others must earn their place.
NewAnswer(v, source) ==
  LET s == IF source \in HighTrust THEN MinSuccessCount ELSE 1
  IN  [value |-> v, source |-> source, success |-> s, failure |-> 0,
       confidence |-> ComputeConfidence(s, 0)]

\* Fault: the source of the row is not asked.
MayReplaceAny(row, source) == TRUE

\* Merge protection.
MayReplace(row, source) == row.source \notin HighTrust \/ source \in HighTrust

\* Every caller reports success.
SaveAnswer(row, v, source) ==
  IF row = NoRow THEN NewAnswer(v, source)
  ELSE Counted(IF MayReplace(row, source)
               THEN [row EXCEPT !.value = v, !.source = source] ELSE row, TRUE)

\* The row already holds the value: nothing is saved, neither count nor source.
SaveFieldAnswer(row, v, source) ==
  IF row.value = v THEN row ELSE SaveAnswer(row, v, source)

MergeServerUpdate(row, r) ==
  IF row = NoRow \/ Exceeds(r.confidence, row.confidence) THEN r ELSE row

RepairConfidence(row) ==
  IF row.confidence[1] = 0 /\ row.success > 0
  THEN [row EXCEPT !.confidence = ComputeConfidence(row.success, row.failure)]
  ELSE row

-----------------------------------------------------------------------------
(* Looking up an answer.                                                   *)

Gated(row) == /\ row # NoRow
              /\ AtLeast(row.confidence, ConfidenceThreshold)
              /\ row.success >= MinSuccessCount

ByNormalizedLabel(q, a) == {r \in {answers[<<q, a>>]} : Gated(r)}

\* Order by confidence, then successes; the order of equals is SQLite's.
Universal(q) ==
  LET rows == {r \in {answers[<<q, a>>] : a \in Ats} : Gated(r)}
      Beats(r, t) == \/ Exceeds(r.confidence, t.confidence)
                     \/ AtLeast(r.confidence, t.confidence) /\ r.success > t.success
  IN  {t \in rows : ~\E r \in rows : Beats(r, t)}

TrustedHuman(q, a) == {r \in {answers[<<q, a>>]} : r.source \in HighTrust}

\* Fault: a human's answer below the gate is forgotten.
PrioritiesGated(q, a) ==
  <<ByNormalizedLabel(q, a), Universal(q), ByNormalizedLabel(q, Unknown)>>

\* The priorities of get_best_answer after the resume.
Priorities(q, a) ==
  <<ByNormalizedLabel(q, a), Universal(q), ByNormalizedLabel(q, Unknown),
    TrustedHuman(q, a), TrustedHuman(q, Unknown)>>

\* The answers get_best_answer may give; {} is "not_found".
BestAnswers(q, a) ==
  IF Resume[q] # NoValue THEN {Resume[q]}
  ELSE LET P == Priorities(q, a)
       IN  {r.value : r \in UNION {P[i] : i \in {n \in DOMAIN P :
                                       \A m \in 1..(n - 1) : P[m] = {}}}}

\* Fault: the session cache is not consulted.
RememberedInTable(q) == BestAnswers(q, ats)

\* What request_field_input answers without asking.
Remembered(q) == IF cache[q] # NoValue THEN {cache[q]} ELSE BestAnswers(q, ats)

-----------------------------------------------------------------------------
(* A process starts, takes a job, ends.                                    *)

Init == /\ answers \in [Keys -> LegacyAnswers \cup {NoRow}]
        /\ stage = "down"
        /\ ats = Unknown /\ page = NoPage /\ cache = NoCache /\ saved = {}

\* Database.create_tables, on every start.
CreateTables ==
  /\ stage = "down" /\ stage' = "idle"
  /\ answers' = [k \in Keys |-> RepairConfidence(answers[k])]
  /\ UNCHANGED form

\* Extension and rules come first: the form is filled as far as they can.
PreFilled == [Labels -> {c \in Content : c.by = "machine"} \cup {Blank}]

StartJob ==
  /\ stage = "idle" /\ stage' = "plan"
  /\ ats' \in Ats
  /\ page' \in PreFilled
  /\ UNCHANGED <<answers, cache, saved>>

\* Page and agent interface live as long as apply_to_job does.
CloseForm == ats' = Unknown /\ page' = NoPage /\ cache' = NoCache /\ saved' = {}

\* apply_to_job returns, from wherever it is.
FinishJob ==
  /\ stage \in Filling /\ stage' = "idle"
  /\ CloseForm
  /\ UNCHANGED answers

ProcessEnds ==
  /\ stage # "down" /\ stage' = "down"
  /\ CloseForm
  /\ UNCHANGED answers

\* One field answer of a downloaded payload, in `sync` or after a run.
Merge ==
  /\ stage = "idle"
  /\ \E k \in Keys, r \in ServerAnswers :
       answers' = [answers EXCEPT ![k] = MergeServerUpdate(@, r)]
  /\ UNCHANGED <<stage, form>>

-----------------------------------------------------------------------------
(* The form-filling loop.                                                  *)

\* The bound on counts.
Within(rows) ==
  \A k \in Keys : rows[k] = answers[k] \/ rows[k].success + rows[k].failure <= MaxUses

Commit(rows) == Within(rows) /\ answers' = rows

\* A planned fill works: the value is saved as the LLM's and its use counted.
LLMFills(q, v) ==
  /\ stage = "plan" /\ page[q] = Blank
  /\ page' = [page EXCEPT ![q] = [value |-> v, by |-> "machine"]]
  /\ Commit([answers EXCEPT ![<<q, ats>>] =
               RecordOutcome(SaveFieldAnswer(@, v, "llm"), TRUE)])
  /\ UNCHANGED <<stage, ats, cache, saved>>

\* It fails: the row of the label loses confidence, whatever value it holds.
LLMFails(q) ==
  /\ stage = "plan" /\ page[q] = Blank
  /\ Commit([answers EXCEPT ![<<q, ats>>] = RecordOutcome(@, FALSE)])
  /\ UNCHANGED <<stage, form>>

\* apply_field_value may fail to find the field.
Apply(q, v, who) ==
  page' \in {page, [page EXCEPT ![q] = [value |-> v, by |-> who]]}

\* request_field_input finds an answer in the session or in the table.
Reuse(q) ==
  /\ stage = "plan" /\ page[q] = Blank
  /\ \E v \in Remembered(q) : /\ cache' = [cache EXCEPT ![q] = v]
                              /\ Apply(q, v, "machine")
  /\ UNCHANGED <<answers, stage, ats, saved>>

\* persist_human_answer: a generic question is also saved for every ATS.
PersistHumanAnswer(q, v) ==
  LET here == [answers EXCEPT ![<<q, ats>>] = SaveFieldAnswer(@, v, "human")]
  IN  IF <<q, v>> \in saved \/ here = answers THEN answers
      ELSE IF q \in Known
           THEN [here EXCEPT ![<<q, Unknown>>] = SaveFieldAnswer(@, v, "human")]
           ELSE here

\* request_field_input has to ask; no answer leaves everything as it is.
Asked(q, v) ==
  /\ page[q] = Blank /\ Remembered(q) = {}
  /\ cache' = [cache EXCEPT ![q] = v]
  /\ saved' = saved \cup {<<q, v>>}

Ask(q, v) ==
  /\ stage = "plan"
  /\ Asked(q, v)
  /\ Commit(PersistHumanAnswer(q, v))
  /\ Apply(q, v, "human")
  /\ UNCHANGED <<stage, ats>>

ActionsDone ==
  /\ stage = "plan" /\ stage' = "filled"
  /\ UNCHANGED <<answers, form>>

\* show_failed_fields, then the action is executed again with the answer and,
\* if it works, the answer is saved as a human's, wherever it came from.
RetryReused(q) ==
  /\ stage = "filled" /\ page[q] = Blank
  /\ \E v \in Remembered(q) :
       /\ cache' = [cache EXCEPT ![q] = v]
       /\ \/ /\ page' = [page EXCEPT ![q] = [value |-> v, by |-> "machine"]]
             /\ Commit([answers EXCEPT ![<<q, ats>>] = SaveFieldAnswer(@, v, "human")])
          \/ UNCHANGED <<answers, page>>
  /\ UNCHANGED <<stage, ats, saved>>

RetryAsked(q, v) ==
  /\ stage = "filled"
  /\ Asked(q, v)
  /\ LET told == PersistHumanAnswer(q, v)
     IN  \/ /\ page' = [page EXCEPT ![q] = [value |-> v, by |-> "human"]]
            /\ Commit([told EXCEPT ![<<q, ats>>] = SaveFieldAnswer(@, v, "human")])
         \/ page' = page /\ Commit(told)
  /\ UNCHANGED <<stage, ats>>

\* The browser is visible: the human may fill, correct or clear a field.
HumanEdits(q) ==
  /\ stage \in {"plan", "filled"}
  /\ \E c \in {d \in Content : d.by = "human"} \cup {Blank} :
       page' = [page EXCEPT ![q] = c]
  /\ UNCHANGED <<answers, stage, ats, cache, saved>>

\* The rows after every value of a form has been saved.
Learn(p, source) ==
  [k \in Keys |-> IF k[2] = ats /\ p[k[1]] # Blank
                  THEN SaveFieldAnswer(answers[k], p[k[1]].value, source)
                  ELSE answers[k]]

\* "Learn manually-filled fields from browser": every value, whoever filled it.
ScanPage ==
  /\ stage = "filled" /\ stage' = "scanned"
  /\ Commit(Learn(page, "human"))
  /\ UNCHANGED form

\* The same form again, or the next page of it.
NextPass ==
  /\ stage = "scanned" /\ stage' = "plan"
  /\ page' \in {page} \cup PreFilled
  /\ UNCHANGED <<answers, ats, cache, saved>>

\* A handoff: the human works on the form, then its values are scraped.
HandOver ==
  /\ stage \in Filling /\ stage' = "plan"
  /\ page' \in [Labels -> Content \cup {Blank}]
  /\ \A q \in Labels : page'[q] = page[q] \/ page'[q].by = "human"
  /\ Commit(Learn(page', "human_observed"))
  /\ UNCHANGED <<ats, cache, saved>>

Fill == \/ \E q \in Labels, v \in Values :
             LLMFills(q, v) \/ Ask(q, v) \/ RetryAsked(q, v)
        \/ \E q \in Labels : LLMFails(q) \/ Reuse(q) \/ RetryReused(q) \/ HumanEdits(q)
        \/ ActionsDone \/ ScanPage \/ NextPass \/ HandOver

Next == CreateTables \/ StartJob \/ FinishJob \/ ProcessEnds \/ Merge \/ Fill

Spec == Init /\ [][Next]_vars

-----------------------------------------------------------------------------
(* Properties.                                                             *)

\* A key without a row has no source, and a row has an answer.
Stored == {r \in Row : r.source # "none" /\ r.value # NoValue}
TypeOK ==
  /\ answers \in [Keys -> Stored \cup {NoRow}]
  /\ stage \in {"down", "idle"} \cup Filling
  /\ ats \in Ats
  /\ page \in [Labels -> Content \cup {Blank}]
  /\ cache \in [Labels -> Values \cup {NoValue}]
  /\ saved \subseteq Labels \X Values

\* README:759-768: no fill of the LLM, scrape after a handoff, outcome or
\* answer to a prompt changes a value stored under a high-trust source.  Two
\* local steps may, the retry of a failed field and the scan of the page, and
\* both leave a high-trust row; otherwise only the server may, with strictly
\* more confidence.  No row is ever lost.
SavesAsHuman == stage = "filled" /\ stage' \in {"filled", "scanned"}
Protected(old, new) ==
  /\ old # NoRow => new # NoRow
  /\ old.source \in HighTrust /\ (new.value # old.value \/ new.source # old.source) =>
       \/ SavesAsHuman /\ new.source \in HighTrust
       \/ new \in ServerAnswers /\ Exceeds(new.confidence, old.confidence)
MergeProtection == [][\A k \in Keys : Protected(answers[k], answers'[k])]_vars

\* The stored confidence, by which the gate and the server merge decide, is the
\* ratio of the counts beside it in every row a running program reads, except
\* in a row that still is as the server sent it (repositories.py:1018, :1108).
Honest(row) ==
  LET c == ComputeConfidence(row.success, row.failure)
  IN  AtLeast(row.confidence, c) /\ AtLeast(c, row.confidence)
ConfidenceIsEarned ==
  stage # "down" => \A k \in Keys : Honest(answers[k]) \/ answers[k] \in ServerAnswers

\* agent_interface.py:1337: the agent asks a question again only if no human's
\* answer to it is stored for this ATS or for every ATS, and no ATS has one
\* that passed the gate.
UnansweredByHumans(q, a) ==
  /\ answers[<<q, a>>].source \notin HighTrust
  /\ answers[<<q, Unknown>>].source \notin HighTrust
AskedOnlyIfUnknown ==
  [][\A q \in Labels, v \in Values : <<q, v>> \in saved' \ saved =>
       /\ UnansweredByHumans(q, ats)
       /\ \A a \in Ats : ~Gated(answers[<<q, a>>])]_vars

\* agent_interface.py:153-158: within one application a question has one
\* answer, although rows change and outrank one another under it.
OneAnswerPerSession ==
  [][stage' \in Filling =>
       \A q \in Labels : cache[q] # NoValue => cache'[q] = cache[q]]_vars

\* README:50: a human's answer is replaced, in the course of a job, only by
\* something a human typed or put into the form.
HumanAnswersAreKept ==
  [][\A q \in Labels, a \in Ats :
       stage \in Filling /\ answers[<<q, a>>].source \in HighTrust =>
         \/ answers'[<<q, a>>].value = answers[<<q, a>>].value
         \/ <<q, answers'[<<q, a>>].value>> \in saved'
         \/ page'[q] = [value |-> answers'[<<q, a>>].value, by |-> "human"]]_vars

\* agent_interface.py:1591: an answer the human has just given is what memory
\* gives from then on for this question on this ATS.
AnswersAreReused ==
  [][\A q \in Labels, v \in Values :
       <<q, v>> \in saved' \ saved => BestAnswers(q, ats)' = {v}]_vars
=============================================================================
