---------------------------- MODULE SelfHealing ----------------------------
(***************************************************************************)
(* The execution layer and its self-healing (execution/engine.py,          *)
(* healing/*.py): a session fills the fields of a form one after the other *)
(* and clicks submit.  An action locates its element, acts and reads the   *)
(* value back, up to Retries times; then the healer looks for another      *)
(* selector and the action is tried with that one.  What worked is counted *)
(* in a file of patterns that all sessions share.  Outside of a batch a    *)
(* field may be handed to the adaptive retry, which escalates.             *)
(*                                                                         *)
(* The page changes at any time: it hydrates and loses what was typed, its *)
(* selectors break, its elements hide.                                     *)
(***************************************************************************)
EXTENDS Integers, Sequences, FiniteSets, SequencesExt

CONSTANTS
  Sessions,   \* processes with a page each and one patterns file
  Order,      \* the fields of the form as the batch fills them, then submit
  Others,     \* what else is on the page and may be taken for one of them
  Semantic,   \* Semantic[f]: the elements the semantic selectors of f hit
  Structural, \* Structural[f]: those the other strategies hit
  Retries,    \* retry_count of an action
  Keep,       \* patterns saved per field
  RetryLimit, EscalateAfter, TooMany, \* RetryConfig, and 5 recent failures
  MaxBatches, MaxChanges, MaxRestarts \* bounds

Fields == ToSet(Order)
Submit == Last(Order)
Elements == Fields \cup Others
Selectors == Elements \cup {"own"}   \* "own", or the element another one hits

ASSUME SelfHealingAssumption ==
  /\ Order \in Seq(Fields) /\ IsInjective(Order) /\ Order # <<>> /\ "own" \notin Elements
  /\ Fields \cap Others = {}
  /\ Semantic \in [Fields -> SUBSET Elements] /\ Structural \in [Fields -> SUBSET Elements]
  /\ {Retries, Keep, RetryLimit, EscalateAfter, TooMany} \subseteq Nat \ {0}
  /\ {MaxBatches, MaxChanges, MaxRestarts} \subseteq Nat

VARIABLES
  value,   \* the page: which field's value each element holds
  broken,  \*   the fields whose own selector hits nothing
  hidden,  \*   the elements that are not visible
  stage,   \* what the session is doing
  n,       \*   the place of its action in the batch
  attempt, \*   how often it has tried
  sel,     \*   with which selector
  mended,  \*   and whether that is the healer's
  ok,      \*   which fields of the batch it reported as filled
  sent,    \*   whether submit was clicked
  conf,    \*   the confidence of a field in the adaptive retry
  recent,  \* failures of that field in the last hour
  mem,     \* SelectorHealer.patterns of the session
  file,    \* the patterns file
  torn,    \*   which a writer has opened and not finished
  earned,  \* history: how often each selector worked
  batches, changes, restarts

page   == <<value, broken, hidden>>
local  == <<n, attempt, sel, mended, ok, sent>>
retry  == <<conf, recent>>
learnt == <<mem, file, torn, earned>>
bounds == <<batches, changes, restarts>>
healVars == <<page, stage, local, retry, learnt, bounds>>

Counts   == [Fields -> [Selectors -> Nat]]
EmptyForm == [e \in Elements |-> "empty"]
NoCounts == [f \in Fields |-> [x \in Selectors |-> 0]]

HealTypeOK ==
  /\ value \in [Sessions -> [Elements -> Fields \cup {"empty"}]]
  /\ broken \in [Sessions -> SUBSET Fields] /\ hidden \in [Sessions -> SUBSET Elements]
  /\ stage \in [Sessions -> {"idle", "left", "locate", "act", "verify", "learn", "save",
                          "heal", "check", "operate"}]
  /\ n \in [Sessions -> 1..Len(Order)] /\ attempt \in [Sessions -> Nat]
  /\ sel \in [Sessions -> Selectors] /\ mended \in [Sessions -> BOOLEAN]
  /\ ok \in [Sessions -> SUBSET Fields]
  /\ sent \in [Sessions -> BOOLEAN]
  /\ conf \in [Sessions -> {"low", "mid", "high"}]
  /\ recent \in [Sessions -> Nat]
  /\ mem \in [Sessions -> Counts] /\ file \in Counts /\ torn \in BOOLEAN
  /\ earned \in Counts
  /\ \A s \in Sessions :
       attempt[s] <= IF stage[s] \in {"check", "operate"} THEN RetryLimit ELSE Retries
  /\ batches \in 0..MaxBatches /\ changes \in 0..MaxChanges /\ restarts \in 0..MaxRestarts

HealInit ==
  /\ value = [s \in Sessions |-> EmptyForm]
  /\ broken = [s \in Sessions |-> {}] /\ hidden = [s \in Sessions |-> {}]
  /\ stage = [s \in Sessions |-> "idle"] /\ n = [s \in Sessions |-> 1]
  /\ attempt = [s \in Sessions |-> 0] /\ sel = [s \in Sessions |-> "own"]
  /\ ok = [s \in Sessions |-> {}] /\ sent = [s \in Sessions |-> FALSE]
  /\ conf = [s \in Sessions |-> "low"] /\ mended = [s \in Sessions |-> FALSE]
  /\ recent = [s \in Sessions |-> 0]
  /\ mem = [s \in Sessions |-> NoCounts] /\ file = NoCounts /\ torn = FALSE
  /\ earned = NoCounts /\ batches = 0 /\ changes = 0 /\ restarts = 0

MovesTo(s, where) == stage' = [stage EXCEPT ![s] = where]

-----------------------------------------------------------------------------
(* The page                                                                *)

Toggled(set, e) == IF e \in set THEN set \ {e} ELSE set \cup {e}

\* It hydrates or is drawn again and what was typed is gone, or an element
\* hides or shows.  (Selectors are found broken where the batch starts.)
PageChanges(s) ==
  /\ stage[s] \in {"locate", "act", "verify", "heal"}
  /\ changes < MaxChanges /\ changes' = changes + 1
  /\ \/ value[s] # EmptyForm /\ value' = [value EXCEPT ![s] = EmptyForm] /\ UNCHANGED hidden
     \/ \E e \in Elements : hidden' = [hidden EXCEPT ![s] = Toggled(@, e)] /\ UNCHANGED value
  /\ UNCHANGED <<broken, stage, local, retry, learnt, batches, restarts>>

-----------------------------------------------------------------------------
(* A batch of actions                                                      *)

Target(s) == Order[n[s]]

\* What the selector of the action hits and is visible.
Hits(s) == IF sel[s] = "own" THEN {Target(s)} \ (broken[s] \cup hidden[s])
                             ELSE {sel[s]} \ hidden[s]

Execute(s, x) ==
  /\ MovesTo(s, "locate") /\ attempt' = [attempt EXCEPT ![s] = 1]
  /\ sel' = [sel EXCEPT ![s] = x]

Reset(s) ==
  /\ n' = [n EXCEPT ![s] = 1] /\ attempt' = [attempt EXCEPT ![s] = 0]
  /\ sel' = [sel EXCEPT ![s] = "own"] /\ mended' = [mended EXCEPT ![s] = FALSE]

\* Fault: a failed action does not stop the batch.
NextAnyway(s) ==
  \/ n[s] = Len(Order) /\ MovesTo(s, "left") /\ Reset(s)
  \/ /\ n[s] < Len(Order) /\ Execute(s, "own")
     /\ n' = [n EXCEPT ![s] = @ + 1] /\ mended' = [mended EXCEPT ![s] = FALSE]

EndBatch(s) == MovesTo(s, "left") /\ Reset(s)

\* On a page some of whose selectors no longer work.  The first action waits
\* a while for the page to hydrate; what comes of that is not looked at.
StartBatch(s) ==
  /\ stage[s] = "idle" /\ batches < MaxBatches /\ batches' = batches + 1
  /\ \E b \in SUBSET Fields : broken' = [broken EXCEPT ![s] = b]
  /\ Execute(s, "own")
  /\ UNCHANGED <<value, hidden, n, mended, ok, sent, retry, learnt, changes, restarts>>

\* The page is left.
Leave(s) ==
  /\ stage[s] = "left" /\ MovesTo(s, "idle") /\ Reset(s)
  /\ value' = [value EXCEPT ![s] = EmptyForm]
  /\ broken' = [broken EXCEPT ![s] = {}] /\ hidden' = [hidden EXCEPT ![s] = {}]
  /\ ok' = [ok EXCEPT ![s] = {}] /\ sent' = [sent EXCEPT ![s] = FALSE]
  /\ UNCHANGED <<retry, learnt, bounds>>

\* The attempt failed.  After the last one the healer gets to see the failed
\* result, once; when that fails too, the batch stops.
AttemptFails(s) ==
  \/ /\ attempt[s] < Retries
     /\ MovesTo(s, "locate") /\ attempt' = [attempt EXCEPT ![s] = @ + 1] /\ UNCHANGED <<n, sel, mended>>
  \/ /\ attempt[s] = Retries /\ ~mended[s]
     /\ MovesTo(s, "heal") /\ UNCHANGED <<n, attempt, sel, mended>>
  \/ attempt[s] = Retries /\ mended[s] /\ EndBatch(s)

Locate(s) ==
  /\ stage[s] = "locate"
  /\ IF Hits(s) # {} THEN MovesTo(s, "act") /\ UNCHANGED <<n, attempt, sel, mended>> ELSE AttemptFails(s)
  /\ UNCHANGED <<page, ok, sent, retry, learnt, bounds>>

\* Clear, then fill; either may fail, and the element may be gone.
Fill(s) ==
  /\ stage[s] = "act" /\ Target(s) # Submit
  /\ \/ /\ \E e \in Hits(s) : value' = [value EXCEPT ![s][e] = Target(s)]
        /\ MovesTo(s, "verify") /\ UNCHANGED <<n, attempt, sel, mended>>
     \/ /\ \/ UNCHANGED value
           \/ \E e \in Hits(s) : value' = [value EXCEPT ![s][e] = "empty"]
        /\ AttemptFails(s)
  /\ UNCHANGED <<broken, hidden, ok, sent, retry, learnt, bounds>>

\* The click may be done when the wait for the navigation times out.
Click(s) ==
  /\ stage[s] = "act" /\ Target(s) = Submit
  /\ \/ /\ Hits(s) # {} /\ sent' = [sent EXCEPT ![s] = TRUE]
        /\ \/ MovesTo(s, "verify") /\ UNCHANGED <<n, attempt, sel, mended>>
           \/ AttemptFails(s)
     \/ UNCHANGED sent /\ AttemptFails(s)
  /\ UNCHANGED <<page, ok, retry, learnt, bounds>>

\* A click has nothing to read back.
Verified(s) == Target(s) = Submit \/ \E e \in Hits(s) : value[s][e] = Target(s)

Verify(s) ==
  /\ stage[s] = "verify"
  /\ \/ /\ Verified(s) /\ MovesTo(s, "learn") /\ UNCHANGED <<n, attempt, sel, mended>>
        /\ ok' = [ok EXCEPT ![s] = @ \cup {Target(s)}]
        /\ earned' = [earned EXCEPT ![Target(s)][sel[s]] = @ + 1]
     \/ ~Verified(s) /\ AttemptFails(s) /\ UNCHANGED <<ok, earned>>
  /\ UNCHANGED <<page, sent, retry, mem, file, torn, bounds>>

-----------------------------------------------------------------------------
(* Healing and learning                                                    *)

\* Patterns of the field that hit something visible, most used first.
Historical(s, f) ==
  LET works == {x \in Selectors : mem[s][f][x] > 0 /\
                  IF x = "own" THEN f \notin broken[s] \cup hidden[s] ELSE x \notin hidden[s]}
  IN  {x \in works : \A y \in works : mem[s][f][y] <= mem[s][f][x]}

\* By name, id, placeholder and label of the kind of field.
SemanticHits(s, f) == Semantic[f] \ hidden[s]

\* By what is left of the selector, other spellings, and the place in the form.
StructuralHits(s, f) == Structural[f] \ hidden[s]

\* The first strategy with a visible candidate wins.
Candidates(s, f) ==
  LET strategies == <<SemanticHits(s, f), Historical(s, f), StructuralHits(s, f)>>
      finds == {i \in 1..3 : strategies[i] # {}}
  IN  IF finds = {} THEN {} ELSE strategies[Min(finds)]

\* Try the action again with what the healer found.
TryHealed(s, x) == Execute(s, x) /\ mended' = [mended EXCEPT ![s] = TRUE] /\ UNCHANGED n

\* Fault: the healed selector is learnt before the action is tried with it.
HealAndLearn(s) ==
  /\ stage[s] = "heal"
  /\ \E x \in Candidates(s, Target(s)) :
       TryHealed(s, x) /\ mem' = [mem EXCEPT ![s][Target(s)][x] = @ + 1]
  /\ UNCHANGED <<page, ok, sent, retry, file, torn, earned, bounds>>

Heal(s) ==
  /\ stage[s] = "heal"
  /\ \/ \E x \in Candidates(s, Target(s)) : TryHealed(s, x)
     \/ Candidates(s, Target(s)) = {} /\ EndBatch(s)
  /\ UNCHANGED <<page, ok, sent, retry, learnt, bounds>>

\* record_success, and _save_patterns up to the opening of the file.
Learn(s) ==
  /\ stage[s] = "learn" /\ MovesTo(s, "save")
  /\ mem' = [mem EXCEPT ![s][Target(s)][sel[s]] = @ + 1]
  /\ file' = NoCounts /\ torn' = TRUE
  /\ UNCHANGED <<page, local, retry, earned, bounds>>

\* The Keep most used selectors of a field are saved.
MostUsed(counts, top) ==
  \A x \in top, y \in Selectors \ top : counts[y] <= counts[x]

\* Who opened the file later overwrites from its start what was written
\* meanwhile; the longer text may stick out.
Save(s) ==
  /\ stage[s] = "save"
  /\ \/ \E top \in [Fields -> kSubset(Min({Keep, Cardinality(Selectors)}), Selectors)] :
          /\ \A f \in Fields : MostUsed(mem[s][f], top[f])
          /\ file' = [f \in Fields |->
                       [x \in Selectors |-> IF x \in top[f] THEN mem[s][f][x] ELSE 0]]
          /\ torn' = FALSE
     \/ ~torn /\ file' = NoCounts /\ torn' = TRUE
  /\ IF n[s] < Len(Order)
     THEN /\ Execute(s, "own") /\ n' = [n EXCEPT ![s] = @ + 1]
          /\ mended' = [mended EXCEPT ![s] = FALSE]
     ELSE EndBatch(s)
  /\ UNCHANGED <<page, ok, sent, retry, mem, earned, bounds>>

\* The disk is full, or the process is killed: the batch ends.
SaveFails(s) ==
  /\ stage[s] = "save" /\ EndBatch(s)
  /\ UNCHANGED <<page, ok, sent, retry, learnt, bounds>>

\* A new process, page and engine: the patterns come from the file; one that
\* cannot be parsed holds none.  (A kill finds the same file as an exception.)
Restart(s) ==
  /\ stage[s] = "idle" /\ mem[s] # file
  /\ restarts < MaxRestarts /\ restarts' = restarts + 1
  /\ mem' = [mem EXCEPT ![s] = file] /\ recent' = [recent EXCEPT ![s] = 0]
  /\ UNCHANGED <<page, stage, local, conf, file, torn, earned, batches, changes>>

-----------------------------------------------------------------------------
(* The adaptive retry                                                      *)

\* execute_with_retry for a field, with some confidence.
StartRetry(s) ==
  /\ stage[s] = "idle" /\ batches < MaxBatches /\ batches' = batches + 1
  /\ MovesTo(s, "check") /\ attempt' = [attempt EXCEPT ![s] = 1]
  /\ \E c \in {"low", "mid", "high"} : conf' = [conf EXCEPT ![s] = c]
  /\ UNCHANGED <<page, n, sel, mended, ok, sent, recent, learnt, changes, restarts>>

\* Before every attempt.
Escalation(s) ==
  CASE conf[s] = "low" -> IF attempt[s] = 1 THEN "selector_healing" ELSE "human_verification"
    [] conf[s] # "low" /\ attempt[s] >= EscalateAfter ->
         IF conf[s] = "high" THEN "human_verification" ELSE "skip_field"
    [] conf[s] # "low" /\ attempt[s] < EscalateAfter ->
         IF recent[s] >= TooMany THEN "skip_field" ELSE "none"

\* Low confidence at first: heal the selector and try again with the
\* confidence of the new one, which is never low.
Check(s) ==
  /\ stage[s] = "check"
  /\ \/ Escalation(s) = "none" /\ MovesTo(s, "operate") /\ UNCHANGED <<attempt, conf>>
     \/ /\ Escalation(s) = "selector_healing" /\ MovesTo(s, "check") /\ UNCHANGED attempt
        /\ \E c \in {"mid", "high"} : conf' = [conf EXCEPT ![s] = c]
     \/ /\ Escalation(s) # "none" /\ MovesTo(s, "idle")
        /\ attempt' = [attempt EXCEPT ![s] = 0] /\ conf' = [conf EXCEPT ![s] = "low"]
  /\ UNCHANGED <<page, n, sel, mended, ok, sent, recent, learnt, bounds>>

\* _adjust_confidence_after_failure, in the classes of the thresholds.
Lowered(c) == {c, IF c = "high" THEN "mid" ELSE "low"}

\* A success clears the failures; a failure counts and costs confidence.
Operate(s) ==
  /\ stage[s] = "operate"
  /\ \/ /\ recent' = [recent EXCEPT ![s] = 0] /\ MovesTo(s, "idle")
        /\ attempt' = [attempt EXCEPT ![s] = 0] /\ conf' = [conf EXCEPT ![s] = "low"]
     \/ /\ recent' = [recent EXCEPT ![s] = @ + 1]
        /\ IF attempt[s] < RetryLimit
           THEN /\ MovesTo(s, "check") /\ attempt' = [attempt EXCEPT ![s] = @ + 1]
                /\ \E c \in Lowered(conf[s]) : conf' = [conf EXCEPT ![s] = c]
           ELSE /\ MovesTo(s, "idle") /\ attempt' = [attempt EXCEPT ![s] = 0]
                /\ conf' = [conf EXCEPT ![s] = "low"]
  /\ UNCHANGED <<page, n, sel, mended, ok, sent, learnt, bounds>>

\* Failures of more than an hour ago no longer count.
TimePasses(s) ==
  /\ recent[s] > 0 /\ recent' = [recent EXCEPT ![s] = @ - 1]
  /\ UNCHANGED <<page, stage, local, conf, learnt, bounds>>

-----------------------------------------------------------------------------

HealStep(s) ==
  \/ Leave(s) \/ Locate(s) \/ Fill(s) \/ Click(s) \/ Verify(s)
  \/ Heal(s) \/ Learn(s) \/ Save(s) \/ SaveFails(s) \/ Check(s) \/ Operate(s)

HealNext == \E s \in Sessions :
  \/ HealStep(s) \/ StartBatch(s) \/ StartRetry(s)
  \/ PageChanges(s) \/ Restart(s) \/ TimePasses(s)

HealSpec == HealInit /\ [][HealNext]_healVars

-----------------------------------------------------------------------------
(* Properties                                                              *)

\* What a pattern counts was verified: over any interleaving of the sessions
\* that share the file, torn writes and restarts, no pattern in a session's
\* memory or in the file counts more than the successes its selector had.
\* (record_success is called after a successful result only, and a file that
\* cannot be read yields no patterns.)
CountsAreEarned ==
  \A f \in Fields, x \in Selectors :
    file[f][x] <= earned[f][x] /\ \A s \in Sessions : mem[s][f][x] <= earned[f][x]

\* A batch clicks submit only after every field before it was reported as
\* filled: attempts, healing and what other sessions taught the healer change
\* nothing in that (execute_batch with stop_on_failure).
SubmitFollowsSuccess ==
  \A s \in Sessions : sent[s] => Fields \ {Submit} \subseteq ok[s]

\* A field that failed TooMany times within the hour is not tried again,
\* within a call or by a later one, so it never fails more often
\* (_check_escalation before every attempt).
FailuresAreBounded == \A s \in Sessions : recent[s] <= TooMany
=============================================================================
