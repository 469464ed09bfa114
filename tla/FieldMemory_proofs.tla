-------------------------- MODULE FieldMemory_proofs --------------------------
(***************************************************************************)
(* What holds of FieldMemory for every set of labels, sites, answers and   *)
(* server payloads.                                                        *)
(*                                                                         *)
(* One lemma, RowSteps, says of each row what a step can have done to it;  *)
(* the theorems read off it what they need.                                *)
(***************************************************************************)
EXTENDS FieldMemory, FiniteSetTheorems, WellFoundedInduction, TLAPS

\* What a local write may do to a row.
Local(old, new) ==
  /\ new \in Stored \cup {NoRow}
  /\ old # NoRow => new # NoRow
  /\ old.source \in HighTrust => new.source \in HighTrust
  /\ new = old \/ Honest(new)

\* ... if it does not save under a high-trust source.
Keeps(old, new) ==
  /\ Local(old, new)
  /\ old.source \in HighTrust => new.value = old.value /\ new.source = old.source

RowStep(k) ==
  \/ Keeps(answers[k], answers'[k])
  \/ SavesAsHuman /\ Local(answers[k], answers'[k])
  \/ /\ stage = "idle"
     /\ \E r \in ServerAnswers : answers'[k] = MergeServerUpdate(answers[k], r)
  \/ stage = "down" /\ stage' = "idle" /\ answers'[k] = RepairConfidence(answers[k])

-----------------------------------------------------------------------------
(* Operations on one row.                                                  *)

\* A stored row is a row.
LEMMA StoredIsRow ==
  ASSUME NEW r \in Stored
  PROVE  r # NoRow
BY DEF Stored, NoRow

\* A computed confidence is a ratio.
LEMMA ComputedRatio ==
  ASSUME NEW s \in Nat, NEW f \in Nat
  PROVE  ComputeConfidence(s, f) \in Ratio
BY DEF ComputeConfidence, Ratio

\* A row whose confidence has just been computed is honest.
LEMMA ComputedHonest ==
  ASSUME NEW r \in Row, r.confidence = ComputeConfidence(r.success, r.failure)
  PROVE  Honest(r)
<1>1. r.confidence \in Ratio
  BY DEF Row
<1>2. r.confidence[1] \in Int /\ r.confidence[2] \in Int
  BY <1>1 DEF Ratio
<1>3. r.confidence[1] * r.confidence[2] \in Int
  BY <1>2
<1> QED BY <1>3 DEF Honest, AtLeast

\* An outcome counts for the row and changes nothing else.
LEMMA CountedKeeps ==
  ASSUME NEW r \in Stored, NEW ok \in BOOLEAN
  PROVE  /\ Counted(r, ok) \in Stored /\ Honest(Counted(r, ok))
         /\ Counted(r, ok).value = r.value /\ Counted(r, ok).source = r.source
         /\ Keeps(r, Counted(r, ok))
<1> DEFINE s == IF ok THEN r.success + 1 ELSE r.success
           f == IF ok THEN r.failure ELSE r.failure + 1
           new == [r EXCEPT !.success = s, !.failure = f,
                            !.confidence = ComputeConfidence(s, f)]
<1>1. new = Counted(r, ok)
  BY DEF Counted
<1>2. s \in Nat /\ f \in Nat
  BY DEF Stored, Row
<1>3. ComputeConfidence(s, f) \in Ratio
  BY <1>2, ComputedRatio
<1> HIDE DEF s, f
<1>4. /\ new \in Stored /\ new.value = r.value /\ new.source = r.source
      /\ new.confidence = ComputeConfidence(new.success, new.failure)
  BY <1>2, <1>3 DEF Stored, Row
<1>5. Honest(new)
  BY <1>4, ComputedHonest DEF Stored
<1>6. new # NoRow
  BY <1>4 DEF Stored, NoRow
<1> HIDE DEF new
<1> QED BY <1>1, <1>4, <1>5, <1>6 DEF Keeps, Local

\* The same for a label that may have no row.
LEMMA OutcomeKeeps ==
  ASSUME NEW r \in Stored \cup {NoRow}, NEW ok \in BOOLEAN
  PROVE  Keeps(r, RecordOutcome(r, ok))
<1>1. CASE r = NoRow
  BY <1>1 DEF RecordOutcome, Keeps, Local
<1>2. CASE r # NoRow
  BY <1>2, CountedKeeps DEF RecordOutcome
<1> QED BY <1>1, <1>2

\* A save keeps to Local under every source, and to Keeps under a low one.
LEMMA SaveSteps ==
  ASSUME NEW r \in Stored \cup {NoRow}, NEW v \in Values,
         NEW src \in HighTrust \cup LowTrust
  PROVE  /\ Local(r, SaveFieldAnswer(r, v, src))
         /\ src \notin HighTrust => Keeps(r, SaveFieldAnswer(r, v, src))
<1>1. CASE r.value = v
  BY <1>1 DEF SaveFieldAnswer, Local, Keeps
<1>2. CASE r.value # v /\ r = NoRow
  <2> DEFINE new == NewAnswer(v, src)
  <2>1. new \in Stored /\ new.confidence = ComputeConfidence(new.success, new.failure)
    <3> DEFINE s == IF src \in HighTrust THEN MinSuccessCount ELSE 1
    <3>1. s \in Nat
      BY DEF MinSuccessCount
    <3>2. ComputeConfidence(s, 0) \in Ratio
      BY <3>1, ComputedRatio
    <3>3. v # NoValue /\ src # "none"
      BY AnswersAssumption DEF HighTrust, LowTrust
    <3> HIDE DEF s
    <3>4. new = [value |-> v, source |-> src, success |-> s, failure |-> 0,
                 confidence |-> ComputeConfidence(s, 0)]
      BY DEF NewAnswer, s
    <3> QED BY <3>1, <3>2, <3>3, <3>4 DEF Stored, Row
  <2>2. Honest(new)
    BY <2>1, ComputedHonest DEF Stored
  <2>3. new # NoRow
    BY <2>1 DEF Stored, NoRow
  <2>4. r.source \notin HighTrust
    BY <1>2 DEF NoRow, HighTrust
  <2> HIDE DEF new
  <2>5. SaveFieldAnswer(r, v, src) = new
    BY <1>2 DEF SaveFieldAnswer, SaveAnswer, new
  <2> QED BY <2>1, <2>2, <2>3, <2>4, <2>5 DEF Local, Keeps
<1>3. CASE r.value # v /\ r # NoRow
  <2>1. r \in Stored
    BY <1>3
  <2> DEFINE put == IF MayReplace(r, src)
                    THEN [r EXCEPT !.value = v, !.source = src] ELSE r
  <2>2. /\ put \in Stored
        /\ r.source \in HighTrust => put.source \in HighTrust
        /\ r.source \in HighTrust /\ src \notin HighTrust => put = r
    BY <2>1, AnswersAssumption DEF Stored, Row, MayReplace, HighTrust, LowTrust
  <2>3. SaveFieldAnswer(r, v, src) = Counted(put, TRUE)
    BY <1>3 DEF SaveFieldAnswer, SaveAnswer
  <2> HIDE DEF put
  <2>4. /\ Counted(put, TRUE) \in Stored /\ Honest(Counted(put, TRUE))
        /\ Counted(put, TRUE).value = put.value /\ Counted(put, TRUE).source = put.source
    BY <2>2, CountedKeeps
  <2>5. Counted(put, TRUE) # NoRow
    BY <2>4, StoredIsRow
  <2> QED BY <2>2, <2>3, <2>4, <2>5 DEF Local, Keeps
<1> QED BY <1>1, <1>2, <1>3

\* A save that may replace the value does.
LEMMA SavedValue ==
  ASSUME NEW r \in Stored \cup {NoRow}, NEW v \in Values, r.source \notin HighTrust
  PROVE  SaveFieldAnswer(r, v, "human").value = v
<1>1. CASE r.value = v
  BY <1>1 DEF SaveFieldAnswer
<1>2. CASE r.value # v /\ r = NoRow
  BY <1>2 DEF SaveFieldAnswer, SaveAnswer, NewAnswer
<1>3. CASE r.value # v /\ r # NoRow
  <2> DEFINE put == [r EXCEPT !.value = v, !.source = "human"]
  <2>1. put \in Stored /\ put.value = v
    BY <1>3, AnswersAssumption DEF Stored, Row, HighTrust
  <2>2. SaveFieldAnswer(r, v, "human") = Counted(put, TRUE)
    BY <1>3 DEF SaveFieldAnswer, SaveAnswer, MayReplace
  <2> HIDE DEF put
  <2> QED BY <2>1, <2>2, CountedKeeps
<1> QED BY <1>1, <1>2, <1>3

\* Writes of the one kind compose.
LEMMA LocalTransitive ==
  ASSUME NEW a, NEW b, NEW c, Local(a, b), Local(b, c)
  PROVE  Local(a, c)
BY DEF Local

\* Writes of the other kind compose.
LEMMA KeepsTransitive ==
  ASSUME NEW a, NEW b, NEW c, Keeps(a, b), Keeps(b, c)
  PROVE  Keeps(a, c)
BY DEF Keeps, Local

\* Not writing is writing nothing.
LEMMA KeepsReflexive ==
  ASSUME NEW r \in Stored \cup {NoRow}
  PROVE  Keeps(r, r)
BY DEF Keeps, Local

-----------------------------------------------------------------------------
(* What a step does to a row.                                              *)

\* A question without an answer has none of a human's.
LEMMA HumanAnswerFound ==
  ASSUME TypeOK, NEW q \in Labels, NEW a \in Ats, BestAnswers(q, a) = {}
  PROVE  UnansweredByHumans(q, a)
<1> DEFINE P == Priorities(q, a)
<1>1. /\ Resume[q] = NoValue
      /\ \A i \in 1..5 : (\A m \in 1..(i - 1) : P[m] = {}) => P[i] = {}
  <2>1. Resume[q] = NoValue
    BY DEF BestAnswers
  <2>2. DOMAIN P = 1..5
    BY DEF Priorities
  <2>3. \A i \in DOMAIN P : (\A m \in 1..(i - 1) : P[m] = {}) => P[i] = {}
    BY <2>1 DEF BestAnswers
  <2> QED BY <2>1, <2>2, <2>3
<1> HIDE DEF P
<1>2. P[1] = {}
  BY <1>1
<1>3. P[2] = {}
  BY <1>1, <1>2
<1>4. P[3] = {}
  BY <1>1, <1>2, <1>3
<1>5. P[4] = {}
  BY <1>1, <1>2, <1>3, <1>4
<1>6. P[5] = {}
  BY <1>1, <1>2, <1>3, <1>4, <1>5
<1>7. TrustedHuman(q, a) = {} /\ TrustedHuman(q, Unknown) = {}
  BY <1>5, <1>6 DEF P, Priorities
<1> QED BY <1>7 DEF TrustedHuman, UnansweredByHumans

\* Nor has a question that request_field_input puts to the human.
LEMMA AskedIsUnanswered ==
  ASSUME TypeOK, NEW q \in Labels, Remembered(q) = {}
  PROVE  UnansweredByHumans(q, ats)
<1>1. BestAnswers(q, ats) = {}
  BY DEF Remembered
<1>2. ats \in Ats
  BY DEF TypeOK
<1> QED BY <1>1, <1>2, HumanAnswerFound

\* What is remembered is an answer.
LEMMA RememberedAreValues ==
  ASSUME TypeOK, NEW q \in Labels
  PROVE  Remembered(q) \subseteq Values
<1>1. /\ Resume[q] \in Values \cup {NoValue} /\ cache[q] \in Values \cup {NoValue}
      /\ ats \in Ats /\ Unknown \in Ats
  BY AnswersAssumption DEF TypeOK, Ats
<1>2. \A a \in Ats : answers[<<q, a>>] \in Stored \cup {NoRow}
  BY DEF TypeOK, Keys
<1>3. \A r \in Stored : r.value \in Values
  BY DEF Stored, Row
<1>4. \A a \in Ats : ByNormalizedLabel(q, a) \subseteq Stored /\ TrustedHuman(q, a) \subseteq Stored
  BY <1>2 DEF ByNormalizedLabel, TrustedHuman, Gated, NoRow, HighTrust
<1>5. Universal(q) \subseteq Stored
  BY <1>2 DEF Universal, Gated
<1>6. \A i \in DOMAIN Priorities(q, ats) : Priorities(q, ats)[i] \subseteq Stored
  BY <1>1, <1>4, <1>5 DEF Priorities
<1>7. BestAnswers(q, ats) \subseteq Values
  BY <1>1, <1>3, <1>6 DEF BestAnswers
<1> QED BY <1>1, <1>7 DEF Remembered

\* An answer to a prompt keeps every row: those it changes are no human's.
LEMMA PersistKeeps ==
  ASSUME TypeOK, NEW q \in Labels, NEW v \in Values, UnansweredByHumans(q, ats),
         NEW k \in Keys
  PROVE  /\ PersistHumanAnswer(q, v) \in [Keys -> Stored \cup {NoRow}]
         /\ Keeps(answers[k], PersistHumanAnswer(q, v)[k])
<1> DEFINE here == [answers EXCEPT ![<<q, ats>>] = SaveFieldAnswer(@, v, "human")]
           both == [here EXCEPT ![<<q, Unknown>>] = SaveFieldAnswer(@, v, "human")]
<1>0. /\ answers \in [Keys -> Stored \cup {NoRow}] /\ "human" \in HighTrust \cup LowTrust
      /\ <<q, ats>> \in Keys /\ <<q, Unknown>> \in Keys
  BY DEF TypeOK, HighTrust, Keys, Ats
<1>1. \A r \in Stored \cup {NoRow} :
         /\ Local(r, SaveFieldAnswer(r, v, "human"))
         /\ r.source \notin HighTrust => Keeps(r, SaveFieldAnswer(r, v, "human"))
  BY <1>0, SaveSteps DEF Keeps
<1>2. \A r \in Stored \cup {NoRow} : SaveFieldAnswer(r, v, "human") \in Stored \cup {NoRow}
  BY <1>1 DEF Local
<1>3. here \in [Keys -> Stored \cup {NoRow}]
  BY <1>0, <1>2
<1>4. both \in [Keys -> Stored \cup {NoRow}]
  BY <1>0, <1>2, <1>3
<1>5. \A m \in Keys : Keeps(answers[m], here[m])
  BY <1>0, <1>1, KeepsReflexive DEF UnansweredByHumans
<1>6. ats # Unknown => here[<<q, Unknown>>] = answers[<<q, Unknown>>]
  BY <1>0
<1>7. here[<<q, ats>>].value = v
  <2>1. here[<<q, ats>>] = SaveFieldAnswer(answers[<<q, ats>>], v, "human")
    BY <1>0
  <2>2. answers[<<q, ats>>] \in Stored \cup {NoRow} /\ answers[<<q, ats>>].source \notin HighTrust
    BY <1>0 DEF UnansweredByHumans
  <2> QED BY <2>1, <2>2, SavedValue
<1>8. \A m \in Keys : Keeps(answers[m], both[m])
  <2> SUFFICES ASSUME NEW m \in Keys PROVE Keeps(answers[m], both[m])
    OBVIOUS
  <2>1. CASE m # <<q, Unknown>>
    BY <2>1, <1>3, <1>5
  <2>2. CASE m = <<q, Unknown>> /\ ats = Unknown
    <3>1. both[m] = here[m]
      BY <2>2, <1>0, <1>3, <1>7 DEF SaveFieldAnswer
    <3> QED BY <3>1, <1>5
  <2>3. CASE m = <<q, Unknown>> /\ ats # Unknown
    <3>1. both[m] = SaveFieldAnswer(answers[m], v, "human")
      BY <2>3, <1>0, <1>3, <1>6
    <3> QED BY <3>1, <2>3, <1>0, <1>1 DEF UnansweredByHumans
  <2> QED BY <2>1, <2>2, <2>3
<1>9. PersistHumanAnswer(q, v) \in {answers, here, both}
  BY DEF PersistHumanAnswer
<1> HIDE DEF here, both
<1> QED BY <1>0, <1>3, <1>4, <1>5, <1>8, <1>9, KeepsReflexive

\* What a form saves row by row.
LEMMA LearnSteps ==
  ASSUME TypeOK, NEW p \in [Labels -> Content \cup {Blank}],
         NEW src \in HighTrust \cup LowTrust, NEW k \in Keys
  PROVE  /\ Local(answers[k], Learn(p, src)[k])
         /\ src \notin HighTrust => Keeps(answers[k], Learn(p, src)[k])
<1>1. answers[k] \in Stored \cup {NoRow} /\ k[1] \in Labels
  BY DEF TypeOK, Keys
<1>2. CASE k[2] = ats /\ p[k[1]] # Blank
  <2>1. p[k[1]].value \in Values
    BY <1>1, <1>2 DEF Content
  <2>2. Learn(p, src)[k] = SaveFieldAnswer(answers[k], p[k[1]].value, src)
    BY <1>2 DEF Learn
  <2> QED BY <1>1, <2>1, <2>2, SaveSteps
<1>3. CASE ~(k[2] = ats /\ p[k[1]] # Blank)
  BY <1>1, <1>3, KeepsReflexive DEF Learn, Keeps
<1> QED BY <1>2, <1>3

\* Every step does to a row what RowStep says.
LEMMA RowSteps ==
  ASSUME TypeOK, [Next]_vars
  PROVE  /\ answers' \in [Keys -> Stored \cup {NoRow}]
         /\ \A k \in Keys : RowStep(k)
<1> DEFINE Step == /\ answers' \in [Keys -> Stored \cup {NoRow}]
                   /\ \A m \in Keys : RowStep(m)
<1> SUFFICES Step
  OBVIOUS
<1>0. /\ answers \in [Keys -> Stored \cup {NoRow}] /\ ats \in Ats
      /\ page \in [Labels -> Content \cup {Blank}]
      /\ cache \in [Labels -> Values \cup {NoValue}]
      /\ \A q \in Labels : <<q, ats>> \in Keys
      /\ "human" \in HighTrust /\ "llm" \in LowTrust /\ "human_observed" \in LowTrust
      /\ "llm" \notin HighTrust /\ "human_observed" \notin HighTrust
  BY DEF TypeOK, Keys, HighTrust, LowTrust
<1>1. ASSUME UNCHANGED answers PROVE Step
  BY <1>0, <1>1, KeepsReflexive DEF RowStep
<1>2. ASSUME NEW rows \in [Keys -> Stored \cup {NoRow}], answers' = rows,
             \A m \in Keys : Keeps(answers[m], rows[m])
      PROVE  Step
  BY <1>2 DEF RowStep
<1>3. ASSUME NEW rows \in [Keys -> Stored \cup {NoRow}], answers' = rows, SavesAsHuman,
             \A m \in Keys : Local(answers[m], rows[m])
      PROVE  Step
  BY <1>3 DEF RowStep
<1>4. CASE CreateTables
  <2>1. \A r \in Stored \cup {NoRow} : RepairConfidence(r) \in Stored \cup {NoRow}
    <3> SUFFICES ASSUME NEW r \in Stored \cup {NoRow}, r.confidence[1] = 0, r.success > 0
                 PROVE  RepairConfidence(r) \in Stored
      BY DEF RepairConfidence
    <3>1. r \in Stored
      BY DEF NoRow
    <3>2. ComputeConfidence(r.success, r.failure) \in Ratio
      BY <3>1, ComputedRatio DEF Stored, Row
    <3> QED BY <3>1, <3>2 DEF RepairConfidence, Stored, Row
  <2> QED BY <1>0, <1>4, <2>1 DEF CreateTables, RowStep
<1>5. CASE Merge
  <2>1. PICK m \in Keys, r \in ServerAnswers :
          answers' = [answers EXCEPT ![m] = MergeServerUpdate(@, r)]
    BY <1>5 DEF Merge
  <2>2. r \in Stored
    BY RowsAssumption DEF Stored, LowTrust
  <2>3. MergeServerUpdate(answers[m], r) \in Stored \cup {NoRow}
    BY <1>0, <2>2 DEF MergeServerUpdate
  <2>4. answers' \in [Keys -> Stored \cup {NoRow}] /\ stage = "idle"
    BY <1>0, <1>5, <2>1, <2>3 DEF Merge
  <2>5. \A n \in Keys : RowStep(n)
    BY <1>0, <2>1, <2>4, KeepsReflexive DEF RowStep
  <2> QED BY <2>4, <2>5
<1>6. ASSUME NEW q \in Labels, NEW v \in Values, LLMFills(q, v) PROVE Step
  <2> DEFINE new == RecordOutcome(SaveFieldAnswer(answers[<<q, ats>>], v, "llm"), TRUE)
  <2>1. Keeps(answers[<<q, ats>>], SaveFieldAnswer(answers[<<q, ats>>], v, "llm"))
    BY <1>0, SaveSteps
  <2>2. SaveFieldAnswer(answers[<<q, ats>>], v, "llm") \in Stored \cup {NoRow}
    BY <2>1 DEF Keeps, Local
  <2>3. Keeps(answers[<<q, ats>>], new)
    BY <2>1, <2>2, OutcomeKeeps, KeepsTransitive
  <2>4. new \in Stored \cup {NoRow}
    BY <2>3 DEF Keeps, Local
  <2>5. answers' = [answers EXCEPT ![<<q, ats>>] = new]
    BY <1>6, <1>0 DEF LLMFills, Commit
  <2> HIDE DEF new
  <2> QED BY <1>0, <1>2, <2>3, <2>4, <2>5, KeepsReflexive
<1>7. ASSUME NEW q \in Labels, LLMFails(q) PROVE Step
  <2> DEFINE new == RecordOutcome(answers[<<q, ats>>], FALSE)
  <2>1. Keeps(answers[<<q, ats>>], new)
    BY <1>0, OutcomeKeeps
  <2>2. new \in Stored \cup {NoRow}
    BY <2>1 DEF Keeps, Local
  <2>3. answers' = [answers EXCEPT ![<<q, ats>>] = new]
    BY <1>7, <1>0 DEF LLMFails, Commit
  <2> HIDE DEF new
  <2> QED BY <1>0, <1>2, <2>1, <2>2, <2>3, KeepsReflexive
<1>8. ASSUME NEW q \in Labels, NEW v \in Values, Ask(q, v) PROVE Step
  <2>1. UnansweredByHumans(q, ats)
    BY <1>8, AskedIsUnanswered DEF Ask, Asked
  <2>2. answers' = PersistHumanAnswer(q, v)
    BY <1>8 DEF Ask, Commit
  <2> QED BY <1>0, <1>2, <2>1, <2>2, PersistKeeps
<1>9. ASSUME NEW q \in Labels, NEW v \in Values, NEW rows \in [Keys -> Stored \cup {NoRow}],
             \A m \in Keys : Local(answers[m], rows[m]), SavesAsHuman,
             answers' = [rows EXCEPT ![<<q, ats>>] = SaveFieldAnswer(@, v, "human")]
      PROVE  Step
  <2> DEFINE new == SaveFieldAnswer(rows[<<q, ats>>], v, "human")
  <2>1. Local(rows[<<q, ats>>], new)
    BY <1>0, SaveSteps
  <2>2. Local(answers[<<q, ats>>], new) /\ new \in Stored \cup {NoRow}
    BY <1>0, <1>9, <2>1, LocalTransitive DEF Local
  <2>3. answers' = [rows EXCEPT ![<<q, ats>>] = new]
    BY <1>9, <1>0
  <2> HIDE DEF new
  <2> QED BY <1>0, <1>3, <1>9, <2>2, <2>3
<1>10. ASSUME NEW q \in Labels, RetryReused(q) PROVE Step
  <2>1. PICK v \in Remembered(q) :
           \/ answers' = [answers EXCEPT ![<<q, ats>>] = SaveFieldAnswer(@, v, "human")]
           \/ UNCHANGED answers
    BY <1>10 DEF RetryReused, Commit
  <2>2. v \in Values
    BY RememberedAreValues
  <2>3. SavesAsHuman
    BY <1>10 DEF RetryReused, SavesAsHuman
  <2>4. \A m \in Keys : Local(answers[m], answers[m])
    BY <1>0, KeepsReflexive DEF Keeps
  <2> QED BY <1>0, <1>1, <1>9, <2>1, <2>2, <2>3, <2>4
<1>11. ASSUME NEW q \in Labels, NEW v \in Values, RetryAsked(q, v) PROVE Step
  <2> DEFINE told == PersistHumanAnswer(q, v)
  <2>1. UnansweredByHumans(q, ats)
    BY <1>11, AskedIsUnanswered DEF RetryAsked, Asked
  <2>2. told \in [Keys -> Stored \cup {NoRow}] /\ \A m \in Keys : Keeps(answers[m], told[m])
    <3>1. \A m \in Keys : told \in [Keys -> Stored \cup {NoRow}] /\ Keeps(answers[m], told[m])
      BY <2>1, PersistKeeps
    <3> QED BY <3>1, <1>0
  <2>3. \/ answers' = [told EXCEPT ![<<q, ats>>] = SaveFieldAnswer(@, v, "human")]
        \/ answers' = told
    BY <1>11 DEF RetryAsked, Commit
  <2>4. SavesAsHuman
    BY <1>11 DEF RetryAsked, SavesAsHuman
  <2>5. \A m \in Keys : Local(answers[m], told[m])
    BY <2>2 DEF Keeps
  <2> HIDE DEF told
  <2> QED BY <1>2, <1>9, <2>2, <2>3, <2>4, <2>5
<1>12. CASE ScanPage
  <2>1. answers' = Learn(page, "human") /\ SavesAsHuman
    BY <1>12 DEF ScanPage, Commit, SavesAsHuman
  <2>2. \A m \in Keys : Local(answers[m], Learn(page, "human")[m])
    BY <1>0, LearnSteps
  <2>3. Learn(page, "human") \in [Keys -> Stored \cup {NoRow}]
    BY <2>2 DEF Local, Learn
  <2> QED BY <1>3, <2>1, <2>2, <2>3
<1>13. CASE HandOver
  <2>1. answers' = Learn(page', "human_observed") /\ page' \in [Labels -> Content \cup {Blank}]
    BY <1>13 DEF HandOver, Commit
  <2>2. \A m \in Keys : Keeps(answers[m], Learn(page', "human_observed")[m])
    BY <1>0, <2>1, LearnSteps
  <2>3. Learn(page', "human_observed") \in [Keys -> Stored \cup {NoRow}]
    BY <2>2 DEF Keeps, Local, Learn
  <2> QED BY <1>2, <2>1, <2>2, <2>3
<1>14. CASE \E q \in Labels : Reuse(q) \/ HumanEdits(q)
  BY <1>1, <1>14 DEF Reuse, HumanEdits
<1>15. CASE StartJob \/ FinishJob \/ ProcessEnds \/ ActionsDone \/ NextPass \/ UNCHANGED vars
  BY <1>1, <1>15 DEF StartJob, FinishJob, ProcessEnds, ActionsDone, NextPass, vars
<1> HIDE DEF Step
<1>16. CASE Fill
  BY <1>6, <1>7, <1>8, <1>10, <1>11, <1>12, <1>13, <1>14, <1>15, <1>16, Zenon DEF Fill
<1> QED BY <1>4, <1>5, <1>15, <1>16, Zenon DEF Next

-----------------------------------------------------------------------------
(* Theorems.                                                               *)

\* The variables of the form keep their types.
LEMMA FormTyped ==
  ASSUME TypeOK, [Next]_vars
  PROVE  /\ stage' \in {"down", "idle"} \cup Filling /\ ats' \in Ats
         /\ page' \in [Labels -> Content \cup {Blank}]
         /\ cache' \in [Labels -> Values \cup {NoValue}]
         /\ saved' \subseteq Labels \X Values
<1> USE DEF TypeOK, Filling
<1>1. CASE CreateTables \/ Merge \/ ActionsDone \/ ScanPage \/ UNCHANGED vars
  BY <1>1 DEF CreateTables, Merge, ActionsDone, ScanPage, vars, form
<1>2. CASE FinishJob \/ ProcessEnds
  BY <1>2 DEF FinishJob, ProcessEnds, CloseForm, NoPage, NoCache, Ats
<1>3. CASE StartJob \/ NextPass \/ HandOver
  <2>1. PreFilled \subseteq [Labels -> Content \cup {Blank}]
    BY DEF PreFilled
  <2> QED BY <1>3, <2>1 DEF StartJob, NextPass, HandOver
<1>4. ASSUME NEW q \in Labels, NEW v \in Values, LLMFills(q, v) \/ Ask(q, v) \/ RetryAsked(q, v)
      PROVE  /\ stage' = stage /\ ats' = ats
             /\ page' \in [Labels -> Content \cup {Blank}]
             /\ cache' \in [Labels -> Values \cup {NoValue}]
             /\ saved' \subseteq Labels \X Values
  <2>1. [value |-> v, by |-> "machine"] \in Content /\ [value |-> v, by |-> "human"] \in Content
    BY DEF Content
  <2> QED BY <1>4, <2>1 DEF LLMFills, Ask, RetryAsked, Asked, Apply
<1>5. ASSUME NEW q \in Labels, LLMFails(q) \/ Reuse(q) \/ RetryReused(q) \/ HumanEdits(q)
      PROVE  /\ stage' = stage /\ ats' = ats
             /\ page' \in [Labels -> Content \cup {Blank}]
             /\ cache' \in [Labels -> Values \cup {NoValue}]
             /\ saved' \subseteq Labels \X Values
  <2>1. \A v \in Remembered(q) : v \in Values /\ [value |-> v, by |-> "machine"] \in Content
    BY RememberedAreValues DEF Content
  <2> QED BY <1>5, <2>1 DEF LLMFails, Reuse, RetryReused, HumanEdits, Apply, form
<1>6. CASE Fill
  BY <1>1, <1>3, <1>4, <1>5, <1>6 DEF Fill
<1> QED BY <1>1, <1>2, <1>3, <1>6 DEF Next

\* Types, of the table and of the form.
THEOREM TypeCorrect == Spec => []TypeOK
<1>1. Init => TypeOK
  BY RowsAssumption DEF Init, TypeOK, Stored, HighTrust, Ats, NoPage, NoCache
<1>2. TypeOK /\ [Next]_vars => TypeOK'
  <2> SUFFICES ASSUME TypeOK, [Next]_vars PROVE TypeOK'
    OBVIOUS
  <2>1. answers' \in [Keys -> Stored \cup {NoRow}]
    BY RowSteps
  <2> QED BY <2>1, FormTyped DEF TypeOK
<1> QED BY <1>1, <1>2, PTL DEF Spec

\* Merge protection (README:759-768), for every payload of the server.
THEOREM MergeProtected == Spec => MergeProtection
<1>1. TypeOK /\ [Next]_vars => [\A k \in Keys : Protected(answers[k], answers'[k])]_vars
  <2> SUFFICES ASSUME TypeOK, [Next]_vars, NEW k \in Keys
               PROVE  Protected(answers[k], answers'[k])
    OBVIOUS
  <2>1. answers[k] \in Stored \cup {NoRow} /\ NoRow.source \notin HighTrust
    BY DEF TypeOK, NoRow, HighTrust
  <2>2. RowStep(k)
    BY RowSteps
  <2>3. CASE Keeps(answers[k], answers'[k])
    BY <2>3 DEF Keeps, Local, Protected
  <2>4. CASE SavesAsHuman /\ Local(answers[k], answers'[k])
    BY <2>4 DEF Local, Protected
  <2>5. CASE \E r \in ServerAnswers : answers'[k] = MergeServerUpdate(answers[k], r)
    <3>1. \A r \in ServerAnswers : r \in Stored
      BY RowsAssumption DEF Stored
    <3> QED BY <2>1, <2>5, <3>1, StoredIsRow DEF MergeServerUpdate, Protected
  <2>6. CASE answers'[k] = RepairConfidence(answers[k])
    <3>1. CASE answers[k] = NoRow
      BY <2>1, <2>6, <3>1 DEF RepairConfidence, Protected, NoRow
    <3>2. CASE answers[k] \in Stored
      <4>1. /\ answers'[k].value = answers[k].value
            /\ answers'[k].source = answers[k].source
        BY <2>6, <3>2 DEF RepairConfidence, Stored, Row
      <4>2. answers'[k] # NoRow
        BY <4>1, <3>2 DEF Stored, NoRow
      <4> QED BY <4>1, <4>2 DEF Protected
    <3> QED BY <2>1, <3>1, <3>2
  <2> QED BY <2>2, <2>3, <2>4, <2>5, <2>6 DEF RowStep
<1> QED BY <1>1, TypeCorrect, PTL DEF Spec, MergeProtection

\* ConfidenceIsEarned is not inductive: the rows an older version left are
\* dishonest until the next start, because their confidence is zero.
Earned == \A k \in Keys : \/ Honest(answers[k])
                          \/ answers[k] \in ServerAnswers
                          \/ stage = "down" /\ answers[k].confidence[1] = 0

\* A stored confidence is the ratio of the counts beside it, or the server's.
THEOREM ConfidenceEarned == Spec => []ConfidenceIsEarned
<1>0. Honest(NoRow)
  BY DEF Honest, NoRow, ComputeConfidence, AtLeast
<1>1. Init => Earned
  BY <1>0, RowsAssumption DEF Init, Earned
<1>2. TypeOK /\ Earned /\ [Next]_vars => Earned'
  <2> SUFFICES ASSUME TypeOK, Earned, [Next]_vars, NEW k \in Keys
               PROVE  \/ Honest(answers'[k])
                      \/ answers'[k] \in ServerAnswers
                      \/ stage' = "down" /\ answers'[k].confidence[1] = 0
    BY DEF Earned, Honest
  <2>1. answers[k] \in Stored \cup {NoRow}
    BY DEF TypeOK
  <2>2. CASE answers'[k] = answers[k] /\ (stage = "down" => stage' = "down")
    BY <2>2 DEF Earned
  <2>3. CASE Honest(answers'[k])
    BY <2>3
  <2>4. CASE \E r \in ServerAnswers : answers'[k] = MergeServerUpdate(answers[k], r) /\ stage = "idle"
    BY <2>4 DEF MergeServerUpdate, Earned
  <2>5. CASE answers'[k] = RepairConfidence(answers[k])
    <3>1. CASE answers[k] = NoRow
      BY <2>5, <3>1, <1>0 DEF RepairConfidence, NoRow
    <3>2. CASE answers[k] \in Stored /\ answers[k].confidence[1] = 0
      <4>1. answers'[k] \in Row
        BY <2>5, <3>2, ComputedRatio DEF RepairConfidence, Stored, Row
      <4>2. CASE answers[k].success > 0
        <5>1. answers'[k].confidence = ComputeConfidence(answers'[k].success, answers'[k].failure)
          BY <2>5, <3>2, <4>2 DEF RepairConfidence, Stored, Row
        <5> QED BY <4>1, <5>1, ComputedHonest
      <4>3. CASE ~(answers[k].success > 0)
        <5>1. answers'[k] = answers[k] /\ answers[k].success = 0
          BY <2>5, <3>2, <4>3 DEF RepairConfidence, Stored, Row
        <5>2. answers[k].confidence[2] \in Nat /\ answers[k].failure \in Nat
          BY <3>2 DEF Stored, Row, Ratio
        <5> QED BY <3>2, <5>1, <5>2 DEF Honest, AtLeast, ComputeConfidence
      <4> QED BY <4>2, <4>3
    <3>3. CASE answers[k] \in Stored /\ answers[k].confidence[1] # 0
      <4>1. answers'[k] = answers[k]
        BY <2>5, <3>3 DEF RepairConfidence
      <4> QED BY <3>3, <4>1 DEF Earned
    <3> QED BY <2>1, <3>1, <3>2, <3>3
  <2>6. stage = "down" => stage' = "down" \/ CreateTables
    BY DEF Next, Fill, vars, StartJob, FinishJob, ProcessEnds, Merge, LLMFills, Ask, RetryAsked,
           LLMFails, Reuse, RetryReused, HumanEdits, ActionsDone, ScanPage, NextPass, HandOver,
           Filling
  <2>7. CreateTables => answers'[k] = RepairConfidence(answers[k])
    BY DEF CreateTables
  <2>8. RowStep(k)
    BY RowSteps
  <2> QED BY <2>2, <2>3, <2>4, <2>5, <2>6, <2>7, <2>8 DEF RowStep, Keeps, Local
<1>3. Earned => ConfidenceIsEarned
  BY DEF Earned, ConfidenceIsEarned
<1> QED BY <1>1, <1>2, <1>3, TypeCorrect, PTL DEF Spec

-----------------------------------------------------------------------------
(* A question asked has no answer that passed the gate                     *)

\* Quotients are ordered by cross multiplication.
LEMMA Cross ==
  ASSUME NEW a \in Nat, NEW b \in Nat \ {0}, NEW c \in Nat, NEW d \in Nat \ {0},
         NEW e \in Nat, NEW f \in Nat \ {0}, a * d >= c * b, c * f >= e * d
  PROVE  /\ a * f >= e * b
         /\ a * d > c * b \/ c * f > e * d => a * f > e * b
<1>1. /\ (a * d) * f \in Nat /\ (c * b) * f \in Nat /\ (c * f) * b \in Nat /\ (e * d) * b \in Nat
      /\ a * f \in Nat /\ e * b \in Nat /\ d \in Nat /\ d > 0 /\ f > 0 /\ b > 0
      /\ a * d \in Nat /\ c * b \in Nat /\ c * f \in Nat /\ e * d \in Nat
  OBVIOUS
<1>2. (a * d) * f >= (c * b) * f /\ (a * d > c * b => (a * d) * f > (c * b) * f)
  BY <1>1
<1>3. (c * f) * b >= (e * d) * b /\ (c * f > e * d => (c * f) * b > (e * d) * b)
  BY <1>1
<1>4. (a * d) * f = d * (a * f) /\ (c * b) * f = (c * f) * b /\ (e * d) * b = d * (e * b)
  OBVIOUS
<1>5. d * (a * f) >= d * (e * b) /\ (a * d > c * b \/ c * f > e * d => d * (a * f) > d * (e * b))
  BY <1>1, <1>2, <1>3, <1>4
<1>6. \A x, y \in Nat : d * x >= d * y => x >= y
  BY <1>1
<1>7. \A x, y \in Nat : d * x > d * y => x > y
  BY <1>1
<1>8. QED
  BY <1>1, <1>5, <1>6, <1>7

\* The order of Universal.
Beats(r, t) == \/ Exceeds(r.confidence, t.confidence)
               \/ AtLeast(r.confidence, t.confidence) /\ r.success > t.success

LEMMA BeatsIsOrder ==
  ASSUME NEW r \in Row, NEW t \in Row, NEW u \in Row
  PROVE  ~Beats(r, r) /\ (Beats(r, t) /\ Beats(t, u) => Beats(r, u))
<1>1. /\ \A x \in {r, t, u} : x.confidence[1] \in Nat /\ x.confidence[2] \in Nat \ {0} /\ x.success \in Nat
  BY DEF Row, Ratio
<1> DEFINE a == r.confidence[1] b == r.confidence[2]
           c == t.confidence[1] d == t.confidence[2]
           e == u.confidence[1] f == u.confidence[2]
           i == r.success       j == t.success       k == u.success
<1>2. /\ a \in Nat /\ b \in Nat \ {0} /\ c \in Nat /\ d \in Nat \ {0} /\ e \in Nat /\ f \in Nat \ {0}
      /\ i \in Nat /\ j \in Nat /\ k \in Nat
  BY <1>1
<1>3. /\ Beats(r, r) <=> a * b > a * b \/ (a * b >= a * b /\ i > i)
      /\ Beats(r, t) <=> a * d > c * b \/ (a * d >= c * b /\ i > j)
      /\ Beats(t, u) <=> c * f > e * d \/ (c * f >= e * d /\ j > k)
      /\ Beats(r, u) <=> a * f > e * b \/ (a * f >= e * b /\ i > k)
  BY DEF Beats, Exceeds, AtLeast
<1> HIDE DEF a, b, c, d, e, f, i, j, k
<1>4. ~Beats(r, r)
  <2>1. a * b \in Nat
    BY <1>2
  <2>2. QED
    BY <1>2, <1>3, <2>1
<1>5. ASSUME Beats(r, t), Beats(t, u) PROVE Beats(r, u)
  <2>1. a * d \in Nat /\ c * b \in Nat /\ c * f \in Nat /\ e * d \in Nat /\ a * f \in Nat /\ e * b \in Nat
    BY <1>2
  <2>2. a * d >= c * b /\ c * f >= e * d
    BY <1>3, <1>5, <2>1
  <2>3. a * f >= e * b /\ (a * d > c * b \/ c * f > e * d => a * f > e * b)
    BY <1>2, <2>2, Cross
  <2>4. QED
    BY <1>2, <1>3, <1>5, <2>1, <2>3
<1>6. QED
  BY <1>4, <1>5

\* The last of some numbers.
LEMMA GreatestOf ==
  ASSUME NEW n \in Nat, NEW N \in SUBSET (0..n), N # {}
  PROVE  \E x \in N : \A y \in N : y <= x
<1> DEFINE T == {m \in Nat : \E x \in N : m = n - x}
<1>1. T \subseteq Nat /\ T # {}
  <2>1. PICK x : x \in N
    OBVIOUS
  <2>2. n - x \in T
    BY <2>1
  <2>3. QED
    BY <2>2
<1>2. PICK m \in T : \A k \in T : ~(<<k, m>> \in OpToRel(<, Nat))
  BY <1>1, NatLessThanWellFounded, WFMin
<1>3. \A k \in T : k < m => <<k, m>> \in OpToRel(<, Nat)
  <2>1. ASSUME NEW k \in T, k < m PROVE <<k, m>> \in OpToRel(<, Nat)
    <3>1. k \in Nat /\ m \in Nat
      BY <1>1
    <3>2. QED
      BY <2>1, <3>1 DEF OpToRel
  <2>2. QED
    BY <2>1
<1>4. \A k \in T : ~(k < m)
  BY <1>2, <1>3, Zenon
<1>5. PICK x \in N : m = n - x
  BY <1>2
<1>6. \A y \in N : n - y \in T
  OBVIOUS
<1>7. \A y \in N : y <= x
  <2>1. ASSUME NEW y \in N PROVE y <= x
    <3>1. ~(n - y < n - x) /\ x \in Nat /\ y \in Nat
      BY <1>4, <1>5, <1>6
    <3>2. QED
      BY <3>1
  <2>2. QED
    BY <2>1
<1>8. QED
  BY <1>7

\* If an answer passed the gate, some answer is the best of them.
LEMMA BestIsThere ==
  ASSUME TypeOK, NEW q \in Labels, NEW a \in Ats, Gated(answers[<<q, a>>])
  PROVE  Universal(q) # {}
<1> DEFINE R(x) == answers[<<q, x>>]
           G == {x \in Ats : Gated(R(x))}
           Down(x) == {y \in G : Beats(R(x), R(y))}
           Cards == {Cardinality(Down(x)) : x \in G}
<1>1. IsFiniteSet(Ats)
  BY AnswersAssumption, FS_AddElement DEF Ats
<1>2. IsFiniteSet(G) /\ Cardinality(G) \in Nat
  <2>1. G \subseteq Ats
    OBVIOUS
  <2>2. QED
    BY <1>1, <2>1, FS_Subset, FS_CardinalityType
<1>3. \A x \in G : R(x) \in Row /\ R(x) # NoRow
  BY DEF TypeOK, Stored, Gated, Keys
<1>4. ASSUME NEW x \in G
      PROVE  Down(x) \subseteq G /\ IsFiniteSet(Down(x)) /\ Cardinality(Down(x)) \in 0..Cardinality(G)
  <2> HIDE DEF G
  <2>1. Down(x) \subseteq G
    OBVIOUS
  <2>2. IsFiniteSet(Down(x)) /\ Cardinality(Down(x)) <= Cardinality(G) /\ Cardinality(Down(x)) \in Nat
    BY <1>2, <2>1, FS_Subset, FS_CardinalityType
  <2>3. QED
    BY <1>2, <2>1, <2>2
<1>5. a \in G
  OBVIOUS
<1> HIDE DEF G, R
<1>6. Cards \in SUBSET (0..Cardinality(G)) /\ Cards # {}
  BY <1>4, <1>5
<1>7. PICK n \in Cards : \A m \in Cards : m <= n
  BY <1>2, <1>6, GreatestOf
<1>8. PICK x \in G : Cardinality(Down(x)) = n
  BY <1>7
<1>9. ASSUME NEW y \in G, Beats(R(y), R(x)) PROVE FALSE
  <2>1. Down(x) \subseteq Down(y)
    <3>1. ASSUME NEW z \in Down(x) PROVE z \in Down(y)
      <4>1. R(x) \in Row /\ R(y) \in Row /\ R(z) \in Row /\ Beats(R(x), R(z))
        BY <1>3, <1>8, <1>9, <3>1
      <4>2. Beats(R(y), R(z))
        BY <1>9, <4>1, BeatsIsOrder
      <4>3. QED
        BY <3>1, <4>2
    <3>2. QED
      BY <3>1
  <2>2. x \in Down(y) /\ x \notin Down(x)
    <3>1. R(x) \in Row
      BY <1>3, <1>8
    <3>2. ~Beats(R(x), R(x))
      BY <3>1, BeatsIsOrder
    <3>3. QED
      BY <1>8, <1>9, <3>2
  <2>3. IsFiniteSet(Down(y)) /\ IsFiniteSet(Down(x)) /\ Cardinality(Down(y)) \in Nat /\ Cardinality(Down(x)) \in Nat
    <3>1. IsFiniteSet(Down(y)) /\ IsFiniteSet(Down(x))
      BY <1>4, <1>8, <1>9
    <3> HIDE DEF Down
    <3>2. QED
      BY <3>1, FS_CardinalityType
  <2>4. Cardinality(Down(y)) <= Cardinality(Down(x))
    <3>1. Cardinality(Down(y)) \in Cards
      BY <1>9
    <3>2. QED
      BY <1>7, <1>8, <3>1
  <2> HIDE DEF Down
  <2>5. Cardinality(Down(x)) <= Cardinality(Down(y)) /\ (Cardinality(Down(x)) = Cardinality(Down(y)) => Down(x) = Down(y))
    BY <2>1, <2>3, FS_Subset
  <2>6. QED
    BY <2>2, <2>3, <2>4, <2>5
<1>10. R(x) \in Universal(q)
  <2>1. \A t : t \in {r \in {answers[<<q, y>>] : y \in Ats} : Gated(r)} <=> \E y \in G : t = R(y)
    BY DEF G, R
  <2>2. \A t : t \in {r \in {answers[<<q, y>>] : y \in Ats} : Gated(r)} => ~Beats(t, R(x))
    BY <1>9, <2>1
  <2>3. QED
    BY <1>8, <2>1, <2>2 DEF Universal, Beats
<1>11. QED
  BY <1>10

LEMMA AskedIsNotGated ==
  ASSUME TypeOK, NEW q \in Labels, Remembered(q) = {}, NEW a \in Ats
  PROVE  ~Gated(answers[<<q, a>>])
<1> DEFINE P == Priorities(q, ats)
<1>1. BestAnswers(q, ats) = {}
  BY DEF Remembered
<1>2. /\ Resume[q] = NoValue
      /\ \A i \in 1..5 : (\A m \in 1..(i - 1) : P[m] = {}) => P[i] = {}
  <2>1. Resume[q] = NoValue
    BY <1>1 DEF BestAnswers
  <2>2. DOMAIN P = 1..5
    BY DEF Priorities
  <2>3. \A i \in DOMAIN P : (\A m \in 1..(i - 1) : P[m] = {}) => P[i] = {}
    BY <1>1, <2>1 DEF BestAnswers
  <2> QED BY <2>1, <2>2, <2>3
<1> HIDE DEF P
<1>3. P[1] = {}
  BY <1>2
<1>4. P[2] = {}
  BY <1>2, <1>3
<1>5. Universal(q) = {}
  BY <1>4 DEF P, Priorities
<1> QED BY <1>5, BestIsThere

\* A question a human has answered, here or for every ATS, or for which any ATS
\* has an answer that passed the gate, is not asked: of the answers that passed it
\* one is always the best, however confidences and successes compare.
THEOREM KnownIsNotAsked == Spec => AskedOnlyIfUnknown
<1>1. TypeOK /\ [Next]_vars =>
        [\A q \in Labels, v \in Values : <<q, v>> \in saved' \ saved =>
           /\ UnansweredByHumans(q, ats)
           /\ \A a \in Ats : ~Gated(answers[<<q, a>>])]_vars
  <2> SUFFICES ASSUME TypeOK, Next, NEW q \in Labels, NEW v \in Values,
                      <<q, v>> \in saved' \ saved
               PROVE  UnansweredByHumans(q, ats) /\ \A a \in Ats : ~Gated(answers[<<q, a>>])
    BY DEF vars, form
  <2>1. PICK p \in Labels, w \in Values : Asked(p, w)
    BY DEF Next, Fill, StartJob, FinishJob, ProcessEnds, CloseForm, CreateTables, Merge, form,
           LLMFills, Ask, RetryAsked, LLMFails, Reuse, RetryReused, HumanEdits, ActionsDone,
           ScanPage, NextPass, HandOver
  <2>2. p = q /\ Remembered(p) = {}
    BY <2>1 DEF Asked
  <2> QED BY <2>2, AskedIsUnanswered, AskedIsNotGated
<1> QED BY <1>1, TypeCorrect, PTL DEF Spec, AskedOnlyIfUnknown

\* Within one application a question has one answer.
THEOREM OneAnswer == Spec => OneAnswerPerSession
<1>1. TypeOK /\ [Next]_vars =>
        [stage' \in Filling =>
           \A q \in Labels : cache[q] # NoValue => cache'[q] = cache[q]]_vars
  <2> SUFFICES ASSUME TypeOK, Next, stage' \in Filling, NEW q \in Labels, cache[q] # NoValue
               PROVE  cache'[q] = cache[q]
    BY DEF vars, form
  <2>1. ASSUME NEW p \in Labels, NEW v \in Remembered(p), cache' = [cache EXCEPT ![p] = v]
        PROVE  cache'[q] = cache[q]
    BY <2>1 DEF Remembered, TypeOK
  <2>2. ASSUME NEW p \in Labels, NEW v \in Values, Asked(p, v)
        PROVE  cache'[q] = cache[q]
    BY <2>2 DEF Asked, Remembered, TypeOK
  <2>3. CASE UNCHANGED cache
    BY <2>3
  <2>4. \/ UNCHANGED cache
        \/ \E p \in Labels : \E v \in Remembered(p) : cache' = [cache EXCEPT ![p] = v]
        \/ \E p \in Labels, v \in Values : Asked(p, v)
    BY DEF Next, Fill, StartJob, FinishJob, ProcessEnds, CreateTables, Merge, form, Filling,
           LLMFills, Ask, RetryAsked, LLMFails, Reuse, RetryReused, HumanEdits, ActionsDone,
           ScanPage, NextPass, HandOver
  <2> QED BY <2>1, <2>2, <2>3, <2>4
<1> QED BY <1>1, TypeCorrect, PTL DEF Spec, OneAnswerPerSession
=============================================================================
