---------------------------- MODULE Retries_proofs ----------------------------
(***************************************************************************)
(* Proofs about what is tried again.                                       *)
(* Phases, the phases of the asynchronous engine, for any number of jobs,  *)
(* permits, retries and pages and any delay: a job is given up only after  *)
(* the human saw it, the summary counts only recorded successes, and no    *)
(* more than Permits requests start within the delay.                      *)
(* SelfHealing, the selectors of one field after another, for any number   *)
(* of sessions, fields, elements, attempts and batches: patterns count     *)
(* successes only, submit follows the success of every field, and failures *)
(* within the hour are bounded.  The two have no definition in common.     *)
(***************************************************************************)
EXTENDS Phases, SelfHealing, FiniteSetTheorems, SequenceTheorems, WellFoundedInduction, TLAPS

LEMMA Bounds == {Permits, MinDelay, MaxRetries, MaxPages} \subseteq Nat /\ MinDelay > 0
                /\ Permits > 0 /\ MaxRetries > 0 /\ MaxPages > 0
BY PhasesAssumption

LEMMA MaxOfTwo ==
  ASSUME NEW a \in Int, NEW b \in Int
  PROVE  Max({a, b}) = IF a >= b THEN a ELSE b
BY DEF Max

LEMMA MinOfTwo ==
  ASSUME NEW a \in Int, NEW b \in Int
  PROVE  Min({a, b}) = IF a <= b THEN a ELSE b
BY DEF Min

-----------------------------------------------------------------------------
(* Types                                                                   *)

Tries == 0..Max({MaxRetries, MaxPages + 1})

LEMMA TriesAre ==
  /\ 0 \in Tries /\ 1 \in Tries
  /\ \A t \in Tries : t \in Nat /\ (t < MaxRetries \/ t <= MaxPages => t + 1 \in Tries)
BY Bounds, MaxOfTwo DEF Tries

AtOK == at \in [Jobs -> {"waiting", "sleeping", "opening", "report", "count", "close", "done"}
                        \cup PhaseNames]
WorkOK == /\ mode \in {"batch", "graph"} /\ try \in [Jobs -> Tries]
          /\ good \in [Jobs -> BOOLEAN]
ClockOK == /\ sleep \in [Jobs -> 0..MinDelay] /\ age \in [Jobs -> 0..MinDelay]
           /\ since \in 0..MinDelay
RecordOK == /\ row \in [Jobs -> [ats : BOOLEAN, status : {"pending", "submitted", "failed"}]]
            /\ result \in [Jobs -> {"none", "submitted", "failed"}]
            /\ stats \in [processed : Nat, successful : Nat, failed : Nat]
MarksOK == /\ won \in [Jobs -> PhaseNames \cup {"none"}]
           /\ asked \subseteq Jobs /\ raised \subseteq Jobs /\ known \in BOOLEAN

LEMMA TypeParts == TypeOK <=> AtOK /\ WorkOK /\ ClockOK /\ RecordOK /\ MarksOK
BY DEF TypeOK, AtOK, WorkOK, ClockOK, RecordOK, MarksOK, Tries

LEMMA AfterIsPhase ==
  ASSUME NEW phase \in {"memory", "llm", "rules"}
  PROVE  After(phase) \in PhaseNames
BY DEF After, PhaseNames

LEMMA TypeInit == Init => TypeOK
<1>1. Init => ClockOK
  BY Bounds DEF Init, ClockOK
<1>2. Init => AtOK /\ WorkOK /\ RecordOK /\ MarksOK
  BY TriesAre DEF Init, AtOK, WorkOK, RecordOK, MarksOK
<1>3. QED
  BY <1>1, <1>2, TypeParts

LEMMA AtStep ==
  ASSUME AtOK, [Next]_vars
  PROVE  AtOK'
<1>1. ASSUME NEW j \in Jobs, Step(j) PROVE AtOK'
  <2>1. CASE Admit(j) \/ Wake(j) \/ StartGraph(j) \/ Open(j) \/ Raises(j)
    BY <2>1 DEF AtOK, Admit, Wake, StartGraph, Open, Raises, Starts, Goes, Enters, PhaseNames
  <2>2. CASE BatchRules(j) \/ BatchLlm(j) \/ GraphRules(j) \/ Memory(j) \/ LlmFails(j)
             \/ LlmPage(j) \/ LlmEnds(j)
    BY <2>2, AfterIsPhase DEF AtOK, BatchRules, BatchLlm, Attempt, GraphRules, Memory, LlmFails,
       LlmPage, LlmEnds, Goes, Enters, Wins
  <2>3. CASE Human(j) \/ Finalize(j) \/ Report(j) \/ Count(j) \/ Close(j)
    BY <2>3 DEF AtOK, Human, Finalize, Report, Count, Close, Goes, Wins
  <2>4. QED
    BY <1>1, <2>1, <2>2, <2>3, Zenon DEF Step
<1>2. CASE Tick \/ UNCHANGED vars
  BY <1>2 DEF AtOK, Tick, vars
<1>3. QED
  BY <1>1, <1>2, Zenon DEF Next

LEMMA WorkStep ==
  ASSUME AtOK, WorkOK, [Next]_vars
  PROVE  WorkOK'
<1>1. ASSUME NEW j \in Jobs, Step(j) PROVE WorkOK'
  <2>1. CASE Admit(j) \/ Wake(j) \/ StartGraph(j) \/ Open(j) \/ Raises(j)
    BY <2>1, TriesAre DEF WorkOK, Admit, Wake, StartGraph, Open, Raises, Enters
  <2>2. CASE BatchRules(j) \/ BatchLlm(j)
    <3>1. try[j] \in Tries
      BY DEF WorkOK
    <3>2. PICK phase \in {"rules", "llm"} : Attempt(j, phase)
      BY <2>2 DEF BatchRules, BatchLlm
    <3>3. QED
      BY <3>1, <3>2, TriesAre DEF WorkOK, Attempt, Enters, Wins
  <2>3. CASE LlmPage(j)
    BY <2>3, TriesAre DEF WorkOK, LlmPage
  <2>4. CASE GraphRules(j) \/ Memory(j) \/ LlmFails(j) \/ LlmEnds(j) \/ Human(j)
    BY <2>4, TriesAre DEF WorkOK, GraphRules, Memory, LlmFails, LlmEnds, Human, Enters, Wins
  <2>5. CASE Finalize(j) \/ Report(j) \/ Count(j) \/ Close(j)
    BY <2>5 DEF WorkOK, Finalize, Report, Count, Close
  <2>6. QED
    BY <1>1, <2>1, <2>2, <2>3, <2>4, <2>5, Zenon DEF Step
<1>2. CASE Tick \/ UNCHANGED vars
  BY <1>2 DEF WorkOK, Tick, vars
<1>3. QED
  BY <1>1, <1>2, Zenon DEF Next

LEMMA ClockStep ==
  ASSUME ClockOK, [Next]_vars
  PROVE  ClockOK'
<1>0. MinDelay \in Nat /\ since \in Int /\ \A j \in Jobs : age[j] \in Int /\ sleep[j] \in Int
  BY Bounds DEF ClockOK
<1>1. ASSUME NEW j \in Jobs, Step(j) PROVE ClockOK'
  <2>1. CASE Admit(j)
    BY <1>0, <2>1 DEF ClockOK, Admit, Starts
  <2>2. CASE Wake(j)
    BY <1>0, <2>2 DEF ClockOK, Wake, Starts
  <2>3. CASE UNCHANGED clock
    BY <2>3 DEF ClockOK, clock
  <2>4. QED
    BY <1>1, <2>1, <2>2, <2>3, Zenon DEF Step, StartGraph, Open, Raises, BatchRules, BatchLlm,
       Attempt, GraphRules, Human, Memory, LlmFails, LlmPage, LlmEnds, Finalize, Report, Count, Close
<1>2. CASE Tick
  <2>1. since' \in 0..MinDelay
    BY <1>0, <1>2, MinOfTwo DEF ClockOK, Tick
  <2>2. \A j \in Jobs : Min({age[j] + 1, MinDelay}) \in 0..MinDelay
    BY <1>0, MinOfTwo DEF ClockOK
  <2>3. \A j \in Jobs : Max({sleep[j] - 1, 0}) \in 0..MinDelay
    BY <1>0, MaxOfTwo DEF ClockOK
  <2>4. QED
    BY <1>2, <2>1, <2>2, <2>3 DEF ClockOK, Tick
<1>3. CASE UNCHANGED vars
  BY <1>3 DEF ClockOK, vars, clock
<1>4. QED
  BY <1>1, <1>2, <1>3, Zenon DEF Next

\* The actions that touch no row, no result and no count.
LEMMA RecordKept ==
  ASSUME NEW j \in Jobs, Step(j)
  PROVE  UNCHANGED record \/ Open(j) \/ Raises(j) \/ Finalize(j) \/ Report(j) \/ Count(j) \/ Close(j)
BY Zenon DEF Step, Admit, Wake, StartGraph, BatchRules, BatchLlm, Attempt, GraphRules, Human,
   Memory, LlmFails, LlmPage, LlmEnds

LEMMA CountedIs ==
  ASSUME NEW success \in BOOLEAN, RecordOK
  PROVE  /\ Counted(success) \in [processed : Nat, successful : Nat, failed : Nat]
         /\ Counted(success).successful = stats.successful + IF success THEN 1 ELSE 0
BY DEF RecordOK, Counted

LEMMA RecordStep ==
  ASSUME RecordOK, [Next]_vars
  PROVE  RecordOK'
<1>1. ASSUME NEW j \in Jobs, Step(j) PROVE RecordOK'
  <2>0. UNCHANGED record \/ Open(j) \/ Raises(j) \/ Finalize(j) \/ Report(j) \/ Count(j) \/ Close(j)
    BY <1>1, RecordKept
  <2>1. CASE UNCHANGED record
    BY <2>1 DEF RecordOK, record
  <2>2. CASE Open(j) \/ Report(j)
    <3>1. Outcome(j) \in {"submitted", "failed"} /\ result' = result /\ stats' = stats
      BY <2>2 DEF Open, Report, Outcome
    <3>2. row' = [row EXCEPT ![j].ats = TRUE] \/ row' = [row EXCEPT ![j].status = Outcome(j)]
      BY <2>2 DEF Open, Report
    <3>3. row' \in [Jobs -> [ats : BOOLEAN, status : {"pending", "submitted", "failed"}]]
      <4> DEFINE Row == [ats : BOOLEAN, status : {"pending", "submitted", "failed"}]
      <4>1. row[j] \in Row /\ row \in [Jobs -> Row]
        BY DEF RecordOK
      <4>2. [row[j] EXCEPT !.ats = TRUE] \in Row /\ [row[j] EXCEPT !.status = Outcome(j)] \in Row
        BY <3>1, <4>1
      <4>3. row' = [row EXCEPT ![j] = [row[j] EXCEPT !.ats = TRUE]]
            \/ row' = [row EXCEPT ![j] = [row[j] EXCEPT !.status = Outcome(j)]]
        BY <3>2
      <4> HIDE DEF Row
      <4>4. row' \in [Jobs -> Row]
        BY <4>1, <4>2, <4>3
      <4>5. QED
        BY <4>4 DEF Row
    <3>4. QED
      BY <3>1, <3>3 DEF RecordOK
  <2>3. CASE Raises(j) \/ Count(j)
    <3>1. stats' \in [processed : Nat, successful : Nat, failed : Nat]
      BY <2>3, CountedIs DEF Raises, Count
    <3>2. row' = row /\ result' \in [Jobs -> {"none", "submitted", "failed"}]
      BY <2>3 DEF RecordOK, Raises, Count
    <3>3. QED
      BY <3>1, <3>2 DEF RecordOK
  <2>4. CASE Finalize(j) \/ Close(j)
    <3>1. result' = [result EXCEPT ![j] = Outcome(j)] /\ Outcome(j) \in {"submitted", "failed"}
      BY <2>4 DEF Finalize, Close, Outcome
    <3>2. UNCHANGED <<row, stats>>
      BY <2>4 DEF Finalize, Close
    <3>3. QED
      BY <3>1, <3>2 DEF RecordOK
  <2>5. QED
    BY <2>0, <2>1, <2>2, <2>3, <2>4
<1>2. CASE Tick \/ UNCHANGED vars
  BY <1>2 DEF RecordOK, Tick, vars, record
<1>3. QED
  BY <1>1, <1>2, Zenon DEF Next

LEMMA MarksStep ==
  ASSUME MarksOK, [Next]_vars
  PROVE  MarksOK'
<1>1. ASSUME NEW j \in Jobs, Step(j) PROVE MarksOK'
  <2>1. CASE UNCHANGED <<marks, known>>
    BY <2>1 DEF MarksOK, marks
  <2>2. CASE BatchRules(j) \/ BatchLlm(j) \/ GraphRules(j) \/ Memory(j) \/ LlmEnds(j) \/ Human(j)
    BY <2>2 DEF MarksOK, BatchRules, BatchLlm, Attempt, GraphRules, Memory, LlmEnds, Human,
       Wins,
       PhaseNames
  <2>3. CASE LlmPage(j) \/ Raises(j)
    BY <2>3 DEF MarksOK, LlmPage, Raises, marks
  <2>4. QED
    BY <1>1, <2>1, <2>2, <2>3, Zenon DEF Step, Admit, Wake, StartGraph, Open, LlmFails,
       Finalize,
       Report, Count, Close
<1>2. CASE Tick \/ UNCHANGED vars
  BY <1>2 DEF MarksOK, Tick, vars, marks
<1>3. QED
  BY <1>1, <1>2, Zenon DEF Next

LEMMA TypeStep == TypeOK /\ [Next]_vars => TypeOK'
<1>1. TypeOK' <=> AtOK' /\ WorkOK' /\ ClockOK' /\ RecordOK' /\ MarksOK'
  BY DEF TypeOK, AtOK, WorkOK, ClockOK, RecordOK, MarksOK, Tries
<1>2. QED
  BY <1>1, TypeParts, AtStep, WorkStep, ClockStep, RecordStep, MarksStep

\* The types hold in every run of either engine.
THEOREM PhasesTypes == Spec => []TypeOK
BY TypeInit, TypeStep, PTL DEF Spec

-----------------------------------------------------------------------------
(* Given up last                                                           *)

\* A job on its way out with no phase that won was brought before the human.
OnTheWayOut == {"report", "count", "close"}
Unwon == \A j \in Jobs : at[j] \in OnTheWayOut /\ won[j] = "none" => j \in asked
LastInv == Unwon /\ GivesUpLast

LEMMA LastStep ==
  ASSUME TypeOK, LastInv, [Next]_vars
  PROVE  LastInv'
<1>0. AtOK /\ MarksOK /\ RecordOK
  BY TypeParts
<1>1. ASSUME NEW j \in Jobs, Step(j) PROVE LastInv'
  <2>1. CASE Admit(j) \/ Wake(j) \/ StartGraph(j) \/ Open(j)
    BY <1>0, <2>1 DEF LastInv, Unwon, GivesUpLast, OnTheWayOut, AtOK, Admit, Wake, StartGraph,
       Open,
       Starts, Goes, Enters, marks, record
  <2>2. CASE Raises(j)
    BY <1>0, <2>2 DEF LastInv, Unwon, GivesUpLast, OnTheWayOut, AtOK, RecordOK, Raises, Goes
  <2>3. CASE BatchRules(j) \/ BatchLlm(j) \/ GraphRules(j) \/ Memory(j) \/ LlmFails(j)
             \/ LlmPage(j) \/ LlmEnds(j)
    <3>1. UNCHANGED <<asked, raised, result>>
      BY <2>3 DEF BatchRules, BatchLlm, Attempt, GraphRules, Memory, LlmFails, LlmPage, LlmEnds,
         marks, record
    <3>2. \A k \in Jobs \ {j} : at'[k] = at[k] /\ won'[k] = won[k]
      BY <1>0, <2>3 DEF AtOK, MarksOK, BatchRules, BatchLlm, Attempt, GraphRules, Memory,
         LlmFails,
         LlmPage, LlmEnds, marks, record, Goes, Enters, Wins
    <3>3. at'[j] \notin OnTheWayOut \/ won'[j] # "none"
      BY <1>0, <2>3, AfterIsPhase DEF AtOK, MarksOK, BatchRules, BatchLlm, Attempt, GraphRules,
         Memory, LlmFails, LlmPage, LlmEnds, marks, record, Goes, Enters, Wins, OnTheWayOut, PhaseNames
    <3>4. QED
      BY <3>1, <3>2, <3>3 DEF LastInv, Unwon, GivesUpLast
  <2>4. CASE Human(j)
    BY <1>0, <2>4 DEF LastInv, Unwon, GivesUpLast, OnTheWayOut, AtOK, MarksOK, Human, Goes,
       Wins, record
  <2>5. CASE Finalize(j) \/ Report(j) \/ Count(j) \/ Close(j)
    BY <1>0, <2>5 DEF LastInv, Unwon, GivesUpLast, OnTheWayOut, AtOK, RecordOK, Finalize,
       Report, Count,
       Close, Goes, marks, Outcome
  <2>6. QED
    BY <1>1, <2>1, <2>2, <2>3, <2>4, <2>5, Zenon DEF Step
<1>2. CASE Tick \/ UNCHANGED vars
  BY <1>2 DEF LastInv, Unwon, GivesUpLast, Tick, vars, marks, record
<1>3. QED
  BY <1>1, <1>2, Zenon DEF Next

\* A job is given up only after the human was asked, or an exception ended it.
THEOREM HumanIsLast == Spec => []GivesUpLast
<1>1. Init => LastInv
  BY DEF Init, LastInv, Unwon, GivesUpLast, OnTheWayOut
<1>2. TypeOK /\ LastInv /\ [Next]_vars => LastInv'
  BY LastStep
<1>3. LastInv => GivesUpLast
  BY DEF LastInv
<1>4. QED
  BY <1>1, <1>2, <1>3, PhasesTypes, PTL DEF Spec

-----------------------------------------------------------------------------
(* The summary                                                             *)

Recorded == {j \in Jobs : row[j].status = "submitted"}
Settled  == {j \in Jobs : at[j] \in {"close", "done"} /\ row[j].status = "submitted"}

Reported == \A j \in Jobs : at[j] \in {"count", "close"} => row[j].status = Outcome(j)
CountedInv == Reported /\ stats.successful <= Cardinality(Settled)

LEMMA SettledFinite == IsFiniteSet(Settled) /\ IsFiniteSet(Recorded) /\ Settled \subseteq Recorded
BY PhasesAssumption, FS_Subset DEF Settled, Recorded

LEMMA ReportedStep ==
  ASSUME TypeOK, Reported, [Next]_vars
  PROVE  Reported'
<1>0. AtOK /\ MarksOK /\ RecordOK
  BY TypeParts
<1>1. ASSUME NEW j \in Jobs, Step(j) PROVE Reported'
  <2>1. CASE Admit(j) \/ Wake(j) \/ StartGraph(j) \/ Open(j) \/ Raises(j)
    BY <1>0, <2>1 DEF Reported, Outcome, AtOK, RecordOK, Admit, Wake, StartGraph, Open, Raises,
       Starts,
       Goes, Enters, marks, record, PhaseNames
  <2>2. CASE BatchRules(j) \/ BatchLlm(j) \/ GraphRules(j) \/ Memory(j) \/ LlmFails(j)
             \/ LlmPage(j) \/ LlmEnds(j) \/ Human(j)
    <3>1. UNCHANGED row
      BY <2>2 DEF BatchRules, BatchLlm, Attempt, GraphRules, Memory, LlmFails, LlmPage, LlmEnds,
         Human, marks, record
    <3>2. \A k \in Jobs \ {j} : at'[k] = at[k] /\ won'[k] = won[k]
      BY <1>0, <2>2 DEF AtOK, MarksOK, BatchRules, BatchLlm, Attempt, GraphRules, Memory,
         LlmFails,
         LlmPage, LlmEnds, Human, marks, record, Goes, Enters, Wins
    <3>3. at'[j] \notin {"count", "close"}
      BY <1>0, <2>2, AfterIsPhase DEF AtOK, MarksOK, BatchRules, BatchLlm, Attempt, GraphRules,
         Memory, LlmFails, LlmPage, LlmEnds, Human, Goes, Enters, Wins, PhaseNames
    <3>4. QED
      BY <3>1, <3>2, <3>3 DEF Reported, Outcome
  <2>3. CASE Report(j)
    BY <1>0, <2>3 DEF Reported, Outcome, AtOK, RecordOK, Report, Goes, marks
  <2>4. CASE Finalize(j) \/ Count(j) \/ Close(j)
    BY <1>0, <2>4 DEF Reported, Outcome, AtOK, Finalize, Count, Close, Goes, marks
  <2>5. QED
    BY <1>1, <2>1, <2>2, <2>3, <2>4, Zenon DEF Step
<1>2. CASE Tick \/ UNCHANGED vars
  BY <1>2 DEF Reported, Outcome, Tick, vars, marks, record
<1>3. QED
  BY <1>1, <1>2, Zenon DEF Next

\* Nothing takes a job out of the settled ones: what is committed stays.
LEMMA SettledStays ==
  ASSUME TypeOK, NEW j \in Jobs, Step(j)
  PROVE  Settled \subseteq Settled'
<1>0. AtOK /\ RecordOK
  BY TypeParts
<1>1. CASE Admit(j) \/ Wake(j) \/ StartGraph(j) \/ Open(j) \/ Raises(j)
  BY <1>0, <1>1 DEF Settled, AtOK, RecordOK, Admit, Wake, StartGraph, Open, Raises, Starts,
     Goes, Enters,
     record
<1>2. CASE BatchRules(j) \/ BatchLlm(j) \/ GraphRules(j) \/ Memory(j) \/ LlmFails(j)
           \/ LlmPage(j) \/ LlmEnds(j) \/ Human(j)
  BY <1>0, <1>2 DEF Settled, AtOK, BatchRules, BatchLlm, Attempt, GraphRules, Memory, LlmFails,
     LlmPage,
     LlmEnds, Human, record, Goes, Enters, Wins
<1>3. CASE Report(j) \/ Finalize(j) \/ Count(j) \/ Close(j)
  BY <1>0, <1>3 DEF Settled, AtOK, RecordOK, Report, Finalize, Count, Close, Goes
<1>4. QED
  BY <1>1, <1>2, <1>3, Zenon DEF Step

LEMMA CountedStep ==
  ASSUME TypeOK, CountedInv, [Next]_vars
  PROVE  CountedInv'
<1>0. AtOK /\ MarksOK /\ RecordOK
  BY TypeParts
<1>1. Reported' /\ IsFiniteSet(Settled) /\ IsFiniteSet(Settled')
  <2>1. IsFiniteSet(Settled')
    BY PhasesAssumption, FS_Subset DEF Settled
  <2>2. QED
    BY <2>1, ReportedStep, SettledFinite DEF CountedInv
<1>2. Cardinality(Settled) \in Nat /\ Cardinality(Settled') \in Nat /\ stats.successful \in Nat
  BY <1>0, <1>1, FS_CardinalityType DEF RecordOK
<1>3. ASSUME NEW j \in Jobs, Step(j) PROVE CountedInv'
  <2>1. Settled \subseteq Settled'
    BY <1>3, SettledStays
  <2>2. Cardinality(Settled) <= Cardinality(Settled')
    BY <1>1, <2>1, FS_Subset
  <2>3. CASE Count(j) /\ won[j] # "none"
    <3>1. j \in Settled' /\ j \notin Settled
      BY <1>0, <2>3 DEF CountedInv, Reported, Outcome, Settled, AtOK, Count, Goes
    <3>2. Cardinality(Settled \cup {j}) = Cardinality(Settled) + 1 /\ IsFiniteSet(Settled \cup {j})
      BY <1>1, <3>1, FS_AddElement
    <3>3. Cardinality(Settled \cup {j}) <= Cardinality(Settled')
      BY <1>1, <2>1, <3>1, FS_Subset
    <3>4. stats'.successful = stats.successful + 1
      BY <1>0, <2>3, CountedIs DEF Count
    <3>5. QED
      BY <1>1, <1>2, <3>2, <3>3, <3>4 DEF CountedInv
  <2>4. CASE ~(Count(j) /\ won[j] # "none")
    <3>1. stats'.successful = stats.successful
      <4>1. UNCHANGED record \/ Open(j) \/ Raises(j) \/ Finalize(j) \/ Report(j) \/ Count(j) \/ Close(j)
        BY <1>3, RecordKept
      <4>2. CASE Raises(j) \/ Count(j)
        <5>1. stats' = Counted(FALSE)
          BY <2>4, <4>2 DEF Raises, Count, Counted
        <5>2. Counted(FALSE).successful = stats.successful
          BY <1>0, <1>2 DEF Counted
        <5>3. QED
          BY <5>1, <5>2
      <4>3. CASE UNCHANGED record \/ Open(j) \/ Finalize(j) \/ Report(j) \/ Close(j)
        <5>1. UNCHANGED stats
          BY <4>3, Zenon DEF Open, Finalize, Report, Close, record
        <5>2. QED
          BY <5>1
      <4>4. QED
        BY <4>1, <4>2, <4>3
    <3>2. QED
      BY <1>1, <1>2, <2>2, <3>1 DEF CountedInv
  <2>5. QED
    BY <2>3, <2>4
<1>4. CASE Tick \/ UNCHANGED vars
  <2>1. Settled' = Settled /\ stats' = stats
    BY <1>4 DEF Settled, Tick, vars, record
  <2>2. QED
    BY <1>1, <2>1 DEF CountedInv
<1>5. QED
  BY <1>3, <1>4, Zenon DEF Next

\* The summary counts no success that no row shows.
THEOREM CountedIsRecorded == Spec => []SuccessIsRecorded
<1>1. Init => CountedInv
  <2>1. ASSUME Init PROVE CountedInv
    <3>1. Settled = {} /\ Reported /\ stats.successful = 0
      BY <2>1 DEF Init, Settled, Reported
    <3>2. QED
      BY <3>1, FS_EmptySet DEF CountedInv
  <2>2. QED
    BY <2>1
<1>2. TypeOK /\ CountedInv /\ [Next]_vars => CountedInv'
  BY CountedStep
<1>3. TypeOK /\ CountedInv => SuccessIsRecorded
  <2>1. ASSUME TypeOK, CountedInv PROVE SuccessIsRecorded
    <3>1. Cardinality(Settled) <= Cardinality(Recorded)
      BY SettledFinite, FS_Subset
    <3>2. Cardinality(Settled) \in Nat /\ Cardinality(Recorded) \in Nat /\ stats.successful \in Nat
      BY <2>1, TypeParts, SettledFinite, FS_CardinalityType DEF RecordOK
    <3>3. QED
      BY <2>1, <3>1, <3>2 DEF CountedInv, SuccessIsRecorded, Recorded
  <2>2. QED
    BY <2>1
<1>4. QED
  BY <1>1, <1>2, <1>3, PhasesTypes, PTL DEF Spec

-----------------------------------------------------------------------------
(* The rate                                                                *)

Recent == {j \in Jobs : age[j] < MinDelay}
Asleep == {j \in Jobs : at[j] = "sleeping"}

\* Who started when r did or later, and who may start while r is recent.
Cohort(r) == {j \in Recent : age[j] <= age[r]} \cup {j \in Asleep : sleep[j] + age[r] < MinDelay}

\* Those of a cohort held a permit together when r started.
RateInv ==
  /\ \A j \in Jobs : since <= age[j]
  /\ Cardinality(InWork) <= Permits
  /\ \A r \in Recent : Cardinality(Cohort(r)) <= Permits

LEMMA SetsFinite ==
  /\ IsFiniteSet(InWork) /\ IsFiniteSet(Recent)
  /\ \A r \in Jobs : IsFiniteSet(Cohort(r))
<1>1. InWork \subseteq Jobs /\ Recent \subseteq Jobs
  BY DEF InWork, Recent
<1>2. \A r \in Jobs : Cohort(r) \subseteq Jobs
  BY DEF Cohort, Recent, Asleep
<1>3. QED
  BY <1>1, <1>2, PhasesAssumption, FS_Subset

LEMMA NoMoreThan ==
  ASSUME NEW S, NEW T, IsFiniteSet(T), S \subseteq T, Cardinality(T) <= Permits
  PROVE  Cardinality(S) <= Permits
<1>1. IsFiniteSet(S) /\ Cardinality(S) <= Cardinality(T)
  BY FS_Subset
<1>2. Cardinality(S) \in Nat /\ Cardinality(T) \in Nat /\ Permits \in Nat
  BY <1>1, FS_CardinalityType, Bounds
<1>3. QED
  BY <1>1, <1>2

\* The oldest of the recent starts: every recent job is in its cohort.
LEMMA Oldest ==
  ASSUME ClockOK, Recent # {}
  PROVE  \E r \in Recent : Recent \subseteq Cohort(r)
<1> DEFINE T == {d \in Nat : \E r \in Recent : d = MinDelay - age[r]}
<1>0. MinDelay \in Nat /\ \A j \in Jobs : age[j] \in 0..MinDelay
  BY Bounds DEF ClockOK
<1>1. T # {} /\ T \subseteq Nat
  BY <1>0 DEF Recent
<1>2. PICK d \in T : \A m \in T : ~(<<m, d>> \in OpToRel(<, Nat))
  BY <1>1, NatLessThanWellFounded, WFMin
<1>3. \A m \in T : d <= m
  <2> HIDE DEF T
  <2>1. ASSUME NEW m \in T, m < d PROVE <<m, d>> \in OpToRel(<, Nat)
    <3>1. m \in Nat /\ d \in Nat
      BY <1>1
    <3>2. QED
      BY <2>1, <3>1 DEF OpToRel
  <2>2. \A m \in T : ~(m < d)
    BY <1>2, <2>1, Zenon
  <2>3. \A m \in T : m \in Nat /\ d \in Nat
    BY <1>1
  <2>4. \A m \in Nat : ~(m < d) /\ d \in Nat => d <= m
    OBVIOUS
  <2>5. QED
    BY <2>2, <2>3, <2>4, Zenon
<1>4. PICK r \in Recent : d = MinDelay - age[r]
  OBVIOUS
<1>5. ASSUME NEW j \in Recent PROVE age[j] <= age[r]
  <2>1. MinDelay - age[j] \in T
    BY <1>0 DEF Recent
  <2>2. QED
    BY <1>0, <1>3, <1>4, <2>1 DEF Recent
<1>6. QED
  BY <1>5 DEF Cohort

LEMMA RateInit == Init => RateInv
<1>1. ASSUME Init PROVE RateInv
  <2>1. Recent = {} /\ InWork = {}
    BY <1>1, Bounds DEF Init, Recent, InWork
  <2>2. Cardinality({}) = 0
    BY FS_EmptySet
  <2>3. \A j \in Jobs : since <= age[j]
    BY <1>1, Bounds DEF Init
  <2>4. QED
    BY <2>1, <2>2, <2>3, Bounds DEF RateInv
<1>2. QED
  BY <1>1

\* Steps that neither start a request nor put a job to sleep.
LEMMA CohortShrinks ==
  ASSUME RateInv, ClockOK, UNCHANGED clock, Asleep' \subseteq Asleep,
         Cardinality(InWork') <= Permits
  PROVE  RateInv'
<1>1. Recent' = Recent
  BY DEF Recent, clock
<1>2. ASSUME NEW r \in Recent PROVE Cardinality(Cohort(r)') <= Permits
  <2>1. Cohort(r)' \subseteq Cohort(r)
    BY <1>1 DEF Cohort, clock
  <2>2. QED
    BY <2>1, SetsFinite, NoMoreThan DEF RateInv, Recent
<1>3. QED
  BY <1>1, <1>2 DEF RateInv, clock

LEMMA RateTick ==
  ASSUME RateInv, ClockOK, Tick
  PROVE  RateInv'
<1>0. MinDelay \in Nat /\ since \in 0..MinDelay /\ \A j \in Jobs : age[j] \in 0..MinDelay
      /\ sleep[j] \in 0..MinDelay
  BY Bounds DEF ClockOK
<1>1. InWork' = InWork /\ Asleep' = Asleep
  BY DEF Tick, InWork, Asleep
<1>2. since' = IF since < MinDelay THEN since + 1 ELSE MinDelay
  BY <1>0, MinOfTwo DEF Tick
<1>3. ASSUME NEW j \in Jobs
      PROVE  /\ age'[j] = IF age[j] < MinDelay THEN age[j] + 1 ELSE MinDelay
             /\ sleep'[j] = IF sleep[j] > 0 THEN sleep[j] - 1 ELSE 0
  <2>1. Min({age[j] + 1, MinDelay}) = IF age[j] < MinDelay THEN age[j] + 1 ELSE MinDelay
    BY <1>0, MinOfTwo
  <2>2. Max({sleep[j] - 1, 0}) = IF sleep[j] > 0 THEN sleep[j] - 1 ELSE 0
    BY <1>0, MaxOfTwo
  <2>3. QED
    BY <2>1, <2>2 DEF Tick
<1>4. \A j \in Jobs : since' <= age'[j]
  BY <1>0, <1>2, <1>3 DEF RateInv
<1>5. ASSUME NEW r \in Recent' PROVE r \in Recent /\ Cohort(r)' \subseteq Cohort(r)
  <2>1. r \in Recent /\ age'[r] = age[r] + 1 /\ age[r] \in Nat
    BY <1>0, <1>3 DEF Recent
  <2>2. \A j \in Recent' : age'[j] <= age'[r] => j \in Recent /\ age[j] <= age[r]
    BY <1>0, <1>3, <2>1 DEF Recent
  <2>3. \A j \in Asleep' : sleep'[j] + age'[r] < MinDelay => j \in Asleep /\ sleep[j] + age[r] < MinDelay
    BY <1>0, <1>1, <1>3, <2>1 DEF Asleep
  <2>4. QED
    BY <2>1, <2>2, <2>3 DEF Cohort
<1>6. ASSUME NEW r \in Recent' PROVE Cardinality(Cohort(r)') <= Permits
  BY <1>5, SetsFinite, NoMoreThan DEF RateInv, Recent
<1>7. QED
  BY <1>1, <1>4, <1>6 DEF RateInv

\* Starting at once: nothing is recent, and whoever sleeps has a permit.
LEMMA RateAdmit ==
  ASSUME RateInv, AtOK, ClockOK, NEW i \in Jobs, Admit(i)
  PROVE  RateInv'
<1>0. MinDelay \in Nat /\ MinDelay > 0 /\ since \in 0..MinDelay
      /\ \A j \in Jobs : age[j] \in 0..MinDelay /\ sleep[j] \in 0..MinDelay
  BY Bounds DEF ClockOK
<1>1. InWork' \subseteq InWork \cup {i} /\ i \notin InWork
  BY DEF Admit, InWork, Starts, Goes, AtOK
<1>2. Cardinality(InWork \cup {i}) <= Permits /\ IsFiniteSet(InWork \cup {i})
  <2>1. Cardinality(InWork \cup {i}) = Cardinality(InWork) + 1 /\ IsFiniteSet(InWork \cup {i})
    BY <1>1, SetsFinite, FS_AddElement
  <2>2. Cardinality(InWork) \in Nat /\ Cardinality(InWork) < Permits
    BY SetsFinite, FS_CardinalityType DEF Admit
  <2>3. QED
    BY <2>1, <2>2, Bounds
<1>3. Cardinality(InWork') <= Permits
  BY <1>1, <1>2, NoMoreThan
<1>4. CASE since = MinDelay /\ Starts(i) /\ UNCHANGED sleep
  <2>1. Recent = {} /\ age'[i] = 0 /\ since' = 0 /\ Asleep' = Asleep
    BY <1>0, <1>4 DEF RateInv, Recent, Starts, ClockOK, Asleep, Goes, AtOK, Admit
  <2>2. \A j \in Jobs \ {i} : age'[j] = age[j]
    BY <1>4 DEF Starts, ClockOK
  <2>3. Recent' = {i}
    BY <1>0, <2>1, <2>2 DEF Recent
  <2>4. Cohort(i)' \subseteq InWork \cup {i}
    BY <2>1, <2>3 DEF Cohort, Asleep, InWork
  <2>5. Cardinality(Cohort(i)') <= Permits
    BY <1>2, <2>4, NoMoreThan
  <2>6. \A j \in Jobs : since' <= age'[j]
    BY <1>0, <2>1, <2>2
  <2>7. QED
    BY <1>3, <2>3, <2>5, <2>6 DEF RateInv
<1>5. CASE since < MinDelay /\ UNCHANGED <<since, age>> /\ Goes(i, "sleeping")
           /\ sleep' = [sleep EXCEPT ![i] = MinDelay - since]
  <2>1. Recent' = Recent /\ Asleep' = Asleep \cup {i} /\ sleep'[i] = MinDelay - since
    BY <1>5 DEF Recent, Asleep, Goes, AtOK, ClockOK
  <2>2. \A j \in Jobs \ {i} : sleep'[j] = sleep[j]
    BY <1>5 DEF ClockOK
  <2>3. ASSUME NEW r \in Recent PROVE Cohort(r)' \subseteq Cohort(r)
    <3>1. ~(sleep'[i] + age'[r] < MinDelay)
      BY <1>0, <1>5, <2>1 DEF RateInv, Recent
    <3>2. QED
      BY <1>5, <2>1, <2>2, <3>1 DEF Cohort, Asleep
  <2>4. \A r \in Recent : Cardinality(Cohort(r)') <= Permits
    BY <2>3, SetsFinite, NoMoreThan DEF RateInv, Recent
  <2>5. QED
    BY <1>3, <1>5, <2>1, <2>4 DEF RateInv
<1>6. QED
  BY <1>4, <1>5 DEF Admit

\* Waking up: whoever started since has the sleeper in its cohort.
LEMMA RateWake ==
  ASSUME RateInv, AtOK, ClockOK, NEW i \in Jobs, Wake(i)
  PROVE  RateInv'
<1>0. MinDelay \in Nat /\ MinDelay > 0
      /\ \A j \in Jobs : age[j] \in 0..MinDelay /\ sleep[j] \in 0..MinDelay
  BY Bounds DEF ClockOK
<1>1. InWork' = InWork /\ Asleep' \subseteq Asleep /\ i \in Asleep /\ sleep' = sleep /\ sleep[i] = 0
  BY DEF Wake, InWork, Asleep, Starts, Goes, AtOK
<1>2. since' = 0 /\ age'[i] = 0 /\ \A j \in Jobs \ {i} : age'[j] = age[j]
  BY DEF Wake, Starts, ClockOK
<1>3. Recent' = Recent \cup {i}
  BY <1>0, <1>2 DEF Recent
<1>4. ASSUME NEW r \in Recent, r # i PROVE Cohort(r)' \subseteq Cohort(r)
  <2>1. age'[r] = age[r] /\ age[r] < MinDelay /\ age[r] \in Nat
    BY <1>0, <1>2, <1>4 DEF Recent
  <2>2. i \in Cohort(r)
    BY <1>0, <1>1, <2>1 DEF Cohort
  <2>3. \A j \in Recent' : j = i \/ (j \in Recent /\ age'[j] = age[j])
    BY <1>2, <1>3 DEF Recent
  <2>4. QED
    BY <1>1, <2>1, <2>2, <2>3 DEF Cohort
<1>5. Cardinality(Cohort(i)') <= Permits
  <2>1. CASE \E k \in Recent : k # i /\ age[k] = 0
    <3>1. PICK k \in Recent : k # i /\ age[k] = 0
      BY <2>1
    <3>2. i \in Cohort(k)
      BY <1>0, <1>1, <3>1 DEF Cohort
    <3>3. Cohort(i)' \subseteq Cohort(k)
      BY <1>0, <1>1, <1>2, <1>3, <3>1, <3>2 DEF Cohort, Recent
    <3>4. QED
      BY <3>1, <3>3, SetsFinite, NoMoreThan DEF RateInv, Recent
  <2>2. CASE ~\E k \in Recent : k # i /\ age[k] = 0
    <3>1. \A j \in Recent' : age'[j] <= age'[i] => j = i
      BY <1>0, <1>2, <1>3, <2>2 DEF Recent
    <3>2. Cohort(i)' \subseteq InWork
      BY <1>1, <3>1 DEF Cohort, Asleep, InWork
    <3>3. QED
      BY <3>2, SetsFinite, NoMoreThan DEF RateInv
  <2>3. QED
    BY <2>1, <2>2
<1>6. ASSUME NEW r \in Recent' PROVE Cardinality(Cohort(r)') <= Permits
  BY <1>3, <1>4, <1>5, SetsFinite, NoMoreThan DEF RateInv, Recent
<1>7. \A j \in Jobs : since' <= age'[j]
  BY <1>0, <1>2
<1>8. QED
  BY <1>1, <1>6, <1>7 DEF RateInv

LEMMA RateStep ==
  ASSUME TypeOK, RateInv, [Next]_vars
  PROVE  RateInv'
<1>0. AtOK /\ ClockOK
  BY TypeParts
<1>1. ASSUME NEW j \in Jobs, Step(j) PROVE RateInv'
  <2>1. CASE StartGraph(j)
    <3>1. InWork' = {j} /\ Asleep' = Asleep /\ UNCHANGED clock
      BY <1>0, <2>1 DEF StartGraph, Enters, Goes, AtOK, InWork, Asleep
    <3>2. Cardinality({j}) <= Permits
      <4>1. Cardinality({j}) = 1
        BY FS_Singleton, Zenon
      <4>2. QED
        BY <4>1, Bounds
    <3>3. QED
      BY <1>0, <3>1, <3>2, CohortShrinks
  <2>2. ASSUME InWork' \subseteq InWork, Asleep' \subseteq Asleep, UNCHANGED clock PROVE RateInv'
    BY <1>0, <2>2, SetsFinite, NoMoreThan, CohortShrinks DEF RateInv
  <2>3. CASE Open(j) \/ Raises(j) \/ Finalize(j) \/ Report(j) \/ Count(j) \/ Close(j)
    <3>1. InWork' \subseteq InWork /\ Asleep' \subseteq Asleep /\ UNCHANGED clock
      BY <1>0, <2>3 DEF Open, Raises, Finalize, Report, Count, Close, Enters, Goes, AtOK,
         InWork, Asleep
    <3>2. QED
      BY <2>2, <3>1
  <2>4. CASE BatchRules(j) \/ BatchLlm(j) \/ GraphRules(j) \/ Memory(j) \/ LlmFails(j)
             \/ LlmPage(j) \/ LlmEnds(j) \/ Human(j)
    <3>1. at[j] \in {"rules", "llm", "memory", "human"} /\ UNCHANGED clock
      BY <2>4 DEF BatchRules, BatchLlm, Attempt, GraphRules, Memory, LlmFails, LlmPage,
         LlmEnds, Human
    <3>2. \A k \in Jobs \ {j} : at'[k] = at[k]
      BY <1>0, <2>4 DEF AtOK, BatchRules, BatchLlm, Attempt, GraphRules, Memory, LlmFails,
         LlmPage,
         LlmEnds, Human, Goes, Enters, Wins
    <3>3. at'[j] # "sleeping"
      BY <1>0, <2>4, AfterIsPhase DEF AtOK, BatchRules, BatchLlm, Attempt, GraphRules, Memory,
         LlmFails,
         LlmPage, LlmEnds, Human, Goes, Enters, Wins, PhaseNames
    <3>4. InWork' \subseteq InWork /\ Asleep' \subseteq Asleep
      BY <3>1, <3>2, <3>3 DEF InWork, Asleep
    <3>5. QED
      BY <2>2, <3>1, <3>4
  <2>5. CASE Admit(j) \/ Wake(j)
    BY <1>0, <2>5, RateAdmit, RateWake
  <2>6. QED
    BY <1>1, <2>1, <2>3, <2>4, <2>5, Zenon DEF Step
<1>2. CASE Tick
  BY <1>0, <1>2, RateTick
<1>3. CASE UNCHANGED vars
  <2>1. InWork' = InWork /\ Asleep' = Asleep /\ UNCHANGED clock
    BY <1>3 DEF vars, InWork, Asleep, clock
  <2>2. QED
    BY <1>0, <2>1, CohortShrinks DEF RateInv
<1>4. QED
  BY <1>1, <1>2, <1>3, Zenon DEF Next

\* No more than Permits requests start within the delay.
THEOREM RateBounded == Spec => []RateIsBounded
<1>1. TypeOK /\ RateInv /\ [Next]_vars => RateInv'
  BY RateStep
<1>2. TypeOK /\ RateInv => RateIsBounded
  <2>1. ASSUME TypeOK, RateInv PROVE Cardinality(Recent) <= Permits
    <3>1. CASE Recent = {}
      BY <3>1, FS_EmptySet, Bounds
    <3>2. CASE Recent # {}
      <4>1. PICK r \in Recent : Recent \subseteq Cohort(r)
        BY <2>1, <3>2, TypeParts, Oldest
      <4>2. QED
        BY <2>1, <4>1, SetsFinite, NoMoreThan DEF RateInv, Recent
    <3>3. QED
      BY <3>1, <3>2
  <2>2. QED
    BY <2>1 DEF RateIsBounded, Recent
<1>3. QED
  BY <1>1, <1>2, RateInit, PhasesTypes, PTL DEF Spec

-----------------------------------------------------------------------------
(* The healing executor                                                    *)

LEMMA OrderIs ==
  /\ Len(Order) \in Nat /\ Len(Order) >= 1 /\ DOMAIN Order = 1..Len(Order)
  /\ \A i \in 1..Len(Order) : Order[i] \in Fields
  /\ \A f \in Fields : \E i \in 1..Len(Order) : Order[i] = f
  /\ \A i, j \in 1..Len(Order) : Order[i] = Order[j] => i = j
  /\ Submit = Order[Len(Order)]
<1>1. Order \in Seq(Fields) /\ IsInjective(Order) /\ Order # <<>>
  BY SelfHealingAssumption
<1>2. Len(Order) \in Nat /\ DOMAIN Order = 1..Len(Order) /\ Len(Order) # 0
  BY <1>1, LenProperties, EmptySeq
<1>3. \A i \in 1..Len(Order) : Order[i] \in Fields
  BY <1>1, ElementOfSeq
<1>4. \A f \in Fields : \E i \in 1..Len(Order) : Order[i] = f
  BY <1>2 DEF Fields, ToSet
<1>5. QED
  BY <1>1, <1>2, <1>3, <1>4 DEF IsInjective, Submit, Last

LEMMA Numbers ==
  /\ Retries \in Nat \ {0} /\ RetryLimit \in Nat \ {0} /\ EscalateAfter \in Nat \ {0}
  /\ TooMany \in Nat \ {0} /\ MaxBatches \in Nat /\ MaxChanges \in Nat /\ MaxRestarts \in Nat
BY SelfHealingAssumption

LEMMA Named ==
  Fields \subseteq Elements /\ Fields \subseteq Selectors /\ Elements \subseteq Selectors
  /\ "own" \in Selectors /\ \A x \in Selectors : x # "own" => x \in Elements
BY DEF Elements, Selectors

-----------------------------------------------------------------------------
(* Types                                                                   *)

Doing == {"idle", "left", "locate", "act", "verify", "learn", "save", "heal", "check", "operate"}

PageOK == /\ value \in [Sessions -> [Elements -> Fields \cup {"empty"}]]
          /\ broken \in [Sessions -> SUBSET Fields] /\ hidden \in [Sessions -> SUBSET Elements]
PlaceOK == /\ stage \in [Sessions -> Doing] /\ n \in [Sessions -> 1..Len(Order)]
           /\ sel \in [Sessions -> Selectors] /\ mended \in [Sessions -> BOOLEAN]
Limit(place) == IF place \in {"check", "operate"} THEN RetryLimit ELSE Retries
AttemptOK == /\ attempt \in [Sessions -> Nat]
             /\ \A s \in Sessions : attempt[s] <= Limit(stage[s])
DoneOK == ok \in [Sessions -> SUBSET Fields] /\ sent \in [Sessions -> BOOLEAN]
RetryOK == conf \in [Sessions -> {"low", "mid", "high"}] /\ recent \in [Sessions -> Nat]
LearntOK == /\ mem \in [Sessions -> Counts] /\ file \in Counts /\ torn \in BOOLEAN
            /\ earned \in Counts
BoundsOK == batches \in 0..MaxBatches /\ changes \in 0..MaxChanges /\ restarts \in 0..MaxRestarts

LEMMA HealTypeParts ==
  HealTypeOK <=> /\ PageOK /\ PlaceOK /\ AttemptOK /\ DoneOK /\ RetryOK /\ LearntOK /\ BoundsOK
BY DEF HealTypeOK, PageOK, PlaceOK, AttemptOK, DoneOK, RetryOK, LearntOK, BoundsOK, Doing, Limit

LEMMA NoCountsType == NoCounts \in Counts
BY DEF NoCounts, Counts

LEMMA HealTypeInit == HealInit => HealTypeOK
<1> SUFFICES ASSUME HealInit PROVE HealTypeOK
  OBVIOUS
<1>1. PageOK /\ DoneOK /\ RetryOK
  BY DEF HealInit, PageOK, DoneOK, RetryOK, EmptyForm
<1>2. PlaceOK
  BY OrderIs, Named DEF HealInit, PlaceOK, Doing
<1>3. AttemptOK
  BY Numbers DEF HealInit, AttemptOK, Limit
<1>4. LearntOK
  BY NoCountsType DEF HealInit, LearntOK
<1>5. BoundsOK
  BY Numbers DEF HealInit, BoundsOK
<1>6. QED
  BY <1>1, <1>2, <1>3, <1>4, <1>5, HealTypeParts

LEMMA TargetIs ==
  ASSUME PlaceOK, NEW s \in Sessions
  PROVE  /\ Target(s) \in Fields /\ sel[s] \in Selectors /\ n[s] \in 1..Len(Order)
         /\ Hits(s) \subseteq Elements
         /\ Target(s) = Submit => n[s] = Len(Order)
BY OrderIs, Named DEF PlaceOK, Target, Hits

\* The sub-steps that end, repeat or begin an action.
LEMMA PlaceMoves ==
  ASSUME PlaceOK, NEW s \in Sessions
  PROVE  /\ EndBatch(s) => PlaceOK'
         /\ AttemptFails(s) => PlaceOK'
         /\ \A x \in Selectors : TryHealed(s, x) => PlaceOK'
         /\ (n[s] < Len(Order) /\ Execute(s, "own") /\ n' = [n EXCEPT ![s] = @ + 1]
              /\ mended' = [mended EXCEPT ![s] = FALSE]) => PlaceOK'
         /\ \A w \in Doing : MovesTo(s, w) /\ UNCHANGED <<n, sel, mended>> => PlaceOK'
<1>1. Len(Order) \in Nat /\ 1 \in 1..Len(Order) /\ "own" \in Selectors
  BY OrderIs, Named
<1>2. EndBatch(s) => PlaceOK'
  BY <1>1 DEF EndBatch, PlaceOK, MovesTo, Reset, Doing
<1>3. \A w \in Doing : MovesTo(s, w) /\ UNCHANGED <<n, sel, mended>> => PlaceOK'
  BY DEF PlaceOK, MovesTo
<1>4. AttemptFails(s) => PlaceOK'
  BY <1>2, <1>3 DEF AttemptFails, Doing
<1>5. \A x \in Selectors : TryHealed(s, x) => PlaceOK'
  BY DEF PlaceOK, TryHealed, Execute, MovesTo, Doing
<1>6. (n[s] < Len(Order) /\ Execute(s, "own") /\ n' = [n EXCEPT ![s] = @ + 1]
        /\ mended' = [mended EXCEPT ![s] = FALSE]) => PlaceOK'
  BY <1>1 DEF PlaceOK, Execute, MovesTo, Doing
<1>7. QED
  BY <1>2, <1>3, <1>4, <1>5, <1>6

Acts(s) == \/ HealStep(s) \/ StartBatch(s) \/ StartRetry(s) \/ PageChanges(s) \/ Restart(s) \/ TimePasses(s)

LEMMA CandidatesAre ==
  ASSUME NEW s \in Sessions, NEW f \in Fields
  PROVE  Candidates(s, f) \subseteq Selectors
<1>1. Semantic[f] \subseteq Selectors /\ Structural[f] \subseteq Selectors
  BY SelfHealingAssumption, Named
<1>2. SemanticHits(s, f) \subseteq Selectors /\ StructuralHits(s, f) \subseteq Selectors
      /\ Historical(s, f) \subseteq Selectors
  BY <1>1 DEF SemanticHits, StructuralHits, Historical
<1> DEFINE strategies == <<SemanticHits(s, f), Historical(s, f), StructuralHits(s, f)>>
           finds == {i \in 1..3 : strategies[i] # {}}
<1>3. \A i \in 1..3 : strategies[i] \subseteq Selectors
  BY <1>2
<1>4. finds # {} => Min(finds) \in 1..3
  <2>1. \A S \in SUBSET (1..3) : S # {} => \E x \in S : \A y \in S : x <= y
    <3>1. ASSUME NEW S \in SUBSET (1..3), S # {} PROVE \E x \in S : \A y \in S : x <= y
      <4>1. CASE 1 \in S
        BY <4>1
      <4>2. CASE 1 \notin S /\ 2 \in S
        BY <4>2
      <4>3. CASE 1 \notin S /\ 2 \notin S
        <5>1. \A y \in S : y = 3
          BY <4>3
        <5>2. 3 \in S
          BY <3>1, <5>1
        <5>3. QED
          BY <5>1, <5>2
      <4>4. QED
        BY <4>1, <4>2, <4>3
    <3>2. QED
      BY <3>1
  <2>2. finds \in SUBSET (1..3)
    OBVIOUS
  <2> HIDE DEF finds
  <2>3. QED
    BY <2>1, <2>2 DEF Min
<1>5. Candidates(s, f) = IF finds = {} THEN {} ELSE strategies[Min(finds)]
  BY DEF Candidates
<1> HIDE DEF finds, strategies
<1>6. QED
  BY <1>3, <1>4, <1>5

LEMMA PlaceStep ==
  ASSUME PlaceOK, NEW s \in Sessions, Acts(s)
  PROVE  PlaceOK'
<1>1. CASE Leave(s)
  BY <1>1, OrderIs, Named DEF PlaceOK, Leave, MovesTo, Reset, Doing
<1>2. CASE Locate(s) \/ Fill(s) \/ Click(s)
  BY <1>2, PlaceMoves DEF Locate, Fill, Click, Doing
<1>3. CASE Verify(s)
  BY <1>3, PlaceMoves DEF Verify, Doing
<1>4. CASE Heal(s)
  BY <1>4, PlaceMoves, CandidatesAre, TargetIs DEF Heal
<1>5. CASE Learn(s) \/ Check(s) \/ Operate(s) \/ StartRetry(s)
  BY <1>5, PlaceMoves DEF Learn, Check, Operate, StartRetry, Doing, local
<1>6. CASE Save(s) \/ SaveFails(s)
  BY <1>6, PlaceMoves DEF Save, SaveFails
<1>7. CASE StartBatch(s)
  BY <1>7, Named DEF StartBatch, Execute, MovesTo, PlaceOK, Doing
<1>8. CASE PageChanges(s) \/ Restart(s) \/ TimePasses(s)
  BY <1>8 DEF PageChanges, Restart, TimePasses, local, PlaceOK
<1>9. QED
  BY <1>1, <1>2, <1>3, <1>4, <1>5, <1>6, <1>7, <1>8, Zenon DEF Acts, HealStep

LEMMA AttemptMoves ==
  ASSUME PlaceOK, AttemptOK, NEW s \in Sessions
  PROVE  /\ EndBatch(s) => AttemptOK'
         /\ \A x \in Selectors : Execute(s, x) => AttemptOK'
         /\ stage[s] \notin {"check", "operate"} =>
              /\ AttemptFails(s) => AttemptOK'
              /\ \A w \in Doing \ {"check", "operate"} : MovesTo(s, w) /\ UNCHANGED attempt => AttemptOK'
<1>1. Retries \in Nat /\ Retries >= 1 /\ RetryLimit \in Nat
  BY Numbers
<1>2. EndBatch(s) => AttemptOK'
  BY <1>1 DEF EndBatch, AttemptOK, PlaceOK, MovesTo, Reset, Limit
<1>3. \A x \in Selectors : Execute(s, x) => AttemptOK'
  BY <1>1 DEF Execute, AttemptOK, PlaceOK, MovesTo, Limit
<1>4. ASSUME stage[s] \notin {"check", "operate"}, NEW w \in Doing \ {"check", "operate"}, MovesTo(s, w),
             UNCHANGED attempt
      PROVE  AttemptOK'
  BY <1>1, <1>4 DEF AttemptOK, PlaceOK, MovesTo, Limit
<1>5. ASSUME stage[s] \notin {"check", "operate"}, AttemptFails(s) PROVE AttemptOK'
  <2>1. CASE attempt[s] < Retries /\ MovesTo(s, "locate") /\ attempt' = [attempt EXCEPT ![s] = @ + 1]
    BY <1>1, <2>1 DEF AttemptOK, PlaceOK, MovesTo, Limit
  <2>2. CASE MovesTo(s, "heal") /\ UNCHANGED attempt
    BY <1>4, <1>5, <2>2 DEF Doing
  <2>3. QED
    BY <1>2, <1>5, <2>1, <2>2 DEF AttemptFails
<1>6. QED
  BY <1>2, <1>3, <1>4, <1>5

LEMMA AttemptStep ==
  ASSUME PlaceOK, AttemptOK, NEW s \in Sessions, Acts(s)
  PROVE  AttemptOK'
<1>0. Retries \in Nat /\ Retries >= 1 /\ RetryLimit \in Nat /\ RetryLimit >= 1
  BY Numbers
<1>1. CASE Leave(s) \/ SaveFails(s)
  <2>1. CASE Leave(s)
    BY <1>0, <2>1 DEF Leave, AttemptOK, PlaceOK, MovesTo, Reset, Limit
  <2>2. CASE SaveFails(s)
    BY <2>2, AttemptMoves DEF SaveFails
  <2>3. QED
    BY <1>1, <2>1, <2>2
<1>2. CASE Locate(s) \/ Fill(s) \/ Click(s) \/ Verify(s)
  <2>1. stage[s] \notin {"check", "operate"}
    BY <1>2 DEF Locate, Fill, Click, Verify
  <2>2. AttemptFails(s) \/ \E w \in {"act", "verify", "learn"} : MovesTo(s, w) /\ UNCHANGED attempt
    BY <1>2 DEF Locate, Fill, Click, Verify
  <2>3. QED
    BY <2>1, <2>2, AttemptMoves DEF Doing
<1>3. CASE Heal(s)
  <2>1. EndBatch(s) \/ \E x \in Selectors : Execute(s, x)
    BY <1>3, CandidatesAre, TargetIs DEF Heal, TryHealed
  <2>2. QED
    BY <2>1, AttemptMoves
<1>4. CASE Learn(s)
  <2>1. stage[s] = "learn" /\ MovesTo(s, "save") /\ UNCHANGED attempt
    BY <1>4 DEF Learn, local
  <2>2. QED
    BY <2>1, AttemptMoves DEF Doing
<1>5. CASE Save(s) \/ StartBatch(s)
  <2>1. EndBatch(s) \/ Execute(s, "own")
    BY <1>5 DEF Save, StartBatch
  <2>2. QED
    BY <2>1, AttemptMoves, Named
<1>6. CASE Check(s)
  <2>1. stage[s] = "check" /\ attempt[s] <= RetryLimit
    BY <1>6 DEF Check, AttemptOK, Limit
  <2>2. \/ \E w \in {"check", "operate"} : MovesTo(s, w) /\ UNCHANGED attempt
        \/ MovesTo(s, "idle") /\ attempt' = [attempt EXCEPT ![s] = 0]
    BY <1>6 DEF Check
  <2>3. CASE MovesTo(s, "idle") /\ attempt' = [attempt EXCEPT ![s] = 0]
    BY <1>0, <2>3 DEF AttemptOK, PlaceOK, MovesTo, Limit
  <2>4. ASSUME NEW w \in {"check", "operate"}, MovesTo(s, w) /\ UNCHANGED attempt PROVE AttemptOK'
    <3>1. \A r \in Sessions : stage'[r] = IF r = s THEN w ELSE stage[r]
      BY <2>4 DEF PlaceOK, MovesTo
    <3>2. Limit(w) = RetryLimit
      BY DEF Limit
    <3>3. \A r \in Sessions : attempt[r] <= Limit(stage'[r])
      BY <2>1, <3>1, <3>2 DEF AttemptOK
    <3>4. QED
      BY <2>4, <3>3 DEF AttemptOK, Limit
  <2>5. QED
    BY <2>2, <2>3, <2>4
<1>7. CASE Operate(s) \/ StartRetry(s)
  <2>1. \E a \in Nat, w \in {"check", "idle"} :
          MovesTo(s, w) /\ attempt' = [attempt EXCEPT ![s] = a] /\ a <= Limit(w)
    BY <1>0, <1>7 DEF Operate, StartRetry, AttemptOK, Limit
  <2>2. PICK a \in Nat, w \in {"check", "idle"} :
          MovesTo(s, w) /\ attempt' = [attempt EXCEPT ![s] = a] /\ a <= Limit(w)
    BY <2>1
  <2>3. \A r \in Sessions : stage'[r] = (IF r = s THEN w ELSE stage[r]) /\ attempt'[r] = IF r = s THEN a ELSE attempt[r]
    BY <2>2 DEF PlaceOK, AttemptOK, MovesTo
  <2>4. \A r \in Sessions : attempt'[r] <= Limit(stage'[r])
    BY <2>2, <2>3 DEF AttemptOK
  <2>5. attempt' \in [Sessions -> Nat]
    BY <2>2 DEF AttemptOK
  <2>6. QED
    BY <2>4, <2>5 DEF AttemptOK, Limit
<1>8. CASE PageChanges(s) \/ Restart(s) \/ TimePasses(s)
  BY <1>8 DEF PageChanges, Restart, TimePasses, local, AttemptOK
<1>9. QED
  BY <1>1, <1>2, <1>3, <1>4, <1>5, <1>6, <1>7, <1>8, Zenon DEF Acts, HealStep

LEMMA PageStep ==
  ASSUME PageOK, PlaceOK, NEW s \in Sessions, Acts(s)
  PROVE  PageOK'
<1>1. EmptyForm \in [Elements -> Fields \cup {"empty"}]
  BY DEF EmptyForm
<1>2. CASE Leave(s) \/ StartBatch(s)
  BY <1>1, <1>2 DEF PageOK, Leave, StartBatch
<1>3. CASE Fill(s)
  <2>1. UNCHANGED <<broken, hidden>>
    BY <1>3 DEF Fill
  <2>2. value' = value \/ \E e \in Elements, v \in Fields \cup {"empty"} : value' = [value EXCEPT ![s][e] = v]
    BY <1>3, TargetIs DEF Fill
  <2>3. value' \in [Sessions -> [Elements -> Fields \cup {"empty"}]]
    <3>1. ASSUME NEW e \in Elements, NEW v \in Fields \cup {"empty"}
          PROVE  [value EXCEPT ![s][e] = v] \in [Sessions -> [Elements -> Fields \cup {"empty"}]]
      <4>1. [value[s] EXCEPT ![e] = v] \in [Elements -> Fields \cup {"empty"}]
        BY DEF PageOK
      <4>2. QED
        BY <4>1 DEF PageOK
    <3>2. CASE value' = value
      BY <3>2 DEF PageOK
    <3>3. CASE \E e \in Elements, v \in Fields \cup {"empty"} : value' = [value EXCEPT ![s][e] = v]
      <4>1. PICK e \in Elements, v \in Fields \cup {"empty"} : value' = [value EXCEPT ![s][e] = v]
        BY <3>3
      <4>2. QED
        BY <3>1, <4>1
    <3>4. QED
      BY <2>2, <3>2, <3>3
  <2>4. QED
    BY <2>1, <2>3 DEF PageOK
<1>4. CASE PageChanges(s)
  BY <1>1, <1>4 DEF PageOK, PageChanges, Toggled
<1>5. CASE UNCHANGED page
  BY <1>5 DEF PageOK, page
<1>6. QED
  BY <1>2, <1>3, <1>4, <1>5, Zenon DEF Acts, HealStep, Locate, Click, Verify, Heal, Learn,
     Save, SaveFails,
     Check, Operate, StartRetry, Restart, TimePasses

LEMMA DoneStep ==
  ASSUME DoneOK, PlaceOK, NEW s \in Sessions, Acts(s)
  PROVE  DoneOK'
<1>1. CASE Leave(s) \/ Click(s) \/ Verify(s)
  BY <1>1, TargetIs DEF DoneOK, Leave, Click, Verify
<1>2. CASE UNCHANGED <<ok, sent>>
  BY <1>2 DEF DoneOK
<1>3. QED
  BY <1>1, <1>2, Zenon DEF Acts, HealStep, Locate, Fill, Heal, Learn, Save, SaveFails, Check,
     Operate,
     StartBatch, StartRetry, PageChanges, Restart, TimePasses, local

LEMMA RetryStep ==
  ASSUME RetryOK, NEW s \in Sessions, Acts(s)
  PROVE  RetryOK'
<1>1. CASE Check(s) \/ Operate(s) \/ StartRetry(s)
  BY <1>1 DEF RetryOK, Check, Operate, StartRetry, Lowered
<1>2. CASE Restart(s) \/ TimePasses(s)
  BY <1>2 DEF RetryOK, Restart, TimePasses
<1>3. CASE UNCHANGED retry
  BY <1>3 DEF RetryOK, retry
<1>4. QED
  BY <1>1, <1>2, <1>3, Zenon DEF Acts, HealStep, Leave, Locate, Fill, Click, Verify, Heal,
     Learn, Save,
     SaveFails, StartBatch, PageChanges

LEMMA OneMore ==
  ASSUME NEW c \in Counts, NEW f \in Fields, NEW x \in Selectors
  PROVE  /\ [c EXCEPT ![f][x] = @ + 1] \in Counts
         /\ \A g \in Fields, y \in Selectors :
              [c EXCEPT ![f][x] = @ + 1][g][y] = IF g = f /\ y = x THEN c[g][y] + 1 ELSE c[g][y]
<1>1. c \in [Fields -> [Selectors -> Nat]] /\ c[f] \in [Selectors -> Nat] /\ c[f][x] \in Nat
  BY DEF Counts
<1>2. [c[f] EXCEPT ![x] = @ + 1] \in [Selectors -> Nat]
  BY <1>1
<1>3. [c EXCEPT ![f] = [c[f] EXCEPT ![x] = @ + 1]] \in [Fields -> [Selectors -> Nat]]
  BY <1>1, <1>2
<1>4. QED
  BY <1>1, <1>2, <1>3 DEF Counts

\* The actions that touch what was learnt.
LEMMA LearntKept ==
  ASSUME NEW s \in Sessions, Acts(s)
  PROVE  UNCHANGED learnt \/ Verify(s) \/ Learn(s) \/ Save(s) \/ Restart(s)
BY Zenon DEF Acts, HealStep, Leave, Locate, Fill, Click, Heal, SaveFails, Check, Operate,
   StartBatch,
   StartRetry, PageChanges, TimePasses

LEMMA LearntStep ==
  ASSUME LearntOK, PlaceOK, NEW s \in Sessions, Acts(s)
  PROVE  LearntOK'
<1>0. Target(s) \in Fields /\ sel[s] \in Selectors
  BY TargetIs
<1>1. CASE Verify(s)
  <2>1. earned' = earned \/ earned' = [earned EXCEPT ![Target(s)][sel[s]] = @ + 1]
    BY <1>1 DEF Verify
  <2>2. earned' \in Counts
    BY <1>0, <2>1, OneMore DEF LearntOK
  <2>3. QED
    BY <1>1, <2>2 DEF LearntOK, Verify
<1>2. CASE Learn(s)
  <2>1. mem' \in [Sessions -> Counts]
    BY <1>0, <1>2 DEF LearntOK, Learn, Counts
  <2>2. QED
    BY <1>2, <2>1, NoCountsType DEF LearntOK, Learn
<1>3. CASE Save(s)
  <2>1. UNCHANGED <<mem, earned>> /\ torn' \in BOOLEAN
    BY <1>3 DEF Save
  <2>2. file' = NoCounts \/ \E top \in [Fields -> SUBSET Selectors] :
          file' = [f \in Fields |-> [x \in Selectors |-> IF x \in top[f] THEN mem[s][f][x] ELSE 0]]
    BY <1>3 DEF Save, kSubset
  <2>3. file' \in Counts
    BY <2>2, NoCountsType DEF LearntOK, Counts
  <2>4. QED
    BY <2>1, <2>3 DEF LearntOK
<1>4. CASE Restart(s)
  BY <1>4 DEF LearntOK, Restart
<1>5. CASE UNCHANGED learnt
  BY <1>5 DEF LearntOK, learnt
<1>6. UNCHANGED learnt \/ Verify(s) \/ Learn(s) \/ Save(s) \/ Restart(s)
  BY LearntKept
<1>7. QED
  BY <1>1, <1>2, <1>3, <1>4, <1>5, <1>6

LEMMA BoundsStep ==
  ASSUME BoundsOK, NEW s \in Sessions, Acts(s)
  PROVE  BoundsOK'
<1>1. CASE StartBatch(s) \/ StartRetry(s) \/ PageChanges(s) \/ Restart(s)
  BY <1>1, Numbers DEF BoundsOK, StartBatch, StartRetry, PageChanges, Restart
<1>2. CASE UNCHANGED bounds
  BY <1>2 DEF BoundsOK, bounds
<1>3. QED
  BY <1>1, <1>2, Zenon DEF Acts, HealStep, Leave, Locate, Fill, Click, Verify, Heal, Learn,
     Save, SaveFails,
     Check, Operate, TimePasses

LEMMA Moves == [HealNext]_healVars => UNCHANGED healVars \/ \E s \in Sessions : Acts(s)
BY DEF HealNext, Acts

LEMMA HealTypeStep == HealTypeOK /\ [HealNext]_healVars => HealTypeOK'
<1> SUFFICES ASSUME HealTypeOK, [HealNext]_healVars PROVE HealTypeOK'
  OBVIOUS
<1>0. PageOK /\ PlaceOK /\ AttemptOK /\ DoneOK /\ RetryOK /\ LearntOK /\ BoundsOK
  BY HealTypeParts
<1>1. HealTypeOK' <=> (PageOK /\ PlaceOK /\ AttemptOK /\ DoneOK /\ RetryOK /\ LearntOK /\ BoundsOK)'
  BY DEF HealTypeOK, PageOK, PlaceOK, AttemptOK, DoneOK, RetryOK, LearntOK, BoundsOK, Doing,
     Limit
<1>2. CASE UNCHANGED healVars
  BY <1>2 DEF healVars, page, local, retry, learnt, bounds, HealTypeOK
<1>3. CASE \E s \in Sessions : Acts(s)
  BY <1>0, <1>1, <1>3, PageStep, PlaceStep, AttemptStep, DoneStep, RetryStep, LearntStep,
     BoundsStep
<1>4. QED
  BY <1>2, <1>3, Moves

\* The types hold, and attempts stay within the limits of batch and retry.
THEOREM HealingTypes == HealSpec => []HealTypeOK
BY HealTypeInit, HealTypeStep, PTL DEF HealSpec

-----------------------------------------------------------------------------
(* Counts are earned                                                       *)

Counting(c) == \A f \in Fields, x \in Selectors : c[f][x] <= earned[f][x]

\* A success that is verified and not yet counted is one more.
Due == \A s \in Sessions : stage[s] = "learn" => mem[s][Target(s)][sel[s]] < earned[Target(s)][sel[s]]

EarnedInv == Due /\ CountsAreEarned

LEMMA EarnedStep ==
  ASSUME PlaceOK, LearntOK, EarnedInv, NEW s \in Sessions, Acts(s)
  PROVE  EarnedInv'
<1>0. Target(s) \in Fields /\ sel[s] \in Selectors
  BY TargetIs
<1>1. ASSUME NEW r \in Sessions, NEW f \in Fields, NEW x \in Selectors
      PROVE  mem[r][f][x] \in Nat /\ file[f][x] \in Nat /\ earned[f][x] \in Nat
  BY DEF LearntOK, Counts
<1>2. \A r \in Sessions : Target(r) \in Fields /\ sel[r] \in Selectors
  BY TargetIs
\* The session's own place, except where it comes to learn, and the others'.
<1>3. ASSUME NEW r \in Sessions, r # s PROVE Target(r)' = Target(r) /\ sel'[r] = sel[r] /\ stage'[r] = stage[r]
  <2>1. n'[r] = n[r] /\ sel'[r] = sel[r] /\ stage'[r] = stage[r]
    BY <1>3, Zenon DEF Acts, HealStep, Leave, Locate, Fill, Click, Verify, Heal, Learn, Save,
       SaveFails, Check,
       Operate, StartBatch, StartRetry, PageChanges, Restart, TimePasses, AttemptFails, EndBatch,
       Execute, TryHealed, MovesTo, Reset, local, PlaceOK
  <2>2. QED
    BY <2>1 DEF Target
\* What is left to show: more was earned, and memory and file keep within it.
<1>4. ASSUME \A f \in Fields, x \in Selectors : earned'[f][x] >= earned[f][x] /\ earned'[f][x] \in Nat,
             \A r \in Sessions, f \in Fields, x \in Selectors :
                r # s \/ stage'[s] = "learn" => mem'[r][f][x] = mem[r][f][x],
             \A f \in Fields, x \in Selectors :
                mem'[s][f][x] <= earned'[f][x] /\ file'[f][x] <= earned'[f][x],
             stage'[s] = "learn" => mem[s][Target(s)'][sel'[s]] < earned'[Target(s)'][sel'[s]]
                                 /\ Target(s)' \in Fields /\ sel'[s] \in Selectors
      PROVE  EarnedInv'
  <2>1. ASSUME NEW r \in Sessions, stage'[r] = "learn"
        PROVE  mem'[r][Target(r)'][sel'[r]] < earned'[Target(r)'][sel'[r]]
    <3>1. CASE r = s
      BY <1>4, <2>1, <3>1
    <3>2. CASE r # s
      <4>1. Target(r)' = Target(r) /\ sel'[r] = sel[r] /\ stage[r] = "learn"
        BY <1>3, <2>1, <3>2
      <4>2. mem'[r][Target(r)][sel[r]] = mem[r][Target(r)][sel[r]]
        BY <1>2, <1>4, <3>2
      <4>3. mem[r][Target(r)][sel[r]] < earned[Target(r)][sel[r]]
        BY <4>1 DEF EarnedInv, Due
      <4>4. QED
        BY <1>1, <1>2, <1>4, <4>1, <4>2, <4>3
    <3>3. QED
      BY <3>1, <3>2
  <2>2. ASSUME NEW r \in Sessions, NEW f \in Fields, NEW x \in Selectors
        PROVE  mem'[r][f][x] <= earned'[f][x]
    BY <1>1, <1>4 DEF EarnedInv, CountsAreEarned
  <2>3. QED
    BY <1>4, <2>1, <2>2 DEF EarnedInv, Due, CountsAreEarned
<1>5. CASE Verify(s)
  <2>1. UNCHANGED <<mem, file>>
    BY <1>5 DEF Verify
  <2>2. earned' = earned \/ earned' = [earned EXCEPT ![Target(s)][sel[s]] = @ + 1]
    BY <1>5 DEF Verify
  <2>3. \A f \in Fields, x \in Selectors : earned'[f][x] >= earned[f][x] /\ earned'[f][x] \in Nat
    <3>1. CASE earned' = earned
      BY <1>1, <3>1
    <3>2. CASE earned' = [earned EXCEPT ![Target(s)][sel[s]] = @ + 1]
      BY <1>0, <1>1, <3>2, OneMore DEF LearntOK
    <3>3. QED
      BY <2>2, <3>1, <3>2
  <2>4. ASSUME stage'[s] = "learn"
        PROVE  /\ Target(s)' = Target(s) /\ sel'[s] = sel[s]
               /\ earned'[Target(s)][sel[s]] = earned[Target(s)][sel[s]] + 1
    <3>1. ~AttemptFails(s)
      BY <2>4 DEF AttemptFails, EndBatch, MovesTo, PlaceOK
    <3>2. UNCHANGED <<n, sel>> /\ earned' = [earned EXCEPT ![Target(s)][sel[s]] = @ + 1]
      BY <1>5, <3>1 DEF Verify
    <3>3. QED
      BY <1>0, <1>1, <3>2 DEF Target, LearntOK, Counts
  <2>5. \A f \in Fields, x \in Selectors : mem[s][f][x] <= earned[f][x] /\ file[f][x] <= earned[f][x]
    BY DEF EarnedInv, CountsAreEarned
  <2>6. \A f \in Fields, x \in Selectors : mem'[s][f][x] <= earned'[f][x] /\ file'[f][x] <= earned'[f][x]
    BY <1>1, <2>1, <2>3, <2>5
  <2>7. stage'[s] = "learn" => mem[s][Target(s)'][sel'[s]] < earned'[Target(s)'][sel'[s]]
                            /\ Target(s)' \in Fields /\ sel'[s] \in Selectors
    <3>1. mem[s][Target(s)][sel[s]] < earned[Target(s)][sel[s]] + 1
      BY <1>0, <1>1, <2>5
    <3>2. QED
      BY <1>0, <2>4, <3>1
  <2>8. QED
    BY <1>4, <2>1, <2>3, <2>6, <2>7
<1>6. CASE Learn(s)
  <2>1. stage[s] = "learn" /\ stage'[s] # "learn" /\ UNCHANGED earned /\ file' = NoCounts
    BY <1>6 DEF Learn, MovesTo, PlaceOK
  <2>2. mem' = [mem EXCEPT ![s][Target(s)][sel[s]] = @ + 1]
    BY <1>6 DEF Learn
  <2>3. \A r \in Sessions, f \in Fields, x \in Selectors : r # s => mem'[r][f][x] = mem[r][f][x]
    BY <2>2 DEF LearntOK
  <2>4. ASSUME NEW f \in Fields, NEW x \in Selectors PROVE mem'[s][f][x] <= earned'[f][x]
    <3>1. mem'[s][f][x] = IF f = Target(s) /\ x = sel[s] THEN mem[s][f][x] + 1 ELSE mem[s][f][x]
      BY <1>0, <2>2 DEF LearntOK, Counts
    <3>2. mem[s][f][x] <= earned[f][x]
      BY DEF EarnedInv, CountsAreEarned
    <3>3. f = Target(s) /\ x = sel[s] => mem[s][f][x] < earned[f][x]
      BY <2>1 DEF EarnedInv, Due
    <3>4. QED
      BY <1>1, <2>1, <3>1, <3>2, <3>3
  <2>5. \A f \in Fields, x \in Selectors : file'[f][x] <= earned'[f][x]
    BY <1>1, <2>1 DEF NoCounts
  <2>6. QED
    BY <1>1, <1>4, <2>1, <2>3, <2>4, <2>5
<1>7. CASE Save(s)
  <2>1. stage'[s] # "learn" /\ UNCHANGED <<mem, earned>>
    BY <1>7 DEF Save, Execute, EndBatch, MovesTo, PlaceOK
  <2>2. file' = NoCounts \/ \E top \in [Fields -> SUBSET Selectors] :
          file' = [f \in Fields |-> [x \in Selectors |-> IF x \in top[f] THEN mem[s][f][x] ELSE 0]]
    BY <1>7 DEF Save, kSubset
  <2>3. \A f \in Fields, x \in Selectors : file'[f][x] = 0 \/ file'[f][x] = mem[s][f][x]
    BY <2>2 DEF NoCounts
  <2>4. \A f \in Fields, x \in Selectors : mem[s][f][x] <= earned[f][x]
    BY DEF EarnedInv, CountsAreEarned
  <2>5. \A f \in Fields, x \in Selectors : file'[f][x] <= earned'[f][x]
    BY <1>1, <2>1, <2>3, <2>4
  <2>6. QED
    BY <1>1, <1>4, <2>1, <2>4, <2>5
<1>8. CASE Restart(s)
  <2>1. stage'[s] # "learn" /\ UNCHANGED <<file, earned>> /\ mem' = [mem EXCEPT ![s] = file]
    BY <1>8 DEF Restart
  <2>2. \A f \in Fields, x \in Selectors : file[f][x] <= earned[f][x]
    BY DEF EarnedInv, CountsAreEarned
  <2>3. mem'[s] = file /\ \A r \in Sessions : r # s => mem'[r] = mem[r]
    BY <2>1 DEF LearntOK
  <2>4. QED
    BY <1>1, <1>4, <2>1, <2>2, <2>3
<1>9. CASE UNCHANGED learnt /\ ~Verify(s)
  <2>1. stage'[s] = "learn" => stage[s] = "learn" /\ UNCHANGED <<n, sel>>
    BY <1>9, Zenon DEF Acts, HealStep, Leave, Locate, Fill, Click, Heal, Learn, Save,
       SaveFails, Check, Operate,
       StartBatch, StartRetry, PageChanges, Restart, TimePasses, AttemptFails, EndBatch, Execute, TryHealed,
       MovesTo, Reset, local, PlaceOK
  <2>2. QED
    BY <1>0, <1>1, <1>4, <1>9, <2>1 DEF learnt, EarnedInv, Due, CountsAreEarned, Target
<1>10. UNCHANGED learnt \/ Verify(s) \/ Learn(s) \/ Save(s) \/ Restart(s)
  BY LearntKept
<1>11. QED
  BY <1>5, <1>6, <1>7, <1>8, <1>9, <1>10

\* No pattern, in memory or in the file, counts more than its successes.
THEOREM CountsEarned == HealSpec => []CountsAreEarned
<1>1. HealInit => EarnedInv
  <2>1. ASSUME HealInit PROVE EarnedInv
    <3>1. \A f \in Fields, x \in Selectors : NoCounts[f][x] = 0
      BY DEF NoCounts
    <3>2. \A s \in Sessions : mem[s] = NoCounts /\ stage[s] = "idle"
      BY <2>1 DEF HealInit
    <3>3. file = NoCounts /\ earned = NoCounts
      BY <2>1 DEF HealInit
    <3>4. QED
      BY <3>1, <3>2, <3>3 DEF EarnedInv, Due, CountsAreEarned
  <2>2. QED
    BY <2>1
<1>2. HealTypeOK /\ EarnedInv /\ [HealNext]_healVars => EarnedInv'
  <2>1. ASSUME HealTypeOK, EarnedInv, UNCHANGED healVars PROVE EarnedInv'
    BY <2>1 DEF EarnedInv, Due, CountsAreEarned, Target, healVars, local, learnt
  <2>2. QED
    BY <2>1, EarnedStep, HealTypeParts, Moves
<1>3. EarnedInv => CountsAreEarned
  BY DEF EarnedInv
<1>4. QED
  BY <1>1, <1>2, <1>3, HealingTypes, PTL DEF HealSpec

-----------------------------------------------------------------------------
(* Submit follows success                                                  *)

InBatch == {"locate", "act", "verify", "learn", "save", "heal"}

\* What is behind the current action was reported as filled, and the current
\* one too once it was verified.
Behind(s) == /\ stage[s] \in InBatch => \A k \in 1..(n[s] - 1) : Order[k] \in ok[s]
             /\ stage[s] \in {"learn", "save"} => Target(s) \in ok[s]
             /\ stage[s] \notin InBatch => n[s] = 1
BehindInv == (\A s \in Sessions : Behind(s)) /\ SubmitFollowsSuccess

LEMMA ElsewhereKept ==
  ASSUME PlaceOK, DoneOK, NEW s \in Sessions, Acts(s), NEW r \in Sessions, r # s
  PROVE  stage'[r] = stage[r] /\ n'[r] = n[r] /\ ok'[r] = ok[r] /\ sent'[r] = sent[r]
<1>1. stage'[r] = stage[r] /\ n'[r] = n[r]
  BY Zenon DEF Acts, HealStep, Leave, Locate, Fill, Click, Verify, Heal, Learn, Save,
     SaveFails, Check,
     Operate, StartBatch, StartRetry, PageChanges, Restart, TimePasses, AttemptFails, EndBatch,
     Execute, TryHealed, MovesTo, Reset, local, PlaceOK
<1>2. ok'[r] = ok[r] /\ sent'[r] = sent[r]
  BY Zenon DEF Acts, HealStep, Leave, Locate, Fill, Click, Verify, Heal, Learn, Save,
     SaveFails, Check,
     Operate, StartBatch, StartRetry, PageChanges, Restart, TimePasses, local, DoneOK
<1>3. QED
  BY <1>1, <1>2

\* The ways on within an action, with what was done so far.
LEMMA BehindMoves ==
  ASSUME PlaceOK, DoneOK, NEW s \in Sessions, Behind(s), ok'[s] = ok[s], stage[s] \in InBatch
  PROVE  /\ EndBatch(s) => Behind(s)'
         /\ AttemptFails(s) => Behind(s)'
         /\ UNCHANGED n /\ stage'[s] \in {"locate", "act", "verify", "heal"} => Behind(s)'
<1>1. EndBatch(s) => Behind(s)'
  BY OrderIs DEF EndBatch, MovesTo, Reset, Behind, PlaceOK, InBatch
<1>2. UNCHANGED n /\ stage'[s] \in {"locate", "act", "verify", "heal"} => Behind(s)'
  BY DEF Behind, InBatch
<1>3. AttemptFails(s) => Behind(s)'
  BY <1>1, <1>2 DEF AttemptFails, MovesTo, PlaceOK
<1>4. QED
  BY <1>1, <1>2, <1>3

LEMMA BehindStep ==
  ASSUME PlaceOK, DoneOK, BehindInv, NEW s \in Sessions, Acts(s)
  PROVE  Behind(s)'
<1>0. Behind(s) /\ stage[s] \in Doing /\ n[s] \in 1..Len(Order) /\ Len(Order) \in Nat /\ Len(Order) >= 1
  BY OrderIs DEF BehindInv, PlaceOK
<1>1. CASE Leave(s)
  BY <1>0, <1>1 DEF Leave, MovesTo, Reset, Behind, PlaceOK, InBatch
<1>2. CASE Locate(s) \/ Fill(s) \/ Click(s)
  <2>1. stage[s] \in InBatch /\ ok'[s] = ok[s]
    BY <1>2 DEF Locate, Fill, Click, InBatch
  <2>2. AttemptFails(s) \/ (UNCHANGED n /\ stage'[s] \in {"locate", "act", "verify", "heal"})
    BY <1>2 DEF Locate, Fill, Click, MovesTo, PlaceOK
  <2>3. QED
    BY <1>0, <2>1, <2>2, BehindMoves
<1>3. CASE Verify(s)
  <2>1. CASE UNCHANGED ok /\ AttemptFails(s)
    BY <1>0, <1>3, <2>1, BehindMoves DEF Verify, InBatch
  <2>2. CASE UNCHANGED n /\ MovesTo(s, "learn") /\ ok' = [ok EXCEPT ![s] = @ \cup {Target(s)}]
    BY <1>0, <1>3, <2>2 DEF Verify, MovesTo, PlaceOK, DoneOK, Behind, InBatch, Target
  <2>3. QED
    BY <1>3, <2>1, <2>2 DEF Verify
<1>4. CASE Heal(s)
  <2>1. stage[s] \in InBatch /\ ok'[s] = ok[s]
    BY <1>4 DEF Heal, InBatch
  <2>2. EndBatch(s) \/ (UNCHANGED n /\ stage'[s] = "locate")
    BY <1>4 DEF Heal, TryHealed, Execute, MovesTo, PlaceOK
  <2>3. QED
    BY <1>0, <2>1, <2>2, BehindMoves
<1>5. CASE Learn(s)
  BY <1>0, <1>5 DEF Learn, MovesTo, PlaceOK, Behind, InBatch, Target, local
<1>6. CASE Save(s)
  <2>1. stage[s] = "save" /\ ok'[s] = ok[s]
    BY <1>6 DEF Save
  <2>2. CASE EndBatch(s)
    BY <1>0, <2>1, <2>2, BehindMoves DEF InBatch
  <2>3. CASE Execute(s, "own") /\ n' = [n EXCEPT ![s] = @ + 1]
    <3>1. n'[s] = n[s] + 1 /\ stage'[s] = "locate"
      BY <2>3 DEF Execute, MovesTo, PlaceOK
    <3>2. (\A k \in 1..(n[s] - 1) : Order[k] \in ok[s]) /\ Order[n[s]] \in ok[s]
      BY <1>0, <2>1 DEF Behind, InBatch, Target
    <3>3. \A k \in 1..n[s] : Order[k] \in ok'[s]
      BY <1>0, <2>1, <3>2
    <3>4. QED
      BY <1>0, <3>1, <3>3 DEF Behind, InBatch
  <2>4. QED
    BY <1>6, <2>2, <2>3 DEF Save
<1>7. CASE SaveFails(s)
  BY <1>0, <1>7, BehindMoves DEF SaveFails, InBatch
<1>8. CASE StartBatch(s)
  BY <1>0, <1>8 DEF StartBatch, Execute, MovesTo, PlaceOK, Behind, InBatch
<1>9. CASE Check(s) \/ Operate(s) \/ StartRetry(s)
  BY <1>0, <1>9 DEF Check, Operate, StartRetry, MovesTo, PlaceOK, Behind, InBatch
<1>10. CASE PageChanges(s) \/ Restart(s) \/ TimePasses(s)
  BY <1>0, <1>10 DEF PageChanges, Restart, TimePasses, local, Behind, Target
<1>11. QED
  BY <1>1, <1>2, <1>3, <1>4, <1>5, <1>6, <1>7, <1>8, <1>9, <1>10, Zenon DEF Acts, HealStep

LEMMA SubmitStep ==
  ASSUME PlaceOK, DoneOK, BehindInv, NEW s \in Sessions, Acts(s), sent'[s]
  PROVE  Fields \ {Submit} \subseteq ok'[s]
<1>1. CASE Leave(s)
  BY <1>1 DEF Leave, DoneOK
<1>2. CASE Click(s)
  <2>1. stage[s] = "act" /\ Target(s) = Submit /\ ok' = ok
    BY <1>2 DEF Click
  <2>2. n[s] = Len(Order) /\ \A k \in 1..(n[s] - 1) : Order[k] \in ok[s]
    BY <2>1, TargetIs DEF BehindInv, Behind, InBatch
  <2>3. \A f \in Fields \ {Submit} : \E k \in 1..(Len(Order) - 1) : Order[k] = f
    BY OrderIs
  <2>4. QED
    BY <2>1, <2>2, <2>3
<1>3. CASE Verify(s)
  <2>1. ok[s] \subseteq ok'[s] /\ sent[s]
    BY <1>3 DEF Verify, DoneOK
  <2>2. QED
    BY <2>1 DEF BehindInv, SubmitFollowsSuccess
<1>4. CASE UNCHANGED <<ok, sent>>
  BY <1>4 DEF BehindInv, SubmitFollowsSuccess
<1>5. QED
  BY <1>1, <1>2, <1>3, <1>4, Zenon DEF Acts, HealStep, Locate, Fill, Heal, Learn, Save,
     SaveFails, Check,
     Operate, StartBatch, StartRetry, PageChanges, Restart, TimePasses, local

\* A batch clicks submit only after every field was reported as filled.
THEOREM SubmitIsLast == HealSpec => []SubmitFollowsSuccess
<1>1. HealInit => BehindInv
  BY DEF HealInit, BehindInv, Behind, SubmitFollowsSuccess, InBatch
<1>2. HealTypeOK /\ BehindInv /\ [HealNext]_healVars => BehindInv'
  <2>1. ASSUME HealTypeOK, BehindInv, UNCHANGED healVars PROVE BehindInv'
    BY <2>1 DEF BehindInv, Behind, SubmitFollowsSuccess, Target, healVars, local
  <2>2. ASSUME HealTypeOK, BehindInv, NEW s \in Sessions, Acts(s) PROVE BehindInv'
    <3>1. PlaceOK /\ DoneOK
      BY <2>2, HealTypeParts
    <3>2. Behind(s)' /\ (sent'[s] => Fields \ {Submit} \subseteq ok'[s])
      BY <2>2, <3>1, BehindStep, SubmitStep
    <3>3. ASSUME NEW r \in Sessions, r # s
          PROVE  Behind(r)' /\ (sent'[r] => Fields \ {Submit} \subseteq ok'[r])
      <4>1. stage'[r] = stage[r] /\ n'[r] = n[r] /\ ok'[r] = ok[r] /\ sent'[r] = sent[r]
        BY <2>2, <3>1, <3>3, ElsewhereKept
      <4>2. QED
        BY <2>2, <4>1 DEF BehindInv, Behind, SubmitFollowsSuccess, Target
    <3>4. QED
      BY <3>2, <3>3 DEF BehindInv, SubmitFollowsSuccess
  <2>3. QED
    BY <2>1, <2>2, Moves
<1>3. BehindInv => SubmitFollowsSuccess
  BY DEF BehindInv
<1>4. QED
  BY <1>1, <1>2, <1>3, HealingTypes, PTL DEF HealSpec

-----------------------------------------------------------------------------
(* Failures                                                                *)

FailureInv == FailuresAreBounded /\ \A s \in Sessions : stage[s] = "operate" => recent[s] < TooMany

LEMMA FailureStep ==
  ASSUME PlaceOK, AttemptOK, RetryOK, FailureInv, NEW s \in Sessions, Acts(s)
  PROVE  FailureInv'
<1>0. TooMany \in Nat \ {0} /\ \A r \in Sessions : recent[r] \in Nat
  BY Numbers DEF RetryOK
<1>1. CASE Check(s)
  <2>1. UNCHANGED recent /\ \A r \in Sessions : r # s => stage'[r] = stage[r]
    BY <1>1 DEF Check, MovesTo, PlaceOK
  <2>2. stage'[s] = "operate" => Escalation(s) = "none"
    BY <1>1 DEF Check, MovesTo, PlaceOK
  <2>3. Escalation(s) = "none" => recent[s] < TooMany
    <3>1. /\ attempt[s] \in Nat /\ EscalateAfter \in Nat /\ recent[s] \in Nat /\ TooMany \in Nat
          /\ conf[s] \in {"low", "mid", "high"}
      BY <1>0, Numbers DEF AttemptOK, RetryOK
    <3>2. CASE conf[s] = "low"
      BY <3>2 DEF Escalation
    <3>3. CASE conf[s] # "low" /\ attempt[s] >= EscalateAfter
      BY <3>1, <3>3 DEF Escalation
    <3>4. CASE conf[s] # "low" /\ attempt[s] < EscalateAfter
      BY <3>1, <3>4 DEF Escalation
    <3>5. QED
      BY <3>1, <3>2, <3>3, <3>4
  <2>4. QED
    BY <2>1, <2>2, <2>3 DEF FailureInv, FailuresAreBounded
<1>2. CASE Operate(s)
  <2>1. recent[s] < TooMany /\ stage'[s] # "operate"
    BY <1>2 DEF Operate, FailureInv, MovesTo, PlaceOK
  <2>2. recent'[s] \in {0, recent[s] + 1} /\ \A r \in Sessions : r # s => recent'[r] = recent[r] /\ stage'[r] = stage[r]
    BY <1>2 DEF Operate, RetryOK, MovesTo, PlaceOK
  <2>3. QED
    BY <1>0, <2>1, <2>2 DEF FailureInv, FailuresAreBounded
<1>3. CASE Restart(s) \/ TimePasses(s)
  <2>1. recent'[s] \in {0, recent[s] - 1} /\ recent'[s] >= 0 /\ \A r \in Sessions : r # s => recent'[r] = recent[r]
    BY <1>0, <1>3 DEF Restart, TimePasses, RetryOK
  <2>2. UNCHANGED stage
    BY <1>3 DEF Restart, TimePasses
  <2>3. QED
    BY <1>0, <2>1, <2>2 DEF FailureInv, FailuresAreBounded
<1>4. ASSUME UNCHANGED recent, ~Check(s) PROVE FailureInv'
  <2>1. \A r \in Sessions : stage'[r] = "operate" => stage[r] = "operate"
    BY <1>4, Zenon DEF Acts, HealStep, Leave, Locate, Fill, Click, Verify, Heal, Learn, Save,
       SaveFails,
       Operate, StartBatch, StartRetry, PageChanges, Restart, TimePasses, AttemptFails, EndBatch,
       Execute, TryHealed, MovesTo, PlaceOK
  <2>2. QED
    BY <1>4, <2>1 DEF FailureInv, FailuresAreBounded
<1>5. UNCHANGED recent \/ Check(s) \/ Operate(s) \/ Restart(s) \/ TimePasses(s)
  BY Zenon DEF Acts, HealStep, Leave, Locate, Fill, Click, Verify, Heal, Learn, Save,
     SaveFails, StartBatch,
     StartRetry, PageChanges, retry
<1>6. QED
  BY <1>1, <1>2, <1>3, <1>4, <1>5

\* No field fails more than TooMany times within the hour.
THEOREM FailuresBounded == HealSpec => []FailuresAreBounded
<1>1. HealInit => FailureInv
  BY Numbers DEF HealInit, FailureInv, FailuresAreBounded
<1>2. HealTypeOK /\ FailureInv /\ [HealNext]_healVars => FailureInv'
  <2>1. ASSUME HealTypeOK, FailureInv, UNCHANGED healVars PROVE FailureInv'
    BY <2>1 DEF FailureInv, FailuresAreBounded, healVars, retry
  <2>2. QED
    BY <2>1, FailureStep, HealTypeParts, Moves
<1>3. FailureInv => FailuresAreBounded
  BY DEF FailureInv
<1>4. QED
  BY <1>1, <1>2, <1>3, HealingTypes, PTL DEF HealSpec
=============================================================================
