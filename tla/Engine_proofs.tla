--------------------------- MODULE Engine_proofs ---------------------------
(***************************************************************************)
(* Proofs about the engine, for any settings and any number of steps.      *)
(* ApplyJob, one application: what it returns is recorded and backed, the  *)
(* reviewed form is the one that is clicked, and a skip is final.          *)
(* ToolExecutor, the executor of the plans of the LLM: what was filled     *)
(* before a plan is kept, an answer goes to its question, and an upload    *)
(* that is done is there.  The two have no definition in common.           *)
(***************************************************************************)
EXTENDS ApplyJob, ToolExecutor, TLAPS

-----------------------------------------------------------------------------
(* The site                                                                *)

LEMMA Bounds ==
  /\ AskLoops \in Nat /\ Pages \in Nat /\ SubmitTries \in Nat
  /\ MaxEmpty \in Nat /\ MaxLater \in Nat /\ MaxActs \in Nat
  /\ Landings \subseteq Shown
BY ApplyJobAssumption

LEMMA FillToType ==
  ASSUME NEW s \in Site, NEW e \in 0..MaxEmpty
  PROVE  /\ FillTo(s, e) \in Site /\ FillTo(s, e).page = s.page
         /\ FillTo(s, e).words = s.words
BY Bounds DEF FillTo, Site

LEMMA NextPagesType ==
  ASSUME NEW s \in Site, s.later > 0, NEW t \in NextPages(s)
  PROVE  t \in Site /\ t.page \in {"form", "login"} /\ t.words = s.words
<1>1. PICK p \in {"form", "login"}, c \in BOOLEAN : t = NextPage(s, p, c)
  BY DEF NextPages
<1>2. s.later - 1 \in 0..MaxLater /\ MaxEmpty \in 0..MaxEmpty
  BY Bounds DEF Site
<1>3. QED
  BY <1>1, <1>2 DEF NextPage, Site, Shown

\* A click leaves a page of the site, and a confirmation only when the
\* application is accepted.
LEMMA ClickOnType ==
  ASSUME NEW s \in Site, NEW t \in ClickOn(s)
  PROVE  /\ t \in Site /\ t.words = s.words
         /\ t.page = "done" =>
              \/ s.page = "done"
              \/ Accepts(s) /\ ~t.errors /\ s.words # "never"
<1>1. CASE s.page # "form"
  BY <1>1 DEF ClickOn
<1>2. CASE s.page = "form" /\ t = [s EXCEPT !.errors = TRUE]
  BY <1>2 DEF Site, Shown
<1>3. CASE s.page = "form" /\ s.empty = 0 /\ s.later > 0 /\ t \in NextPages(s)
  BY <1>3, NextPagesType
<1>4. CASE /\ s.page = "form" /\ Accepts(s)
           /\ t = [s EXCEPT !.errors = FALSE,
                            !.page = IF s.words = "never" THEN @ ELSE "done"]
  BY <1>4 DEF Site, Shown
<1>5. QED
  BY <1>1, <1>2, <1>3, <1>4 DEF ClickOn

LEMMA HumanTurnsType ==
  ASSUME NEW s \in Site, NEW t \in HumanTurns(s)
  PROVE  t \in Site /\ t.words = s.words /\ (t.page = "done" => s.page = "done")
<1>1. CASE t = [s EXCEPT !.check = FALSE]
  BY <1>1 DEF Site
<1>2. CASE \E e \in 0..MaxEmpty : t = FillTo(s, e)
  BY <1>2, FillToType
<1>3. CASE \E p \in {"posting", "form"} : t = [s EXCEPT !.page = p]
  BY <1>3 DEF Site, Shown
<1>4. QED
  BY <1>1, <1>2, <1>3 DEF HumanTurns

\* Where an answered handoff goes on, as alternatives.
LEMMA ResumeIs ==
  ASSUME at \in Handoffs, Resume
  PROVE  \/ at = "linkedin" /\ EndUnrecorded("submitted") /\ UNCHANGED <<site, moved, n, run>>
         \/ at = "board" /\ AfterBoard
         \/ at = "apply" /\ AfterHandoff("fill")
         \/ at = "login" /\ AfterHandoff("gate")
         \/ at = "noanswer" /\ Answered(moved \/ Plausible)
         \/ at = "fields" /\ HandoffSubmitted /\ Answered(TRUE)
         \/ at = "fields" /\ AfterHandoff("llm")
         \/ at \in {"rate", "circle", "blockers"} /\ AfterHandoff("presubmit")
         \/ at = "review" /\ Confirmed /\ AfterHandoff("settle")
         \/ at = "review" /\ AfterHandoff("submit")
         \/ at = "submit" /\ AfterHandoff("settle")
         \/ at = "unfinished" /\ AfterHandoff("after")
<1>1. CASE at \in {"linkedin", "board", "apply", "login"}
  BY <1>1 DEF Resume
<1>2. CASE at \in {"noanswer", "fields"}
  BY <1>2 DEF Resume
<1>3. CASE at \in {"rate", "circle", "blockers"}
  BY <1>3 DEF Resume
<1>4. CASE at \in {"review", "submit", "unfinished"}
  BY <1>4 DEF Resume
<1>5. QED
  BY <1>1, <1>2, <1>3, <1>4 DEF Handoffs, InApply

-----------------------------------------------------------------------------
(* What every step does to the world                                       *)

WorldOK == /\ setup \in [mode : Modes, key : BOOLEAN, landing : Landings]
           /\ site \in Site /\ sent \in 0..2 /\ moved \in BOOLEAN

\* A confirmation appears on the page only when an application is received.
WorldStep ==
  /\ site' \in Site /\ sent' \in 0..2 /\ moved' \in BOOLEAN
  /\ site'.words = site.words /\ sent' >= sent
  /\ site'.page = "done" => site.page = "done" \/ (sent' > 0 /\ site.words # "never")

LEMMA ClickMoves ==
  ASSUME WorldOK, NEW s \in Site, s.page = site.page, s.words = site.words, Click(s)
  PROVE  WorldStep
<1>1. PICK t \in ClickOn(s) :
        /\ Becomes(t)
        /\ sent' = IF Accepts(s) /\ ~t.errors /\ sent < 2 THEN sent + 1 ELSE sent
  BY DEF Click
<1>2. site' = t /\ moved' \in BOOLEAN
  BY <1>1 DEF Becomes, WorldOK
<1>3. /\ t \in Site /\ t.words = s.words
      /\ t.page = "done" => s.page = "done" \/ (Accepts(s) /\ ~t.errors /\ s.words # "never")
  BY ClickOnType
<1>4. sent' \in 0..2 /\ sent' >= sent /\ (Accepts(s) /\ ~t.errors => sent' > 0)
  BY <1>1 DEF WorldOK
<1>5. QED
  BY <1>2, <1>3, <1>4 DEF WorldStep

LEMMA BecomesMoves ==
  ASSUME WorldOK, NEW s \in Site, s.words = site.words, s.page = "done" => site.page = "done",
         Becomes(s), sent' = sent
  PROVE  WorldStep
BY DEF WorldOK, WorldStep, Becomes

LEMMA StillMoves ==
  ASSUME WorldOK, site' = site, sent' = sent, moved' \in BOOLEAN
  PROVE  WorldStep
BY DEF WorldOK, WorldStep

LEMMA SubmitMoves ==
  ASSUME WorldOK, NEW verdict \in BOOLEAN, HandlerSubmits(verdict)
  PROVE  WorldStep
<1>1. CASE site.page = "form" /\ Click(site)
  BY <1>1, ClickMoves DEF WorldOK
<1>2. CASE UNCHANGED world
  BY <1>2, StillMoves DEF world, WorldOK
<1>3. QED
  BY <1>1, <1>2 DEF HandlerSubmits

LEMMA ExecuteMoves ==
  ASSUME WorldOK, Execute
  PROVE  WorldStep
<1>1. PICK e \in 0..site.empty :
        \/ Becomes(FillTo(site, e)) /\ sent' = sent
        \/ Click(FillTo(site, e))
  BY DEF Execute
<1>2. e \in 0..MaxEmpty /\ site \in Site
  BY Bounds DEF WorldOK, Site
<1>3. /\ FillTo(site, e) \in Site /\ FillTo(site, e).page = site.page
      /\ FillTo(site, e).words = site.words
  BY <1>2, FillToType
<1>4. QED
  BY <1>1, <1>3, ClickMoves, BecomesMoves

LEMMA PageMoves ==
  ASSUME WorldOK, NEW p \in {"posting", "form", "login"}, NEW c \in BOOLEAN,
         Becomes([site EXCEPT !.page = p, !.check = c]), sent' = sent
  PROVE  WorldStep
<1>1. [site EXCEPT !.page = p, !.check = c] \in Site
  BY DEF WorldOK, Site, Shown
<1>2. QED
  BY <1>1, BecomesMoves DEF WorldOK, Site

LEMMA FillMoves ==
  ASSUME WorldOK, NEW e \in 0..site.empty, Becomes(FillTo(site, e)), sent' = sent
  PROVE  WorldStep
<1>1. e \in 0..MaxEmpty /\ site \in Site
  BY Bounds DEF WorldOK, Site
<1>2. QED
  BY <1>1, FillToType, BecomesMoves

\* The world of a step: what the browser shows keeps its words, the employer
\* loses no application, and a confirmation means one was received.
LEMMA StepMoves ==
  ASSUME WorldOK, pc = "handoff" => at \in Handoffs, Next
  PROVE  WorldStep
<1>1. CASE Step
  <2>1. CASE Land \/ DetectATS \/ FreezeInAuto \/ Iterate \/ PageDone \/ Settle
             \/ Stopped \/ Crash \/ PromptClosed \/ AnswerRetry \/ TypeSkip
             \/ Cancelled \/ PromptRaises \/ AfterUnfinished \/ Final
    <3>1. UNCHANGED world
      BY <2>1 DEF Land, DetectATS, FreezeInAuto, Iterate, PageDone, Settle, Stopped, Crash,
                  PromptClosed, AnswerRetry, TypeSkip, Cancelled, PromptRaises,
                  AfterUnfinished, Final
    <3>2. QED
      BY <3>1, StillMoves DEF world, WorldOK
  <2>2. CASE AnswerLinkedIn \/ LoginGate \/ NoPlan \/ PageHandoff \/ PreSubmit
             \/ Filled \/ Judge
    <3>1. site' = site /\ sent' = sent /\ moved' \in BOOLEAN
      BY <2>2 DEF AnswerLinkedIn, LoginGate, NoPlan, PageHandoff, PreSubmit, Filled, Judge,
                  WorldOK
    <3>2. QED
      BY <3>1, StillMoves
  <2>3. CASE PressEnter \/ SubmissionDetected
    <3>1. site' = site /\ sent' = sent /\ moved' \in BOOLEAN
      BY <2>3, ResumeIs DEF PressEnter, SubmissionDetected, AfterBoard, AfterHandoff, Answered,
                            WorldOK
    <3>2. QED
      BY <3>1, StillMoves
  <2>4. CASE Board
    <3>1. CASE site' = site /\ moved' \in BOOLEAN
      BY <2>4, <3>1, StillMoves DEF Board
    <3>2. CASE \E p \in {"posting", "form"}, c \in BOOLEAN :
                 Becomes([site EXCEPT !.page = p, !.check = c])
      BY <2>4, <3>2, PageMoves DEF Board
    <3>3. QED
      BY <2>4, <3>1, <3>2 DEF Board, WorldOK
  <2>5. CASE ClickApplyButton
    <3>1. CASE site' = site /\ moved' \in BOOLEAN
      BY <2>5, <3>1, StillMoves DEF ClickApplyButton
    <3>2. CASE \E p \in {"form", "login"}, c \in BOOLEAN :
                 Becomes([site EXCEPT !.page = p, !.check = c])
      BY <2>5, <3>2, PageMoves DEF ClickApplyButton
    <3>3. CASE Becomes(site)
      BY <2>5, <3>3, BecomesMoves DEF ClickApplyButton, WorldOK
    <3>4. QED
      BY <2>5, <3>1, <3>2, <3>3 DEF ClickApplyButton
  <2>6. CASE AnswerFreeze
    <3>1. CASE UNCHANGED <<site, moved>>
      BY <2>6, <3>1, StillMoves DEF AnswerFreeze, WorldOK
    <3>2. CASE Becomes([site EXCEPT !.check = FALSE])
      BY <2>6, <3>2, BecomesMoves DEF AnswerFreeze, WorldOK, Site
    <3>3. QED
      BY <2>6, <3>1, <3>2 DEF AnswerFreeze
  <2>7. CASE FillForm
    BY <2>7, FillMoves DEF FillForm
  <2>8. CASE PauseForFormReview
    BY <2>8, StillMoves, ClickMoves DEF PauseForFormReview, world, WorldOK
  <2>9. CASE SubmitWithoutLLM
    BY <2>9, SubmitMoves DEF SubmitWithoutLLM
  <2>10. CASE Plan
    BY <2>10, ExecuteMoves, StillMoves DEF Plan, world, WorldOK
  <2>11. CASE PlanBroken
    <3>1. PICK e \in 0..site.empty : site' = FillTo(site, e)
      BY <2>11 DEF PlanBroken
    <3>2. e \in 0..MaxEmpty /\ site \in Site
      BY Bounds DEF WorldOK, Site
    <3>3. sent' = sent /\ moved' \in BOOLEAN
      BY <2>11 DEF PlanBroken
    <3>4. QED
      <4>1. site' \in Site /\ site'.page = site.page /\ site'.words = site.words
        BY <3>1, <3>2, FillToType
      <4>2. QED
        BY <4>1, <3>3 DEF WorldStep, WorldOK
  <2>12. CASE PageAgain
    BY <2>12, ExecuteMoves DEF PageAgain
  <2>13. CASE ClickSubmit
    BY <2>13, SubmitMoves, ClickMoves, StillMoves DEF ClickSubmit, world, WorldOK
  <2>14. CASE FillFormRules
    BY <2>14, FillMoves, StillMoves DEF FillFormRules, WorldOK
  <2>15. CASE HandleMultiStep
    BY <2>15, ClickMoves DEF HandleMultiStep, WorldOK
  <2>16. CASE SubmitByRules
    BY <2>16, SubmitMoves DEF SubmitByRules
  <2>17. QED
    BY <1>1, <2>1, <2>2, <2>3, <2>4, <2>5, <2>6, <2>7, <2>8, <2>9, <2>10, <2>11, <2>12, <2>13,
       <2>14, <2>15, <2>16 DEF Step, Program, Answer
<1>2. CASE HumanActs
  <2>1. CASE \E t \in HumanTurns(site) : Becomes(t) /\ UNCHANGED sent
    BY <2>1, HumanTurnsType, BecomesMoves DEF WorldOK
  <2>2. CASE Click(site)
    BY <2>2, ClickMoves DEF WorldOK
  <2>3. QED
    BY <1>2, <2>1, <2>2 DEF HumanActs
<1>3. CASE CloseBrowser
  BY <1>3 DEF CloseBrowser, WorldOK, WorldStep, Site, Shown
<1>4. CASE RequestStop
  BY <1>4, StillMoves DEF RequestStop, world, WorldOK
<1>5. QED
  BY <1>1, <1>2, <1>3, <1>4 DEF Next

-----------------------------------------------------------------------------
(* The invariant                                                           *)

\* The parts of the type.
BookOK  == /\ stop \in BOOLEAN /\ past \subseteq Marks
           /\ row \in Finals \cup {"in_progress"} /\ result \in Finals \cup {"none", "raised"}
RunOK   == run \in Run
CountOK == n \in [Counters -> Nat]
PlaceOK == /\ pc \in Places /\ at \in Places \cup Handoffs
           /\ pc = "freeze" => at \in {"landed", "open", "button", "fill", "plan"}
           /\ pc = "handoff" => at \in Handoffs

\* Nothing is recorded before the end, and what is passed over without a
\* record is a LinkedIn page or a Workday page.
LandOK == /\ pc # "end" => row = "in_progress" /\ result = "none"
          /\ pc = "start" => site.page \in {setup.landing, "closed"}
          /\ pc = "ask" => setup.landing = "linkedin"
          /\ pc = "handoff" /\ at = "linkedin" => setup.landing = "linkedin"
          /\ ReturnedIsRecorded

\* What stands behind a SUBMITTED.
Backed == \/ past \cap {"program", "human"} # {}
          \/ site.words = "early" \/ (site.words = "right" /\ sent > 0)

\* A success of the run, and what is still to be judged, has something behind
\* it; a confirmation on the page has an application behind it.
BackOK == /\ run.ok \/ pc = "settle" \/ result = "submitted" => Backed
          /\ site.page = "done" => sent > 0 /\ site.words # "never"

\* While nobody touched the browser since the review, its form has nothing
\* missing.
ReviewOK == /\ n.seen <= n.acts
            /\ (pc = "submit" \/ (pc = "handoff" /\ at = "review")) /\ n.acts = n.seen
                 => site.empty = 0 /\ ~site.errors

\* After a skip only the end of apply_to_job is left, and no second fill.
SkipOK == run.skipped => pc \in {"filled", "final", "end"} \/ (pc = "after" /\ run.again)

IInv == WorldOK /\ BookOK /\ RunOK /\ CountOK /\ PlaceOK /\ LandOK /\ BackOK /\ ReviewOK /\ SkipOK

-----------------------------------------------------------------------------
(* What the actions do to the place, the counters and the flags            *)

\* The flags but for those of a plan's success.
RunKept == /\ run' \in Run /\ run'.ok = run.ok /\ run'.skipped = run.skipped
           /\ run'.again = run.again

LEMMA LearnIs ==
  ASSUME RunOK, Learn
  PROVE  RunKept
<1>1. PICK good \in BOOLEAN, step \in BOOLEAN :
        run' = [run EXCEPT !.good = good, !.step = @ \/ (good /\ step)]
  BY DEF Learn
<1>2. run.step \/ (good /\ step) \in BOOLEAN
  OBVIOUS
<1>3. QED
  BY <1>1, <1>2 DEF RunOK, Run, RunKept

LEMMA ResetIs ==
  ASSUME CountOK
  PROVE  /\ Reset \in [Counters -> Nat] /\ Reset.acts = n.acts /\ Reset.seen = 0
         /\ [Reset EXCEPT !.page = 1] \in [Counters -> Nat]
         /\ [Reset EXCEPT !.page = 1].acts = n.acts /\ [Reset EXCEPT !.page = 1].seen = 0
BY DEF CountOK, Counters, Reset

LEMMA FillReturnsIs ==
  ASSUME RunOK, CountOK, NEW ok \in BOOLEAN, FillReturns(ok)
  PROVE  /\ pc' = "filled" /\ at' = "start" /\ row' = row /\ result' = result
         /\ run' \in Run /\ run'.ok = ok /\ run'.skipped = run.skipped
         /\ run'.again = run.again
         /\ n' \in [Counters -> Nat] /\ n'.acts = n.acts /\ n'.seen = 0
BY ResetIs DEF RunOK, Run, FillReturns, Goto, book

LEMMA BoardIs ==
  ASSUME Board
  PROVE  /\ pc = "landed" /\ run' = run /\ past' = past
         /\ \/ Goto("open") /\ n' = n
            \/ Ask("board") /\ n' = [n EXCEPT !.board = 1]
            \/ Freeze("open") /\ n' = [n EXCEPT !.freeze = 0]
BY DEF Board

LEMMA ApplyButtonIs ==
  ASSUME ClickApplyButton
  PROVE  /\ pc = "button" /\ run' = run /\ past' = past
         /\ \/ Freeze("fill") /\ n' = [n EXCEPT !.freeze = 0]
            \/ Ask("apply") /\ n' = n
BY DEF ClickApplyButton

LEMMA PlanIs ==
  ASSUME RunOK, Plan
  PROVE  /\ pc = "plan" /\ RunKept
         /\ past' \in {past, past \cup {"program"}}
         /\ \/ Goto("llm") /\ n' = n
            \/ Goto("pages") /\ n' = [Reset EXCEPT !.page = 1]
BY LearnIs DEF Plan, Execute, RunKept, RunOK

LEMMA PlanBrokenIs ==
  ASSUME RunOK, PlanBroken
  PROVE  pc = "plan" /\ RunKept /\ Ask("fields") /\ n' = n /\ past' = past
BY LearnIs DEF PlanBroken

LEMMA PageAgainIs ==
  ASSUME RunOK, PageAgain
  PROVE  /\ pc = "pages" /\ RunKept /\ Goto("pages") /\ n' = [n EXCEPT !.page = @ + 1]
         /\ past' \in {past, past \cup {"program"}}
BY LearnIs DEF PageAgain, Execute, Count

LEMMA IterateIs ==
  ASSUME Iterate
  PROVE  /\ pc = "llm" /\ past' = past /\ site' = site
         /\ \/ Goto("pages") /\ n' = [Reset EXCEPT !.page = 1] /\ run' = run
            \/ Plausible /\ FillReturns(TRUE)
            \/ /\ Freeze("plan") /\ run' = run
               /\ n' = [n EXCEPT !.loop = n.loop + 1, !.freeze = 0]
BY DEF Iterate, world

LEMMA HumanActsIs ==
  ASSUME HumanActs
  PROVE  /\ Waiting /\ n' = [n EXCEPT !.acts = @ + 1] /\ site.page # "closed"
         /\ UNCHANGED <<pc, at, run, row, result, stop, past>>
BY DEF HumanActs, Count, book, Open

\* An answered handoff: where it goes on, and who stands behind a success.
LEMMA AnsweredIs ==
  ASSUME WorldOK, at \in Handoffs, PressEnter \/ SubmissionDetected
  PROVE  /\ pc = "handoff" /\ site' = site /\ sent' = sent
         /\ past' \in {past, past \cup {"human"}}
         /\ \/ /\ at = "linkedin" /\ EndUnrecorded("submitted") /\ n' = n /\ run' = run
               /\ "human" \in past'
            \/ /\ at = "board" /\ run' = run
               /\ \/ Ask("board") /\ n' = [n EXCEPT !.board = @ + 1]
                  \/ End("failed") /\ n' = n
                  \/ Freeze("open") /\ n' = [n EXCEPT !.freeze = 0]
            \/ \E ok \in BOOLEAN : FillReturns(ok) /\ (ok => Plausible \/ "human" \in past')
            \/ /\ at # "linkedin" /\ n' = n /\ run' = run
               /\ \E p \in {"fill", "gate", "llm", "presubmit", "after"} : Goto(p)
            \/ /\ at \in {"review", "submit"} /\ n' = n /\ run' = run
               /\ Goto("settle") /\ (Plausible \/ "human" \in past')
            \/ at = "review" /\ n' = n /\ run' = run /\ Goto("submit")
<1>1. pc = "handoff" /\ sent' = sent /\ Resume
  BY DEF PressEnter, SubmissionDetected
<1>2. past' \in {past, past \cup {"human"}} /\ (moved => "human" \in past')
  BY DEF PressEnter, SubmissionDetected
<1>3. at \in {"linkedin", "submit"} => "human" \in past'
  BY DEF PressEnter, SubmissionDetected
<1>4. CASE at = "linkedin" /\ EndUnrecorded("submitted") /\ UNCHANGED <<site, moved, n, run>>
  BY <1>1, <1>2, <1>3, <1>4
<1>5. CASE at = "board" /\ AfterBoard
  BY <1>1, <1>2, <1>5 DEF AfterBoard, Count
<1>6. CASE \/ at = "apply" /\ AfterHandoff("fill")
           \/ at = "login" /\ AfterHandoff("gate")
           \/ at = "fields" /\ AfterHandoff("llm")
           \/ at \in {"rate", "circle", "blockers"} /\ AfterHandoff("presubmit")
           \/ at = "unfinished" /\ AfterHandoff("after")
  BY <1>1, <1>2, <1>6 DEF AfterHandoff
<1>7. CASE at = "noanswer" /\ Answered(moved \/ Plausible)
  <2>1. (moved \/ Plausible) \in BOOLEAN
    OBVIOUS
  <2>2. FillReturns(moved \/ Plausible) /\ site' = site
    BY <1>7 DEF Answered
  <2>3. QED
    BY <1>1, <1>2, <2>1, <2>2
<1>8. CASE at = "fields" /\ HandoffSubmitted /\ Answered(TRUE)
  BY <1>1, <1>2, <1>8 DEF HandoffSubmitted, Confirmed, Answered
<1>9. CASE \/ at = "review" /\ Confirmed /\ AfterHandoff("settle")
           \/ at = "submit" /\ AfterHandoff("settle")
  BY <1>1, <1>2, <1>3, <1>9 DEF Confirmed, AfterHandoff
<1>10. CASE at = "review" /\ AfterHandoff("submit")
  BY <1>1, <1>2, <1>10 DEF AfterHandoff
<1>11. QED
  BY <1>1, <1>4, <1>5, <1>6, <1>7, <1>8, <1>9, <1>10, ResumeIs

\* Edits of the counters, and what they leave.
LEMMA CountEdits ==
  ASSUME CountOK
  PROVE  /\ [n EXCEPT !.loop = n.loop + 1, !.freeze = 0] \in [Counters -> Nat]
         /\ [n EXCEPT !.loop = n.loop + 1, !.freeze = 0].acts = n.acts
         /\ [n EXCEPT !.loop = n.loop + 1, !.freeze = 0].seen = n.seen
         /\ [n EXCEPT !.seen = n.acts] \in [Counters -> Nat]
         /\ [n EXCEPT !.seen = n.acts].seen = n.acts
         /\ [n EXCEPT !.seen = n.acts].acts = n.acts
<1>1. /\ n \in [Counters -> Nat] /\ n.acts \in Nat /\ n.loop + 1 \in Nat
      /\ "loop" \in Counters /\ "freeze" \in Counters /\ "seen" \in Counters
      /\ "acts" \in Counters
  BY DEF CountOK, Counters
<1>2. /\ [n EXCEPT !.loop = n.loop + 1, !.freeze = 0] \in [Counters -> Nat]
      /\ [n EXCEPT !.loop = n.loop + 1, !.freeze = 0].acts = n.acts
      /\ [n EXCEPT !.loop = n.loop + 1, !.freeze = 0].seen = n.seen
  BY <1>1
<1>3. /\ [n EXCEPT !.seen = n.acts] \in [Counters -> Nat]
      /\ [n EXCEPT !.seen = n.acts].seen = n.acts
      /\ [n EXCEPT !.seen = n.acts].acts = n.acts
  BY <1>1
<1>4. QED
  BY <1>2, <1>3

\* The review begins on a form with nothing missing.
LEMMA PreSubmitIs ==
  ASSUME RunOK, CountOK, PreSubmit
  PROVE  /\ pc = "presubmit" /\ site' = site /\ past' = past
         /\ run' \in Run /\ (run'.ok => run.ok)
         /\ run'.skipped = run.skipped /\ run'.again = run.again
         /\ n' \in [Counters -> Nat] /\ n'.acts = n.acts
         /\ \/ /\ Ask("review") /\ n'.seen = n.acts
               /\ site.empty = 0 /\ ~site.errors
            \/ Ask("blockers") /\ n'.seen = n.seen
            \/ FillReturns(FALSE) /\ n'.seen = 0
<1>1. CASE /\ RequiredFilled /\ ~ErrorsShown
           /\ run' = [run EXCEPT !.ready = TRUE] /\ Ask("review")
           /\ n' = [n EXCEPT !.seen = n.acts]
  <2>1. run' \in Run /\ run'.ok = run.ok /\ run'.skipped = run.skipped /\ run'.again = run.again
    BY <1>1 DEF RunOK, Run
  <2>2. pc' = "handoff"
    BY <1>1 DEF Ask
  <2>3. QED
    BY <1>1, <2>1, <2>2, CountEdits DEF PreSubmit, RequiredFilled, ErrorsShown
<1>2. CASE Ask("blockers") /\ Count("round") /\ UNCHANGED run
  <2>1. pc' = "handoff" /\ n' = [n EXCEPT !.round = @ + 1]
    BY <1>2 DEF Ask, Count
  <2>2. n' \in [Counters -> Nat] /\ n'.acts = n.acts /\ n'.seen = n.seen
    BY <2>1 DEF CountOK, Counters
  <2>3. QED
    BY <1>2, <2>1, <2>2 DEF PreSubmit, RunOK, Run
<1>3. CASE FillReturns(FALSE)
  BY <1>3, FillReturnsIs DEF PreSubmit
<1>4. QED
  BY <1>1, <1>2, <1>3 DEF PreSubmit

LEMMA SettleIs ==
  ASSUME Settle
  PROVE  /\ pc = "settle" /\ site' = site /\ past' = past
         /\ \E ok \in BOOLEAN : FillReturns(ok)
<1>1. (Confirmed \/ ~ErrorsShown) \in BOOLEAN
  OBVIOUS
<1>2. QED
  BY <1>1 DEF Settle, world

LEMMA ClickSubmitIs ==
  ASSUME ClickSubmit
  PROVE  /\ pc = "submit" /\ run' = run /\ n' = n
         /\ \/ Goto("settle") /\ past' = past \cup {"program"}
            \/ Ask("submit") /\ past' = past
BY DEF ClickSubmit, HandlerSubmits

LEMMA HandlerSubmitsIs ==
  ASSUME NEW verdict \in BOOLEAN, HandlerSubmits(verdict)
  PROVE  past' \in {past, past \cup {"program"}} /\ (verdict => "program" \in past')
BY DEF HandlerSubmits

LEMMA AfterUnfinishedIs ==
  ASSUME RunOK, AfterUnfinished
  PROVE  /\ pc = "after" /\ site' = site /\ sent' = sent /\ past' = past /\ n' = n
         /\ run' \in Run /\ run'.skipped = run.skipped
         /\ \/ Goto("fill") /\ ~run.ok /\ ~run'.ok /\ ~run.again /\ run'.again
            \/ Goto("final") /\ (run'.ok => run.ok \/ Plausible) /\ run'.again = run.again
<1> DEFINE ok == run.ok \/ (run.ready /\ Plausible)
<1>1. /\ pc = "after" /\ site' = site /\ sent' = sent /\ past' = past /\ n' = n
      /\ \/ Goto("fill") /\ ~ok /\ ~run.again /\ run' = [run EXCEPT !.again = TRUE]
         \/ Goto("final") /\ run' = [run EXCEPT !.ok = ok \/ Plausible]
  BY DEF AfterUnfinished, world
<1>2. (ok \/ Plausible) \in BOOLEAN /\ run \in Run
  BY DEF RunOK
<1>3. QED
  BY <1>1, <1>2 DEF Run

-----------------------------------------------------------------------------
(* The types are kept                                                      *)

\* The flags.
LEMMA RunKeeps ==
  ASSUME IInv, WorldStep, Step
  PROVE  RunOK'
<1> USE DEF IInv, RunOK, Run
<1>1. CASE Land \/ DetectATS \/ FreezeInAuto \/ AnswerFreeze \/ AnswerLinkedIn
  BY <1>1, FillReturnsIs DEF Land, DetectATS, FreezeInAuto, AnswerFreeze, AnswerLinkedIn,
     FreezeFails
<1>2. CASE Board \/ ClickApplyButton
  BY <1>2, BoardIs, ApplyButtonIs
<1>3. CASE FillForm \/ PauseForFormReview \/ SubmitWithoutLLM \/ AnswerRetry
  BY <1>3, FillReturnsIs DEF FillForm, PauseForFormReview, SubmitWithoutLLM, AnswerRetry,
                             LastAttemptFailed
<1>4. CASE LoginGate \/ NoPlan \/ PageDone \/ PageHandoff
  BY <1>4, FillReturnsIs DEF LoginGate, NoPlan, PageDone, PageHandoff
<1>5. CASE Iterate \/ Plan \/ PlanBroken \/ PageAgain
  BY <1>5, IterateIs, FillReturnsIs, PlanIs, PlanBrokenIs, PageAgainIs DEF RunKept
<1>6. CASE PreSubmit \/ ClickSubmit \/ Settle
  BY <1>6, PreSubmitIs, ClickSubmitIs, SettleIs, FillReturnsIs
<1>7. CASE PressEnter \/ SubmissionDetected
  <2>1. pc = "handoff"
    BY <1>7 DEF PressEnter, SubmissionDetected
  <2>2. at \in Handoffs
    BY <2>1 DEF PlaceOK
  <2>3. CASE \E ok \in BOOLEAN : FillReturns(ok)
    BY <2>3, FillReturnsIs
  <2>4. CASE run' = run
    BY <2>4
  <2>5. QED
    BY <1>7, <2>2, <2>3, <2>4, AnsweredIs
<1>8. CASE TypeSkip \/ Cancelled
  BY <1>8 DEF TypeSkip, Cancelled
<1>9. CASE Filled \/ FillFormRules \/ HandleMultiStep \/ Judge \/ Final
  BY <1>9 DEF Filled, FillFormRules, HandleMultiStep, Judge, Final
<1>10. CASE SubmitByRules
  <2>1. Plausible' \in BOOLEAN
    BY DEF Plausible
  <2>2. run' \in {run, [run EXCEPT !.ok = Plausible']}
    BY <1>10 DEF SubmitByRules
  <2>3. QED
    BY <2>1, <2>2
<1>11. CASE AfterUnfinished
  BY <1>11, AfterUnfinishedIs
<1>12. CASE Stopped \/ Crash \/ PromptRaises \/ PromptClosed
  BY <1>12, FillReturnsIs DEF Stopped, Crash, PromptRaises, PromptClosed
<1>13. QED
  BY <1>1, <1>2, <1>3, <1>4, <1>5, <1>6, <1>7, <1>8, <1>9, <1>10, <1>11, <1>12
     DEF Step, Program, Answer

\* The counters.
LEMMA CountKeeps ==
  ASSUME IInv, WorldStep, Step
  PROVE  CountOK'
<1> USE DEF IInv, CountOK, Counters
<1>1. CASE Land \/ DetectATS \/ FreezeInAuto \/ AnswerFreeze \/ AnswerLinkedIn
  BY <1>1 DEF Land, DetectATS, FreezeInAuto, AnswerFreeze, AnswerLinkedIn, FreezeFails,
              FillReturns, Reset, Count
<1>2. CASE Board \/ ClickApplyButton
  BY <1>2, BoardIs, ApplyButtonIs
<1>3. CASE FillForm \/ PauseForFormReview \/ SubmitWithoutLLM \/ AnswerRetry
  BY <1>3 DEF FillForm, PauseForFormReview, SubmitWithoutLLM, AnswerRetry, LastAttemptFailed,
              HandlerSubmits, FillReturns, Reset, Count
<1>4. CASE LoginGate \/ NoPlan \/ PageDone \/ PageHandoff
  BY <1>4 DEF LoginGate, NoPlan, PageDone, PageHandoff, FillReturns, Reset, Count
<1>5. CASE Iterate
  <2>1. CASE FillReturns(TRUE)
    BY <2>1, FillReturnsIs
  <2>2. CASE n' = [Reset EXCEPT !.page = 1]
    BY <2>2, ResetIs
  <2>3. CASE n' = [n EXCEPT !.loop = n.loop + 1, !.freeze = 0]
    BY <2>3, CountEdits
  <2>4. QED
    BY <1>5, <2>1, <2>2, <2>3, IterateIs
<1>6. CASE Plan \/ PlanBroken \/ PageAgain
  BY <1>6, PlanIs, PlanBrokenIs, PageAgainIs, ResetIs
<1>7. CASE PreSubmit \/ ClickSubmit \/ Settle
  BY <1>7, PreSubmitIs, ClickSubmitIs, SettleIs, FillReturnsIs
<1>8. CASE PressEnter \/ SubmissionDetected
  <2>1. pc = "handoff"
    BY <1>8 DEF PressEnter, SubmissionDetected
  <2>2. at \in Handoffs
    BY <2>1 DEF PlaceOK
  <2>3. CASE \E ok \in BOOLEAN : FillReturns(ok)
    BY <2>3, FillReturnsIs
  <2>4. CASE n' \in {n, [n EXCEPT !.board = @ + 1], [n EXCEPT !.freeze = 0]}
    BY <2>4
  <2>5. QED
    BY <1>8, <2>2, <2>3, <2>4, AnsweredIs
<1>9. CASE TypeSkip \/ Cancelled
  BY <1>9 DEF TypeSkip, Cancelled, Reset
<1>10. CASE \/ Filled \/ FillFormRules \/ HandleMultiStep \/ SubmitByRules \/ Judge
            \/ AfterUnfinished \/ Final
  BY <1>10 DEF Filled, FillFormRules, HandleMultiStep, SubmitByRules, Judge, AfterUnfinished,
               Final, HandlerSubmits, Count
<1>11. CASE Stopped \/ Crash \/ PromptRaises \/ PromptClosed
  BY <1>11 DEF Stopped, Crash, PromptRaises, PromptClosed, FillReturns, Reset
<1>12. QED
  BY <1>1, <1>2, <1>3, <1>4, <1>5, <1>6, <1>7, <1>8, <1>9, <1>10, <1>11
    DEF Step, Program, Answer

\* The places, the record and what a skip leaves.
Control == BookOK /\ PlaceOK /\ SkipOK /\ LandOK

LEMMA ControlKeeps ==
  ASSUME IInv, WorldStep, Step, UNCHANGED setup
  PROVE  Control'
<1> USE DEF IInv, Control, BookOK, Finals, Marks, PlaceOK, Places, Handoffs, InApply, InFill,
            LandOK, ReturnedIsRecorded, SkipOK, WorldStep, RunOK, Run, RunKept, CountOK,
            book, world, InAuto, Goto, End, EndUnrecorded, Ask, Freeze, Raise
<1>1. UNCHANGED stop
  BY DEF Step
<1>2. CASE Land \/ DetectATS \/ FreezeInAuto \/ AnswerFreeze \/ AnswerLinkedIn
  BY <1>1, <1>2 DEF Land, DetectATS, FreezeInAuto, AnswerFreeze, AnswerLinkedIn, FreezeFails,
                    FillReturns
<1>3. CASE Board \/ ClickApplyButton
  BY <1>1, <1>3, BoardIs, ApplyButtonIs
<1>4. CASE FillForm \/ PauseForFormReview \/ SubmitWithoutLLM \/ AnswerRetry
  BY <1>1, <1>4 DEF FillForm, PauseForFormReview, SubmitWithoutLLM, AnswerRetry,
                    LastAttemptFailed, FillReturns, HandlerSubmits
<1>5. CASE LoginGate \/ NoPlan \/ PageDone \/ PageHandoff
  BY <1>1, <1>5 DEF LoginGate, NoPlan, PageDone, PageHandoff, FillReturns
<1>6. CASE Iterate \/ Plan \/ PlanBroken \/ PageAgain
  BY <1>1, <1>6, IterateIs, FillReturnsIs, PlanIs, PlanBrokenIs, PageAgainIs
<1>7. CASE PreSubmit \/ ClickSubmit \/ Settle
  BY <1>1, <1>7, PreSubmitIs, ClickSubmitIs, SettleIs, FillReturnsIs
<1>8. CASE PressEnter \/ SubmissionDetected
  <2>1. pc = "handoff"
    BY <1>8 DEF PressEnter, SubmissionDetected
  <2>2. at \in Handoffs
    BY <2>1 DEF PlaceOK
  <2>3. past' \in {past, past \cup {"human"}} /\ run' \in Run /\ ~run'.skipped
    BY <1>8, <2>1, <2>2, AnsweredIs, FillReturnsIs
  <2>4. CASE \E ok \in BOOLEAN : FillReturns(ok)
    BY <1>1, <2>1, <2>3, <2>4, FillReturnsIs
  <2>5. CASE \E p \in {"fill", "gate", "llm", "presubmit", "after"} : Goto(p)
    BY <1>1, <2>1, <2>3, <2>5
  <2>6. CASE at = "linkedin" /\ EndUnrecorded("submitted")
    BY <1>1, <2>1, <2>3, <2>6
  <2>7. CASE \/ Ask("board") \/ End("failed") \/ Freeze("open")
             \/ Goto("settle") \/ Goto("submit")
    BY <1>1, <2>1, <2>3, <2>7
  <2>8. QED
    BY <1>8, <2>2, <2>4, <2>5, <2>6, <2>7, AnsweredIs
<1>9. CASE TypeSkip \/ Cancelled
  BY <1>1, <1>9 DEF TypeSkip, Cancelled
<1>10. CASE \/ Filled \/ FillFormRules \/ HandleMultiStep \/ SubmitByRules \/ Judge
            \/ AfterUnfinished \/ Final
  BY <1>1, <1>10 DEF Filled, FillFormRules, HandleMultiStep, SubmitByRules, Judge,
                     AfterUnfinished, Final, HandlerSubmits
<1>11. CASE Stopped \/ Crash \/ PromptRaises \/ PromptClosed
  BY <1>1, <1>11 DEF Stopped, Crash, PromptRaises, PromptClosed, FillReturns
<1>12. QED
  BY <1>2, <1>3, <1>4, <1>5, <1>6, <1>7, <1>8, <1>9, <1>10, <1>11 DEF Step, Program, Answer

\* A click that was reviewed is made on the form the review was about.
LEMMA ReviewKeeps ==
  ASSUME IInv, Step
  PROVE  ReviewOK'
<1> USE DEF IInv, ReviewOK, PlaceOK, book, Goto, End, EndUnrecorded, Ask, Freeze, Raise
<1>1. CASE Land \/ DetectATS \/ FreezeInAuto \/ AnswerFreeze \/ AnswerLinkedIn
  BY <1>1 DEF Land, DetectATS, FreezeInAuto, AnswerFreeze, AnswerLinkedIn, FreezeFails,
              FillReturns, Reset, Count, CountOK, Counters
<1>2. CASE Board \/ ClickApplyButton
  BY <1>2, BoardIs, ApplyButtonIs DEF CountOK, Counters
<1>3. CASE FillForm \/ PauseForFormReview \/ SubmitWithoutLLM \/ AnswerRetry
  BY <1>3 DEF FillForm, PauseForFormReview, SubmitWithoutLLM, AnswerRetry, LastAttemptFailed,
              HandlerSubmits, FillReturns, Reset, Count, CountOK, Counters
<1>4. CASE LoginGate \/ NoPlan \/ PageDone \/ PageHandoff
  BY <1>4 DEF LoginGate, NoPlan, PageDone, PageHandoff, FillReturns, Reset, Count, CountOK,
              Counters
<1>5. CASE Iterate
  <2>1. pc' \notin {"submit", "handoff"}
    BY <1>5, IterateIs, FillReturnsIs
  <2>2. n'.seen \in {0, n.seen} /\ n'.acts = n.acts
    BY <1>5, IterateIs, FillReturnsIs, ResetIs, CountEdits
  <2>3. QED
    BY <2>1, <2>2 DEF CountOK, Counters
<1>6. CASE Plan \/ PlanBroken \/ PageAgain
  BY <1>6, PlanIs, PlanBrokenIs, PageAgainIs, ResetIs DEF CountOK, Counters
<1>7. CASE PreSubmit \/ ClickSubmit \/ Settle
  <2>1. n.acts \in Nat
    BY DEF CountOK, Counters
  <2>2. CASE PreSubmit
    <3>1. n'.acts = n.acts /\ site' = site
      BY <2>2, PreSubmitIs
    <3>2. \/ n'.seen = n.acts /\ site.empty = 0 /\ ~site.errors
          \/ n'.seen \in {0, n.seen} /\ pc' # "submit" /\ (pc' = "handoff" => at' = "blockers")
      BY <2>2, PreSubmitIs, FillReturnsIs
    <3>3. QED
      BY <2>1, <3>1, <3>2
  <2>3. CASE ClickSubmit \/ Settle
    BY <2>1, <2>3, ClickSubmitIs, SettleIs, FillReturnsIs
  <2>4. QED
    BY <1>7, <2>2, <2>3
<1>8. CASE PressEnter \/ SubmissionDetected
  <2>1. pc = "handoff"
    BY <1>8 DEF PressEnter, SubmissionDetected
  <2>2. at \in Handoffs /\ n.acts \in Nat
    BY <2>1 DEF CountOK, Counters
  <2>3. site' = site
    BY <1>8, <2>2, AnsweredIs
  <2>4. CASE \E ok \in BOOLEAN : FillReturns(ok)
    BY <2>2, <2>4, FillReturnsIs
  <2>5. CASE n' = n /\ \E p \in {"fill", "gate", "llm", "presubmit", "after"} : Goto(p)
    BY <2>5
  <2>6. CASE \/ n' = n /\ (EndUnrecorded("submitted") \/ End("failed") \/ Goto("settle"))
             \/ n' = [n EXCEPT !.board = @ + 1] /\ Ask("board")
             \/ n' = [n EXCEPT !.freeze = 0] /\ Freeze("open")
    BY <2>6 DEF CountOK, Counters
  <2>7. CASE at = "review" /\ n' = n /\ Goto("submit")
    BY <2>1, <2>3, <2>7
  <2>8. QED
    BY <1>8, <2>2, <2>4, <2>5, <2>6, <2>7, AnsweredIs
<1>9. CASE TypeSkip \/ Cancelled
  BY <1>9 DEF TypeSkip, Cancelled, Reset, CountOK, Counters
<1>10. CASE \/ Filled \/ FillFormRules \/ HandleMultiStep \/ SubmitByRules \/ Judge
            \/ AfterUnfinished \/ Final
  BY <1>10 DEF Filled, FillFormRules, HandleMultiStep, SubmitByRules, Judge, AfterUnfinished,
               Final, HandlerSubmits, Count, CountOK, Counters
<1>11. CASE Stopped \/ Crash \/ PromptRaises \/ PromptClosed
  BY <1>11 DEF Stopped, Crash, PromptRaises, PromptClosed, FillReturns, Reset, CountOK, Counters
<1>12. QED
  BY <1>1, <1>2, <1>3, <1>4, <1>5, <1>6, <1>7, <1>8, <1>9, <1>10, <1>11
    DEF Step, Program, Answer

\* What was shown or done does not go away.
LEMMA BackedStays ==
  ASSUME WorldOK, WorldStep, Backed, past \subseteq past'
  PROVE  Backed'
BY DEF WorldOK, WorldStep, Backed

LEMMA PlausibleBacks ==
  ASSUME WorldOK, BackOK, Plausible
  PROVE  Backed
BY DEF WorldOK, BackOK, Plausible, Backed, Site

LEMMA PastGrows ==
  ASSUME IInv, Next
  PROVE  past \subseteq past'
<1>1. CASE Step
  <2>1. CASE \/ Land \/ AnswerLinkedIn \/ Board \/ DetectATS \/ ClickApplyButton
             \/ FreezeInAuto \/ AnswerFreeze
    BY <2>1 DEF Land, AnswerLinkedIn, Board, DetectATS, ClickApplyButton, FreezeInAuto,
                AnswerFreeze
  <2>2. CASE \/ FillForm \/ PauseForFormReview \/ SubmitWithoutLLM \/ AnswerRetry \/ LoginGate
             \/ Iterate \/ NoPlan \/ PlanBroken \/ PageDone \/ PageHandoff
    BY <2>2 DEF FillForm, PauseForFormReview, SubmitWithoutLLM, HandlerSubmits, AnswerRetry,
                LastAttemptFailed, LoginGate, Iterate, NoPlan, PlanBroken, PageDone, PageHandoff
  <2>3. CASE Plan \/ PageAgain \/ PreSubmit \/ ClickSubmit \/ Settle
    BY <2>3, PlanIs, PageAgainIs, ClickSubmitIs DEF PreSubmit, Settle, IInv
  <2>4. CASE PressEnter \/ SubmissionDetected \/ TypeSkip \/ Cancelled
    BY <2>4 DEF PressEnter, SubmissionDetected, TypeSkip, Cancelled
  <2>5. CASE \/ Filled \/ FillFormRules \/ HandleMultiStep \/ SubmitByRules \/ Judge
             \/ AfterUnfinished \/ Final \/ Stopped \/ Crash \/ PromptRaises \/ PromptClosed
    BY <2>5 DEF Filled, FillFormRules, HandleMultiStep, SubmitByRules, HandlerSubmits, Judge,
                AfterUnfinished, Final, Stopped, Crash, PromptRaises, PromptClosed
  <2>6. QED
    BY <1>1, <2>1, <2>2, <2>3, <2>4, <2>5 DEF Step, Program, Answer
<1>2. CASE HumanActs \/ CloseBrowser \/ RequestStop
  BY <1>2 DEF HumanActs, CloseBrowser, RequestStop
<1>3. QED
  BY <1>1, <1>2 DEF Next

\* A success that comes up in a step has something behind it after the step.
LEMMA BackKeeps ==
  ASSUME IInv, WorldStep, Step, UNCHANGED setup
  PROVE  BackOK'
<1>1. site'.page = "done" => sent' > 0 /\ site'.words # "never"
  BY DEF IInv, BackOK, WorldOK, WorldStep
<1>2. CASE Backed
  <2>1. past \subseteq past'
    BY PastGrows DEF Next
  <2>2. Backed'
    BY <1>2, <2>1, BackedStays DEF IInv
  <2>3. QED
    BY <1>1, <2>2 DEF BackOK
<1>3. ASSUME ~Backed, run'.ok \/ pc' = "settle" \/ result' = "submitted"
      PROVE  Backed'
  <2> USE DEF IInv, book, Goto, End, EndUnrecorded, Ask, Freeze, Raise
  <2>1. ~run.ok /\ pc # "settle" /\ result # "submitted" /\ ~Plausible
    BY <1>3, PlausibleBacks DEF BackOK
  <2>2. "program" \in past' \/ "human" \in past' => Backed'
    BY DEF Backed
  <2>3. CASE \/ Land \/ AnswerLinkedIn \/ DetectATS \/ FreezeInAuto \/ AnswerFreeze
    BY <1>3, <2>1, <2>3, FillReturnsIs DEF Land, AnswerLinkedIn, DetectATS, FreezeInAuto,
                                           AnswerFreeze, FreezeFails, PlaceOK
  <2>4. CASE Board \/ ClickApplyButton
    BY <1>3, <2>1, <2>4, BoardIs, ApplyButtonIs
  <2>5. CASE FillForm \/ PauseForFormReview \/ SubmitWithoutLLM \/ AnswerRetry
    BY <1>3, <2>1, <2>2, <2>5 DEF FillForm, PauseForFormReview, SubmitWithoutLLM, AnswerRetry,
                                  LastAttemptFailed, HandlerSubmits
  <2>6. CASE LoginGate \/ NoPlan \/ PageDone \/ PageHandoff
    BY <1>3, <2>1, <2>6, FillReturnsIs DEF LoginGate, NoPlan, PageDone, PageHandoff
  <2>7. CASE Iterate \/ Plan \/ PlanBroken \/ PageAgain
    BY <1>3, <2>1, <2>7, IterateIs, PlanIs, PlanBrokenIs, PageAgainIs DEF RunKept
  <2>8. CASE PreSubmit \/ ClickSubmit
    BY <1>3, <2>1, <2>2, <2>8, PreSubmitIs, ClickSubmitIs, FillReturnsIs
  <2>9. CASE PressEnter \/ SubmissionDetected
    <3>1. at \in Handoffs
      BY <2>9 DEF PressEnter, SubmissionDetected, PlaceOK
    <3>2. CASE \E ok \in BOOLEAN : FillReturns(ok) /\ (ok => Plausible \/ "human" \in past')
      BY <1>3, <2>1, <2>2, <3>2, FillReturnsIs
    <3>3. CASE run' = run /\ \E p \in {"fill", "gate", "llm", "presubmit", "after"} : Goto(p)
      BY <1>3, <2>1, <3>3
    <3>4. CASE "human" \in past'
      BY <2>2, <3>4
    <3>5. CASE /\ run' = run
               /\ Ask("board") \/ End("failed") \/ Freeze("open") \/ Goto("submit")
      BY <1>3, <2>1, <3>5
    <3>6. QED
      BY <2>1, <2>9, <3>1, <3>2, <3>3, <3>4, <3>5, AnsweredIs
  <2>10. CASE TypeSkip \/ Cancelled
    BY <1>3, <2>1, <2>10 DEF TypeSkip, Cancelled, RunOK, Run
  <2>11. CASE Filled \/ FillFormRules \/ HandleMultiStep \/ Judge
    BY <1>3, <2>1, <2>11 DEF Filled, FillFormRules, HandleMultiStep, Judge, RunOK, Run
  <2>12. CASE SubmitByRules
    BY <1>3, <2>1, <2>2, <2>12 DEF SubmitByRules, HandlerSubmits
  <2>13. CASE AfterUnfinished \/ Final
    BY <1>3, <2>1, <2>13, AfterUnfinishedIs DEF Final
  <2>14. CASE Stopped \/ Crash \/ PromptRaises \/ PromptClosed
    BY <1>3, <2>1, <2>14, FillReturnsIs DEF Stopped, Crash, PromptRaises, PromptClosed
  <2>15. QED
    BY <2>1, <2>3, <2>4, <2>5, <2>6, <2>7, <2>8, <2>9, <2>10, <2>11, <2>12, <2>13, <2>14
       DEF Step, Program, Answer, Settle
<1>4. QED
  BY <1>1, <1>2, <1>3 DEF BackOK

-----------------------------------------------------------------------------
(* The human, the browser and the stop from outside                        *)

LEMMA OutsideKeeps ==
  ASSUME IInv, WorldStep, HumanActs \/ CloseBrowser \/ RequestStop, UNCHANGED setup
  PROVE  IInv'
<1>1. /\ UNCHANGED <<pc, at, run, row, result, past>> /\ stop' \in BOOLEAN
      /\ n' = [n EXCEPT !.acts = @ + 1]
      /\ site'.page = site.page \/ site'.page = "closed" \/ pc # "start"
  BY HumanActsIs DEF CloseBrowser, RequestStop, Count, book, world, Waiting, IInv, BookOK,
     WorldOK,
                     Site
<1>2. n' \in [Counters -> Nat] /\ n'.acts = n.acts + 1 /\ n'.seen = n.seen
      /\ n.acts \in Nat /\ n.seen \in Nat
  BY <1>1 DEF IInv, CountOK, Counters
<1>3. WorldOK' /\ BookOK' /\ RunOK' /\ CountOK' /\ PlaceOK'
  BY <1>1, <1>2 DEF IInv, WorldOK, WorldStep, BookOK, RunOK, CountOK, PlaceOK
<1>4. LandOK' /\ SkipOK'
  BY <1>1 DEF IInv, LandOK, SkipOK, ReturnedIsRecorded
<1>5. ReviewOK'
  BY <1>1, <1>2 DEF IInv, ReviewOK
<1>6. BackOK'
  <2>1. Backed => Backed'
    BY <1>1, BackedStays DEF IInv
  <2>2. QED
    BY <1>1, <2>1 DEF IInv, BackOK, WorldOK, WorldStep
<1>7. QED
  BY <1>3, <1>4, <1>5, <1>6 DEF IInv

-----------------------------------------------------------------------------
(* The theorems                                                            *)

LEMMA InitIInv == Init => IInv
<1> SUFFICES ASSUME Init PROVE IInv
  OBVIOUS
<1>1. WorldOK /\ site.page # "done"
  <2>1. setup.landing # "done" /\ site.page = setup.landing
    BY ApplyJobAssumption DEF Init
  <2>2. sent = 0 /\ moved = FALSE
    BY DEF Init
  <2>3. moved \in BOOLEAN
    BY <2>2
  <2>4. QED
    BY <2>1, <2>2, <2>3 DEF Init, WorldOK
<1>2. BookOK /\ RunOK /\ CountOK /\ PlaceOK
  BY DEF Init, BookOK, RunOK, Run, CountOK, Counters, PlaceOK, Places, Finals
<1>3. LandOK /\ BackOK /\ ReviewOK /\ SkipOK
  BY <1>1 DEF Init, LandOK, ReturnedIsRecorded, Finals, BackOK, ReviewOK, Counters, SkipOK
<1>4. QED
  BY <1>1, <1>2, <1>3 DEF IInv

LEMMA NextIInv == IInv /\ [Next]_vars => IInv'
<1> SUFFICES ASSUME IInv, [Next]_vars PROVE IInv'
  OBVIOUS
<1>1. CASE UNCHANGED vars
  BY <1>1 DEF vars, world, book, IInv, WorldOK, BookOK, RunOK, CountOK, PlaceOK, LandOK, BackOK,
              Backed, ReviewOK, SkipOK, ReturnedIsRecorded
<1>2. CASE Next
  <2>1. WorldStep /\ UNCHANGED setup
    BY <1>2, StepMoves DEF IInv, PlaceOK, Next
  <2>2. CASE Step
    <3>1. WorldOK'
      BY <2>1 DEF IInv, WorldOK, WorldStep
    <3>2. QED
      BY <2>1, <2>2, <3>1, RunKeeps, CountKeeps, ControlKeeps, ReviewKeeps, BackKeeps
         DEF IInv, Control
  <2>3. QED
    BY <1>2, <2>1, <2>2, OutsideKeeps DEF Next
<1>3. QED
  BY <1>1, <1>2

\* The types, the record, the backing, the review and the skip together.
THEOREM ApplyJobInvariant == Spec => []IInv
BY InitIInv, NextIInv, PTL DEF Spec

\* Every variable of an application keeps its type, for any number of
\* iterations, pages, attempts and acts.
THEOREM ApplyJobTypes == Spec => []TypeOK
<1>1. IInv => TypeOK
  BY DEF IInv, WorldOK, BookOK, RunOK, CountOK, PlaceOK, TypeOK
<1>2. QED
  BY <1>1, ApplyJobInvariant, PTL

\* The click after the review meets the form that was reviewed, with nothing
\* missing, unless somebody touched the browser in between.
THEOREM ClickIsComplete == Spec => []CompleteUnlessTouched
<1>1. IInv => CompleteUnlessTouched
  BY DEF IInv, ReviewOK, CompleteUnlessTouched
<1>2. QED
  BY <1>1, ApplyJobInvariant, PTL

\* No path through the fill loop, the handoffs and the rules returns SUBMITTED
\* without a click of the program, an act of the human or a confirmation.
THEOREM SubmittedHasBacking == Spec => []SubmittedIsBacked
<1>1. IInv => SubmittedIsBacked
  BY DEF IInv, BackOK, Backed, SubmittedIsBacked
<1>2. QED
  BY <1>1, ApplyJobInvariant, PTL

\* Whatever ends an application, the status it returns is the one in the table,
\* except where LinkedIn or Workday is passed over.
THEOREM ReturnIsRecorded == Spec => []ReturnedIsRecorded
<1>1. IInv => ReturnedIsRecorded
  BY DEF IInv, LandOK
<1>2. QED
  BY <1>1, ApplyJobInvariant, PTL

\* After the human typed skip no action of the program reaches the employer.
THEOREM SkipIsFinal == Spec => NothingAfterSkip
<1>1. ASSUME IInv, Program, run.skipped
      PROVE  sent' = sent
  <2>1. pc \in {"filled", "final", "end"} \/ (pc = "after" /\ run.again)
    BY <1>1 DEF IInv, SkipOK
  <2>2. CASE Filled \/ Final \/ AfterUnfinished \/ Stopped \/ Crash \/ PromptClosed
    BY <2>2 DEF Filled, Final, AfterUnfinished, Stopped, Crash, PromptClosed, world
  <2>3. CASE \/ Land \/ Board \/ DetectATS \/ ClickApplyButton \/ FreezeInAuto \/ FillForm
             \/ PauseForFormReview \/ SubmitWithoutLLM \/ LoginGate \/ Iterate \/ NoPlan \/ Plan
             \/ PlanBroken
    BY <2>1, <2>3 DEF Land, Board, DetectATS, ClickApplyButton, FreezeInAuto, FillForm,
                      PauseForFormReview, SubmitWithoutLLM, LoginGate, Iterate, NoPlan, Plan,
                      PlanBroken
  <2>4. CASE \/ PageDone \/ PageHandoff \/ PageAgain \/ PreSubmit \/ ClickSubmit \/ Settle
             \/ SubmissionDetected \/ FillFormRules \/ HandleMultiStep \/ SubmitByRules \/ Judge
    BY <2>1, <2>4 DEF PageDone, PageHandoff, PageAgain, PreSubmit, ClickSubmit, Settle,
                      SubmissionDetected, FillFormRules, HandleMultiStep, SubmitByRules, Judge
  <2>5. QED
    BY <1>1, <2>2, <2>3, <2>4 DEF Program
<1>2. IInv /\ [Next]_vars => [Program /\ run.skipped => sent' = sent]_vars
  BY <1>1
<1>3. QED
  BY <1>2, ApplyJobInvariant, PTL DEF Spec, NothingAfterSkip

-----------------------------------------------------------------------------
(* The executor of plans                                                   *)

LEMMA ToolSettings ==
  /\ Alike \in [Fields -> SUBSET Fields] /\ MaxActions \in Nat \ {0} /\ MaxPlans \in Nat /\ MaxTouches \in Nat
  /\ TitleScore \in [Questions -> [Questions -> 0..3]] /\ \A q \in Questions : TitleScore[q][q] = 3
  /\ Layouts \subseteq Layout
  /\ Place \in [Questions -> Nat] /\ \A q, p \in Questions : q # p => Place[q] # Place[p]
BY ToolExecutorAssumption

LEMMA ActionsAre ==
  /\ \A a \in Actions : a # NoAction
  /\ \A a \in Actions : a.kind = "upload" => a.on \in Slots /\ a.what \in Files
  /\ \A a \in Actions : a.kind = "fill" => a.on \in Fields
  /\ \A a \in Actions, f \in Fields : a.kind = "fill" => [a EXCEPT !.on = f] \in Actions
  /\ \A a \in Actions, f \in Fields :
       a.kind = "fill" => [a EXCEPT !.on = f].kind = "fill" /\ [a EXCEPT !.on = f].on = f
BY DEF Actions, NoAction

-----------------------------------------------------------------------------
(* Types                                                                   *)

\* What the executor does fits the action it has.
Stage ==
  /\ doing = "type" => act.kind = "fill"
  /\ doing \in {"radio", "pair", "plain"} => act.kind \in {"select", "click"}
  /\ doing \in {"upload", "attach"} => act.kind = "upload"

FormOK == /\ val \in [Fields -> {"empty", "theirs", "mine", "wrong"}]
          /\ answer \in [Questions -> {"none", "theirs", "mine"}]
          /\ file \in [Slots -> Files \cup {"none"}]
PlanOK == /\ layout \in Layouts /\ snap \subseteq Fields
          /\ doing \in {"idle", "next", "act", "type", "radio", "pair", "plain", "upload", "attach"}
          /\ act \in Actions \cup {NoAction} /\ (act = NoAction <=> doing \in {"idle", "next"})
          /\ todo \in 0..MaxActions /\ done \subseteq Files /\ failed \in BOOLEAN
          /\ plans \in 0..MaxPlans /\ touches \in 0..MaxTouches

LEMMA ToolTypeParts == ToolTypeOK <=> FormOK /\ PlanOK
BY DEF ToolTypeOK, FormOK, PlanOK

LEMMA ToolTypeInit == ToolInit => ToolTypeOK /\ Stage
<1> SUFFICES ASSUME ToolInit PROVE ToolTypeOK /\ Stage
  OBVIOUS
<1>1. FormOK
  BY DEF ToolInit, FormOK, Files
<1>2. todo \in 0..MaxActions /\ plans \in 0..MaxPlans /\ touches \in 0..MaxTouches
  BY ToolSettings DEF ToolInit
<1>3. doing = "idle" /\ act = NoAction /\ snap = {} /\ done = {} /\ failed = FALSE
      /\ layout \in Layouts
  BY DEF ToolInit
<1>4. PlanOK /\ Stage
  BY <1>2, <1>3 DEF PlanOK, Stage
<1>5. QED
  BY <1>1, <1>4, ToolTypeParts

\* The stages between two actions of a plan.
LEMMA Busy ==
  ASSUME ToolTypeOK, Stage
  PROVE  /\ doing \in {"act", "type", "radio", "pair", "plain", "upload", "attach"} => act \in Actions
         /\ doing = "type" => act.on \in Fields
         /\ doing = "attach" => act.what \in Files
BY ActionsAre DEF ToolTypeOK, Stage

\* What the searches for an answer do: they choose one and report, or go on to the
\* next, or give up.
LEMMA Answers ==
  ClickOption \/ SelectRadio \/ SelectPair \/ PlainClick =>
    /\ UNCHANGED <<val, file>>
    /\ (\E p : answer' = [answer EXCEPT ![p] = "mine"]) \/ answer' = answer
    /\ \/ \E ok \in BOOLEAN : Report(ok)
       \/ doing = "act" /\ Become("radio") /\ act.kind \in {"select", "click"} /\ act.on \in Questions
       \/ doing = "radio" /\ Become("pair")
       \/ doing = "pair" /\ Become("plain")
<1>1. CASE ClickOption
  BY <1>1 DEF ClickOption, Choose
<1>2. CASE SelectRadio
  BY <1>2 DEF SelectRadio, Choose
<1>3. CASE SelectPair
  BY <1>3 DEF SelectPair, Choose
<1>4. CASE PlainClick
  BY <1>4 DEF PlainClick, Choose
<1>5. QED
  BY <1>1, <1>2, <1>3, <1>4

LEMMA FormStep ==
  ASSUME ToolTypeOK, Stage, [ToolNext]_toolVars
  PROVE  FormOK'
<1>0. FormOK /\ PlanOK
  BY ToolTypeParts
<1>1. CASE Touch \/ FollowNewTab
  BY <1>0, <1>1 DEF Touch, FollowNewTab, FormOK
<1>2. CASE Type
  BY <1>0, <1>2, Busy DEF Type, FormOK
<1>3. CASE DeepSearch \/ SelectOption \/ SelectFails
  BY <1>0, <1>3 DEF DeepSearch, SelectOption, SelectFails, FormOK
<1>4. CASE UNCHANGED <<val, file>> /\ \E p : answer' = [answer EXCEPT ![p] = "mine"]
  BY <1>0, <1>4 DEF FormOK
<1>5. CASE DeleteFirst \/ Attach
  BY <1>0, <1>5, Busy DEF DeleteFirst, Attach, FormOK
<1>6. CASE UNCHANGED form
  BY <1>0, <1>6 DEF form, FormOK
<1>9. ClickOption \/ SelectRadio \/ SelectPair \/ PlainClick =>
        \/ UNCHANGED <<val, file>> /\ \E p : answer' = [answer EXCEPT ![p] = "mine"]
        \/ UNCHANGED form
  BY Answers DEF form
<1>7. \/ Touch \/ FollowNewTab \/ Type \/ DeepSearch \/ SelectOption \/ SelectFails
      \/ ClickOption \/ SelectRadio \/ SelectPair \/ PlainClick \/ DeleteFirst \/ Attach \/ UNCHANGED form
  BY Zenon DEF ToolNext, Executes, MakePlan, Take, PlanEnds, PassOver, SkipRefill, LookAtField,
     Advance,
     RefuseUpload, AlreadyUploaded, toolVars
<1>8. QED
  BY <1>1, <1>2, <1>3, <1>4, <1>5, <1>6, <1>7, <1>9

LEMMA PlanStep ==
  ASSUME ToolTypeOK, Stage, [ToolNext]_toolVars
  PROVE  PlanOK' /\ Stage'
<1>0. PlanOK /\ Stage
  BY ToolTypeParts
<1>1. CASE MakePlan
  <2>1. todo' \in 0..MaxActions /\ plans' \in 0..MaxPlans
    BY <1>0, <1>1, ToolSettings DEF MakePlan, PlanOK
  <2>2. doing' = "next" /\ snap' \subseteq Fields /\ UNCHANGED <<layout, act, done, failed, touches>> /\ doing = "idle"
    BY <1>1 DEF MakePlan, HasValue
  <2>3. QED
    BY <1>0, <2>1, <2>2 DEF PlanOK, Stage
<1>2. CASE Take
  <2>1. todo' \in 0..MaxActions
    BY <1>0, <1>2, ToolSettings DEF Take, PlanOK
  <2>2. doing' = "act" /\ act' \in Actions /\ act' # NoAction
      /\ UNCHANGED <<layout, snap, done, plans, touches, failed>>
    BY <1>2, ActionsAre DEF Take, rest
  <2>3. QED
    BY <1>0, <2>1, <2>2 DEF PlanOK, Stage
<1>3. CASE PlanEnds
  <2>1. todo' \in 0..MaxActions
    BY <1>3, ToolSettings DEF PlanEnds
  <2>2. doing = "next"
    BY <1>3 DEF PlanEnds
  <2>3. doing' = "idle" /\ snap' = {} /\ failed' = FALSE /\ UNCHANGED <<layout, act, done, plans, touches>>
    BY <1>3 DEF PlanEnds
  <2>4. QED
    BY <1>0, <2>1, <2>2, <2>3 DEF PlanOK, Stage
<1>4. CASE LookAtField /\ doing' = "type"
  <2>1. PICK f \in Fields : act' = [act EXCEPT !.on = f] /\ UNCHANGED <<rest, todo, failed>>
    BY <1>4 DEF LookAtField, Report, Found, Fields
  <2>2. act \in Actions /\ act.kind = "fill"
    BY <1>4, Busy DEF LookAtField
  <2>3. act' \in Actions /\ act'.kind = "fill" /\ act' # NoAction
    BY <2>1, <2>2, ActionsAre
  <2>4. QED
    BY <1>0, <1>4, <2>1, <2>3 DEF rest, PlanOK, Stage
<1>5. CASE \E ok \in BOOLEAN : Report(ok)
  BY <1>0, <1>5 DEF Report, PlanOK, Stage
<1>6. CASE \/ doing = "act" /\ Become("radio") /\ act.kind \in {"select", "click"}
           \/ doing = "radio" /\ Become("pair")
           \/ doing = "pair" /\ Become("plain")
           \/ doing = "act" /\ Become("upload") /\ act.kind = "upload"
           \/ doing = "upload" /\ Become("attach")
  BY <1>0, <1>6 DEF Become, PlanOK, Stage
<1>7. CASE Attach
  <2>1. CASE UNCHANGED <<layout, snap, todo, failed, plans, touches>> /\ done' = done \cup {act.what}
             /\ doing' = "next" /\ act' = NoAction /\ doing = "attach"
    BY <1>0, <2>1, Busy DEF PlanOK, Stage
  <2>2. QED
    BY <1>5, <1>7, <2>1 DEF Attach
<1>8. CASE Touch \/ FollowNewTab
  BY <1>0, <1>8, ToolSettings DEF Touch, FollowNewTab, PlanOK, Stage
<1>9. CASE UNCHANGED toolVars
  BY <1>0, <1>9 DEF toolVars, PlanOK, Stage
<1>10. CASE PassOver \/ SkipRefill \/ DeepSearch \/ SelectOption \/ SelectFails \/ Advance \/ RefuseUpload \/ Type
  BY <1>5, <1>10 DEF PassOver, SkipRefill, DeepSearch, SelectOption, SelectFails, Advance,
     RefuseUpload, Type
<1>11. CASE LookAtField
  BY <1>4, <1>5, <1>11 DEF LookAtField
<1>12. CASE ClickOption \/ SelectRadio \/ SelectPair \/ PlainClick
  BY <1>5, <1>6, <1>12, Answers
<1>14. CASE AlreadyUploaded \/ DeleteFirst
  BY <1>5, <1>6, <1>14 DEF AlreadyUploaded, Uploads, DeleteFirst
<1>15. QED
  BY <1>1, <1>2, <1>3, <1>7, <1>8, <1>9, <1>10, <1>11, <1>12, <1>14, Zenon
    DEF ToolNext, Executes

LEMMA ToolTypeStep == ToolTypeOK /\ Stage /\ [ToolNext]_toolVars => ToolTypeOK' /\ Stage'
<1> SUFFICES ASSUME ToolTypeOK, Stage, [ToolNext]_toolVars PROVE ToolTypeOK' /\ Stage'
  OBVIOUS
<1>1. FormOK' /\ PlanOK' /\ Stage'
  BY FormStep, PlanStep
<1>2. QED
  BY <1>1 DEF ToolTypeOK, FormOK, PlanOK

\* The form, the plan and the record of uploads keep their types, and the
\* executor is at no stage that its action has not.
THEOREM ToolExecutorTypes == ToolSpec => [](ToolTypeOK /\ Stage)
BY ToolTypeInit, ToolTypeStep, PTL DEF ToolSpec

-----------------------------------------------------------------------------
(* What was filled before the plan                                         *)

Ambiguous(f) == \E g \in Fields \ {f} : f \in Alike[g]

\* The field an action is at was empty, or its label may be taken for another's.
Aim == act.kind \in {"fill", "select"} => (act.on \in snap => Ambiguous(act.on))

LEMMA AimInit == ToolInit => Aim
BY DEF ToolInit, Aim, NoAction

LEMMA AimStep == ToolTypeOK /\ Stage /\ Aim /\ [ToolNext]_toolVars => Aim'
<1> SUFFICES ASSUME ToolTypeOK, Stage, Aim, [ToolNext]_toolVars PROVE Aim'
  OBVIOUS
<1>1. CASE act' = NoAction
  BY <1>1 DEF Aim, NoAction
<1>2. CASE Take
  BY <1>2 DEF Take, rest, Dropped, Aim
<1>3. CASE LookAtField /\ doing' = "type"
  <2>1. PICK f \in Found(act.on) \cap Text : act' = [act EXCEPT !.on = f] /\ UNCHANGED snap
    BY <1>3 DEF LookAtField, Report, rest
  <2>2. act \in Actions /\ act.kind = "fill" /\ act.on \in Fields /\ f \in Fields
    BY <1>3, <2>1, Busy, ActionsAre DEF LookAtField, Fields
  <2>3. act'.on = f /\ act'.kind = "fill"
    BY <2>1, <2>2, ActionsAre
  <2>4. CASE f = act.on
    BY <2>1, <2>2, <2>3, <2>4 DEF Aim
  <2>5. CASE f # act.on
    <3>1. f \in Alike[act.on]
      BY <2>1, <2>5 DEF Found
    <3>2. Ambiguous(f)
      BY <2>2, <2>5, <3>1 DEF Ambiguous
    <3>3. Ambiguous(act.on)'
      BY <2>3, <3>2 DEF Ambiguous
    <3>4. QED
      BY <3>3 DEF Aim
  <2>6. QED
    BY <2>4, <2>5
<1>4. CASE UNCHANGED <<act, snap>>
  BY <1>4 DEF Aim, Ambiguous
<1>5. CASE MakePlan \/ PlanEnds
  BY <1>5 DEF MakePlan, PlanEnds, Aim, ToolTypeOK, NoAction
<1>6. QED
  <2>1. act' = NoAction \/ Take \/ (LookAtField /\ doing' = "type") \/ UNCHANGED <<act, snap>> \/ MakePlan \/ PlanEnds
    BY Zenon DEF ToolNext, Executes, PassOver, SkipRefill, LookAtField, Type, DeepSearch,
       SelectOption, SelectFails,
       ClickOption, SelectRadio, SelectPair, PlainClick, Choose, Advance, RefuseUpload, AlreadyUploaded,
       DeleteFirst, Attach, Touch, FollowNewTab, Report, Become, toolVars
  <2>2. QED
    BY <1>1, <1>2, <1>3, <1>4, <1>5, <2>1

\* A field that is found for a label is the label's own, or ambiguous.
LEMMA Finds ==
  ASSUME Aim, act.kind \in {"fill", "select"}, act.on \in Fields, NEW f \in Found(act.on), f \in snap
  PROVE  Ambiguous(f)
<1>1. CASE f = act.on
  BY <1>1 DEF Aim
<1>2. CASE f # act.on
  BY <1>2 DEF Found, Ambiguous
<1>3. QED
  BY <1>1, <1>2

LEMMA KeptStep ==
  ToolTypeOK /\ Stage /\ Aim /\ [ToolNext]_toolVars =>
    [Executes /\ doing # "idle" =>
       \A f \in snap : val[f] = "theirs" /\ (\A g \in Fields \ {f} : f \notin Alike[g])
                       => val'[f] = "theirs"]_toolVars
<1> SUFFICES ASSUME ToolTypeOK, Stage, Aim, Executes, doing # "idle", NEW f \in snap, val[f] = "theirs", ~Ambiguous(f)
             PROVE  val'[f] = "theirs"
  BY DEF Ambiguous
<1>0. val \in [Fields -> {"empty", "theirs", "mine", "wrong"}] /\ f \in Fields
  BY DEF ToolTypeOK
<1>1. CASE Type
  <2>1. act.kind = "fill" /\ val' = [val EXCEPT ![act.on] = "mine"]
    BY <1>1 DEF Type, Stage
  <2>2. f # act.on
    BY <2>1 DEF Aim
  <2>3. QED
    BY <1>0, <2>1, <2>2
<1>2. CASE DeepSearch \/ SelectOption \/ SelectFails
  <2>1. act.kind \in {"fill", "select"} /\ act.on \in Fields
    BY <1>2, Busy, ActionsAre DEF DeepSearch, SelectOption, SelectFails, OnDropdown
  <2>2. f \notin Found(act.on)
    BY <2>1, Finds
  <2>3. val' = val \/ \E g \in Found(act.on), v \in {"mine", "wrong"} : val' = [val EXCEPT ![g] = v]
    BY <1>2 DEF DeepSearch, SelectOption, SelectFails
  <2>4. QED
    BY <1>0, <2>2, <2>3
<1>3. CASE UNCHANGED val
  BY <1>3
<1>4. Type \/ DeepSearch \/ SelectOption \/ SelectFails \/ UNCHANGED val
  BY Zenon DEF Executes, MakePlan, Take, PlanEnds, PassOver, SkipRefill, LookAtField,
     ClickOption, SelectRadio, SelectPair, PlainClick, Advance, RefuseUpload, AlreadyUploaded, DeleteFirst, Attach, form
<1>5. QED
  BY <1>1, <1>2, <1>3, <1>4

\* A field with a value when a plan is filtered keeps it to the end of the plan,
\* through every search for elements, unless its label may be taken for another's.
THEOREM FilledIsKept == ToolSpec => FilledBeforeThePlanIsKept
<1>1. ToolSpec => [](ToolTypeOK /\ Stage /\ Aim)
  BY ToolTypeInit, ToolTypeStep, AimInit, AimStep, PTL DEF ToolSpec
<1>2. QED
  BY <1>1, KeptStep, PTL DEF ToolSpec, FilledBeforeThePlanIsKept

-----------------------------------------------------------------------------
(* Questions                                                               *)

\* No title matches another question as well as its own.
TitlesDiffer == \A q, p \in Questions : q # p => TitleScore[q][p] < 3

LEMMA FirstIs ==
  ASSUME NEW S \in SUBSET Questions, NEW q \in S, \A p \in S : Place[q] <= Place[p]
  PROVE  First(S) = q
<1>1. Place[q] \in Nat /\ \A p \in S : Place[p] \in Nat /\ (p # q => Place[p] # Place[q])
  BY ToolSettings
<1>2. \A p \in S : (\A r \in S : Place[p] <= Place[r]) => p = q
  <2>1. SUFFICES ASSUME NEW p \in S, Place[p] <= Place[q] PROVE p = q
    OBVIOUS
  <2>2. Place[q] <= Place[p]
    OBVIOUS
  <2>3. QED
    BY <1>1, <2>1, <2>2
<1>3. QED
  BY <1>2 DEF First

\* Where all are radio buttons the best match of a question is itself.
LEMMA BestIsOwn ==
  ASSUME TitlesDiffer, layout.legends, layout.pairs = {}, NEW q \in Questions
  PROVE  BestFieldset(q) = q /\ BestRadio(q) = q /\ PairOf(q) = {}
<1>1. TitleScore[q][q] = 3 /\ \A p \in Questions : TitleScore[q][p] \in 0..3 /\ (p # q => TitleScore[q][p] < 3)
  BY ToolSettings DEF TitlesDiffer
<1>2. RadioScore(q, q) = 3 /\ \A p \in Questions : RadioScore(q, p) \in 0..3 /\ (p # q => RadioScore(q, p) < 3)
  BY <1>1 DEF RadioScore
<1>3. First({q}) = q
  <2>1. Place[q] <= Place[q]
    BY ToolSettings
  <2>2. QED
    BY <2>1, FirstIs
<1>4. q \in Fieldsets(q) /\ Fieldsets(q) \subseteq Questions
  BY <1>1 DEF Fieldsets, Radios
<1>5. {p \in Fieldsets(q) : \A r \in Fieldsets(q) : TitleScore[q][p] >= TitleScore[q][r]} = {q}
  BY <1>1, <1>4
<1>6. q \in Matched(q) /\ Matched(q) \subseteq Questions
  BY <1>2 DEF Matched, Radios
<1>7. {p \in Matched(q) : \A r \in Matched(q) : RadioScore(q, p) >= RadioScore(q, r)} = {q}
  BY <1>2, <1>6
<1>8. PairOf(q) = {}
  BY DEF PairOf, PairFrom
<1>9. QED
  BY <1>3, <1>5, <1>7, <1>8 DEF BestFieldset, BestRadio

\* Where all are pairs of buttons no radio button is found, and the first pair is
\* that of the question if no earlier title matches.
LEMMA PairIsOwn ==
  ASSUME layout.pairs = Questions, NEW q \in Questions
  PROVE  Fieldsets(q) = {} /\ Matched(q) = {} /\ (Told(q) => PairOf(q) = {q})
<1>1. Fieldsets(q) = {} /\ Matched(q) = {}
  BY DEF Fieldsets, Matched, Radios
<1>2. ASSUME Told(q) PROVE PairOf(q) = {q}
  <2>1. q \in Titled(q) /\ Titled(q) \subseteq Questions
    BY ToolSettings DEF Titled
  <2>2. {p \in Titled(q) : PairFrom(p) # {}} = Titled(q) /\ PairFrom(q) = {q}
    BY <2>1 DEF PairFrom
  <2>3. First(Titled(q)) = q
    BY <1>2, <2>1, FirstIs DEF Told
  <2>4. QED
    BY <2>1, <2>2, <2>3 DEF PairOf
<1>3. QED
  BY <1>1, <1>2

\* The plain click takes the first title that matches well.
LEMMA PlainIsOwn ==
  ASSUME NEW q \in Questions, Told(q)
  PROVE  First({p \in Questions : TitleScore[q][p] >= 2}) = q
<1> DEFINE W == {p \in Questions : TitleScore[q][p] >= 2}
<1>1. q \in W /\ W \subseteq Questions
  BY ToolSettings
<1>2. W \subseteq Titled(q)
  BY ToolSettings DEF Titled
<1>3. \A p \in W : Place[q] <= Place[p]
  BY <1>2 DEF Told
<1>4. QED
  BY <1>1, <1>3, FirstIs

\* The searches are on behalf of a question.
Asked == doing \in {"radio", "pair", "plain"} => act.on \in Questions

LEMMA AskedInit == ToolInit => Asked
BY DEF ToolInit, Asked

LEMMA AskedStep == Asked /\ [ToolNext]_toolVars => Asked'
<1> SUFFICES ASSUME Asked, [ToolNext]_toolVars PROVE Asked'
  OBVIOUS
<1>1. CASE ClickOption \/ SelectRadio \/ SelectPair \/ PlainClick
  BY <1>1, Answers DEF Report, Become, Asked
<1>2. CASE UNCHANGED <<doing, act>>
  BY <1>2 DEF Asked
<1>3. CASE doing' \notin {"radio", "pair", "plain"}
  BY <1>3 DEF Asked
<1>4. \/ ClickOption \/ SelectRadio \/ SelectPair \/ PlainClick \/ UNCHANGED <<doing, act>>
      \/ doing' \notin {"radio", "pair", "plain"}
  BY DEF ToolNext, Executes, MakePlan, Take, PlanEnds, PassOver, SkipRefill, LookAtField, Type,
     DeepSearch, SelectOption,
     SelectFails, Advance, RefuseUpload, AlreadyUploaded, DeleteFirst, Attach, Touch, FollowNewTab,
     Report, Become, toolVars
<1>5. QED
  BY <1>1, <1>2, <1>3, <1>4

LEMMA AnswerStep ==
  ASSUME TitlesDiffer, ToolTypeOK, Asked, [ToolNext]_toolVars, Executes,
         layout.legends, layout.pairs \in {{}, Questions},
         NEW q \in Questions, answer'[q] # answer[q]
  PROVE  act.on = q \/ (FirstMatch /\ ~Told(act.on))
<1> SUFFICES ASSUME FirstMatch => Told(act.on) PROVE act.on = q
  OBVIOUS
<1>1. ClickOption \/ SelectRadio \/ SelectPair \/ PlainClick
  BY Zenon DEF Executes, MakePlan, Take, PlanEnds, PassOver, SkipRefill, LookAtField, Type,
     DeepSearch, SelectOption,
     SelectFails, Advance, RefuseUpload, AlreadyUploaded, DeleteFirst, Attach, form
<1>2. act.on \in Questions
  BY <1>1 DEF ClickOption, SelectRadio, SelectPair, PlainClick, Asked
<1>3. ASSUME NEW p, Choose(p) PROVE p = q
  BY <1>3 DEF Choose, ToolTypeOK
<1>4. CASE PlainClick
  <2>1. Told(act.on)
    BY <1>4 DEF PlainClick, FirstMatch
  <2>2. Choose(act.on)
    BY <1>2, <1>4, <2>1, PlainIsOwn DEF PlainClick
  <2>3. QED
    BY <1>3, <2>2
<1>5. CASE (ClickOption \/ SelectRadio \/ SelectPair) /\ layout.pairs = {}
  <2>1. BestFieldset(act.on) = act.on /\ BestRadio(act.on) = act.on /\ PairOf(act.on) = {}
    BY <1>2, <1>5, BestIsOwn
  <2>2. Choose(act.on)
    BY <1>5, <2>1 DEF ClickOption, SelectRadio, SelectPair
  <2>3. QED
    BY <1>3, <2>2
<1>6. CASE (ClickOption \/ SelectRadio \/ SelectPair) /\ layout.pairs = Questions
  <2>1. Fieldsets(act.on) = {} /\ Matched(act.on) = {} /\ PairOf(act.on) = {act.on}
    BY <1>2, <1>6, PairIsOwn DEF FirstMatch
  <2>2. Choose(act.on)
    BY <1>6, <2>1 DEF ClickOption, SelectRadio, SelectPair
  <2>3. QED
    BY <1>3, <2>2
<1>7. QED
  BY <1>1, <1>4, <1>5, <1>6

\* On a page whose questions have legends, and all of them radio buttons or all of
\* them pairs of buttons, if no title matches another question as well as its own, no
\* step of the executor changes the answer to a question but the one it was asked,
\* or, where the search takes the first match, when an earlier title matches too.
THEOREM AnsweredInPlace == TitlesDiffer => (ToolSpec => AnswersItsQuestion)
<1> SUFFICES ASSUME TitlesDiffer PROVE ToolSpec => AnswersItsQuestion
  OBVIOUS
<1>1. ToolSpec => [](ToolTypeOK /\ Stage /\ Asked)
  BY ToolTypeInit, ToolTypeStep, AskedInit, AskedStep, PTL DEF ToolSpec
<1>2. ToolTypeOK /\ Asked /\ [ToolNext]_toolVars =>
        [Executes /\ layout.legends /\ layout.pairs \in {{}, Questions} =>
           \A q \in Questions : answer'[q] # answer[q] =>
             act.on = q \/ (FirstMatch /\ ~Told(act.on))]_toolVars
  BY AnswerStep
<1>3. QED
  BY <1>1, <1>2, PTL DEF ToolSpec, AnswersItsQuestion

-----------------------------------------------------------------------------
(* Uploads                                                                 *)

LEMMA UploadStep ==
  ToolTypeOK /\ Stage /\ [ToolNext]_toolVars =>
    [(Executes /\ act.kind = "upload" /\ act.on # "parser" /\ act' = NoAction
      /\ ~failed /\ ~failed' /\ layout.shows # "traces") => Attached' # {}]_toolVars
<1> SUFFICES ASSUME ToolTypeOK, Stage, Executes, act.kind = "upload", act.on # "parser", act' = NoAction,
                    ~failed, ~failed', layout.shows # "traces"
             PROVE  Attached' # {}
  OBVIOUS
<1>1. act # NoAction
  BY DEF NoAction
<1>2. CASE AlreadyUploaded
  <2>1. Attached # {} /\ UNCHANGED form
    BY <1>1, <1>2 DEF AlreadyUploaded, Become, Present
  <2>2. QED
    BY <2>1 DEF Attached, form
<1>3. CASE Attach
  <2>1. act.what \in Files /\ act.what # "none"
    BY <1>3, Busy DEF Attach, Files
  <2>2. PICK s \in Slots : file' = [file EXCEPT ![s] = act.what]
    BY <1>3 DEF Attach, Report
  <2>3. file'[s] = act.what
    BY <2>2 DEF ToolTypeOK
  <2>4. QED
    BY <2>1, <2>3 DEF Attached
<1>4. AlreadyUploaded \/ Attach
  <2>1. ~(MakePlan \/ Take \/ PlanEnds \/ Type \/ SelectRadio \/ SelectPair \/ PlainClick)
    BY <1>1, ActionsAre DEF MakePlan, Take, PlanEnds, Type, SelectRadio, SelectPair,
       PlainClick, ToolTypeOK, Stage
  <2>2. ~(PassOver \/ SkipRefill \/ LookAtField \/ DeepSearch \/ SelectOption \/ SelectFails \/ ClickOption \/ Advance)
    BY DEF PassOver, SkipRefill, LookAtField, DeepSearch, SelectOption, SelectFails,
       OnDropdown, ClickOption, Advance
  <2>3. ~RefuseUpload /\ ~DeleteFirst
    BY <1>1 DEF RefuseUpload, DeleteFirst, Report, Become
  <2>4. QED
    BY <2>1, <2>2, <2>3 DEF Executes
<1>5. QED
  BY <1>2, <1>3, <1>4

\* On a page where no trace of a file stays when it is taken away, an upload is not
\* reported done on the strength of an earlier one: when the action ends without a
\* failure something is attached to the form.
THEOREM UploadIsAttached == ToolSpec => UploadIsThere
<1>1. ToolSpec => [](ToolTypeOK /\ Stage)
  BY ToolExecutorTypes
<1>2. QED
  BY <1>1, UploadStep, PTL DEF ToolSpec, UploadIsThere
=============================================================================
