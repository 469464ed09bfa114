------------------------------ MODULE ApplyJob ------------------------------
(***************************************************************************)
(* One application, from the call of apply_to_job to its return            *)
(* (orchestration/engine.py): landing, verification challenges, job        *)
(* boards, the Apply button, the fill loop with its branch without an LLM, *)
(* the LLM iterations and pages, the checks before the submission, the     *)
(* review, the click and the judgement of what happened, the fallback to   *)
(* rules, the last handoff and the row that is written.  The human is      *)
(* reached through human/agent_interface.py: handoffs, prompts and the     *)
(* review of a filled form.                                                *)
(*                                                                         *)
(* The employer's site is the environment: what the browser shows, how     *)
(* many required fields are empty, and how many applications it received.  *)
(* What a plan of the LLM does to a page is any filling of fields and      *)
(* possibly a click.                                                       *)
(***************************************************************************)
EXTENDS Integers, FiniteSets

CONSTANTS
  Modes,       \* of InteractionMode
  Landings,    \* what the browser may show after page.goto
  AskLoops,    \* MAX_ASK_LOOPS
  Pages,       \* MAX_PAGES
  SubmitTries, \* max_submit_attempts
  MaxEmpty,    \* bound: required fields of a page
  MaxLater,    \* bound: further pages of a form
  MaxActs      \* bound: what is done to the browser, and stops requested

Shown == {"linkedin", "workday", "board", "posting", "login", "form", "done",
          "closed"}

ASSUME ApplyJobAssumption ==
  /\ Modes \subseteq {"auto", "supervised", "manual"}
  /\ Landings \subseteq Shown \ {"done", "closed"}
  /\ AskLoops \in Nat \ {0} /\ Pages \in Nat \ {0} /\ SubmitTries \in Nat \ {0}
  /\ MaxEmpty \in Nat /\ MaxLater \in Nat /\ MaxActs \in Nat

VARIABLES
  setup,  \* the mode, whether there is an API key, what page.goto landed on
  site,   \* the browser and the employer's form
  sent,   \* how often the employer received an application (to 2)
  moved,  \* the URL is another one than when the last handoff began
  pc,     \* where apply_to_job is
  at,     \* the point of the handoff, or where a freeze goes on
  run,    \* the locals and flags of the run
  n,      \* its counters
  stop,   \* stop_requested
  row,    \* the status in the table
  result, \* what apply_to_job returned
  past    \* history: what happened in this application

world == <<site, sent, moved>>
book  == <<row, result>>
vars  == <<setup, world, pc, at, run, n, stop, book, past>>

\* words: when the page or its URL has the words of a confirmation: only after
\* the submission, already on the form, or never, and then the form stays.
Site == [page : Shown, words : {"right", "early", "never"}, empty : 0..MaxEmpty,
         later : 0..MaxLater, errors : BOOLEAN, check : BOOLEAN]
Finals   == {"submitted", "failed", "skipped"}
InApply  == {"linkedin", "board", "apply", "unfinished"}
Handoffs == InApply \cup {"login", "noanswer", "fields", "rate", "circle",
                          "blockers", "review", "submit"}
Places   == {"start", "ask", "freeze", "landed", "open", "button", "fill",
             "pause", "try", "retry", "gate", "llm", "plan", "pages",
             "presubmit", "submit", "settle", "handoff", "filled", "rules",
             "steps", "judge", "after", "final", "end"}
Run      == [again : BOOLEAN, ok : BOOLEAN, good : BOOLEAN,
             step : BOOLEAN, skipped : BOOLEAN, declined : BOOLEAN,
             ready : BOOLEAN]
Counters == {"board", "freeze", "try", "login", "loop", "page", "round", "acts",
             "seen"}
Marks    == {"program", "human", "workday"}

TypeOK ==
  /\ setup \in [mode : Modes, key : BOOLEAN, landing : Landings]
  /\ site \in Site /\ sent \in 0..2 /\ moved \in BOOLEAN
  /\ pc \in Places /\ at \in Places \cup Handoffs /\ run \in Run
  /\ n \in [Counters -> Nat] /\ stop \in BOOLEAN
  /\ row \in Finals \cup {"in_progress"} /\ result \in Finals \cup {"none", "raised"}
  /\ past \subseteq Marks

Init ==
  /\ setup \in [mode : Modes, key : BOOLEAN, landing : Landings]
  /\ site \in Site /\ site.page = setup.landing /\ ~site.errors
  /\ sent = 0 /\ moved = FALSE /\ pc = "start" /\ at = "start"
  /\ run = [f \in {"again", "ok", "good", "step", "skipped",
                   "declined", "ready"} |-> FALSE]
  /\ n = [c \in Counters |-> 0] /\ stop = FALSE
  /\ row = "in_progress" /\ result = "none" /\ past = {}

InAuto == setup.mode = "auto"

-----------------------------------------------------------------------------
(* The site                                                                *)

Open(s) == s.page \notin {"done", "closed"}

\* Required fields filled, or emptied, until e are empty.
FillTo(s, e) == IF s.page = "form"
                THEN [s EXCEPT !.empty = e, !.errors = @ /\ e > 0] ELSE s

NextPage(s, p, c) == [s EXCEPT !.later = @ - 1, !.empty = MaxEmpty, !.page = p, !.check = c]
NextPages(s) == {NextPage(s, p, c) : p \in {"form", "login"}, c \in BOOLEAN}

Accepts(s) == s.page = "form" /\ s.empty = 0 /\ s.later = 0

\* What the program reads off the page: required fields without a value, by
\* their role or as dropdowns that look unselected; errors; a login form.
RequiredFilled == site.empty = 0
ErrorsShown    == site.errors
AtLogin        == site.page = "login"

\* A click on Submit, or on the Next button that is there instead: refused
\* for what is missing or wrong, followed by the next page, or accepted.
ClickOn(s) ==
  IF s.page # "form" THEN {s}
  ELSE {[s EXCEPT !.errors = TRUE]}
       \cup (IF s.empty = 0 /\ s.later > 0 THEN NextPages(s) ELSE {})
       \cup (IF Accepts(s)
             THEN {[s EXCEPT !.errors = FALSE,
                             !.page = IF s.words = "never" THEN @ ELSE "done"]}
             ELSE {})

\* moved is looked at after a handoff, and until the submission is judged.
Becomes(s) ==
  /\ site' = s
  /\ moved' = /\ pc \in {"handoff", "after", "submit", "settle"}
              /\ moved \/ s.page # site.page \/ s.later # site.later

Click(s) == \E t \in ClickOn(s) :
  /\ Becomes(t)
  /\ sent' = IF Accepts(s) /\ ~t.errors /\ sent < 2 THEN sent + 1 ELSE sent

\* _submission_looks_plausible: words in the URL or the text.
Plausible == site.page = "done" \/ (site.page = "form" /\ site.words = "early")

\* looks_like_confirmation: strong, or another URL and no errors.
Confirmed == Plausible \/ (moved /\ ~ErrorsShown)

\* _handoff_indicates_submitted, after a handoff in the middle of the fill.
HandoffSubmitted == Confirmed

-----------------------------------------------------------------------------
(* How apply_to_job and its fill loop go on                                *)

Goto(p) == pc' = p /\ at' = "start" /\ UNCHANGED book

\* A return without update_status.
EndUnrecorded(status) == /\ pc' = "end" /\ result' = status
                         /\ UNCHANGED <<row, at>>

End(status) == /\ pc' = "end" /\ row' = status /\ result' = status
               /\ UNCHANGED at

\* BrowserClosed or ExitRequested leaves apply_to_job.
Raise == pc' = "end" /\ result' = "raised" /\ UNCHANGED <<row, at>>

Ask(point) == pc' = "handoff" /\ at' = point /\ UNCHANGED book

\* _freeze_if_verification, with the place to go on at.
Freeze(place) == /\ pc' = (IF site'.check THEN "freeze" ELSE place)
                 /\ at' = place /\ UNCHANGED book

Count(c) == n' = [n EXCEPT ![c] = @ + 1]
Reset    == [c \in Counters |-> IF c = "acts" THEN n.acts ELSE 0]

\* The fill loop returns, its counters with it.
FillReturns(ok) == /\ run' = [run EXCEPT !.ok = ok] /\ n' = Reset
                   /\ Goto("filled")

InFill == {"gate", "llm", "plan", "pages", "presubmit", "submit", "settle"}

-----------------------------------------------------------------------------
(* Navigation, job board, ATS and Apply button                             *)

\* LinkedIn asks first, and AUTO takes the default; Workday is passed over.
Land ==
  /\ pc = "start" /\ ~stop /\ UNCHANGED <<world, run, n, past>>
  /\ \/ /\ site.page = "linkedin"
        /\ IF InAuto THEN EndUnrecorded("skipped") ELSE Goto("ask")
     \/ site.page = "workday" /\ EndUnrecorded("skipped")
     \/ site.page \notin {"linkedin", "workday"} /\ Freeze("landed")

AnswerLinkedIn ==
  /\ pc = "ask" /\ site.page # "closed"
  /\ UNCHANGED <<site, sent, run, n, past>> /\ moved' = FALSE
  /\ \/ EndUnrecorded("skipped")
     \/ Ask("linkedin")

\* AUTO lets the LLM look for the way off the board before the handoff.
Board ==
  /\ pc = "landed" /\ UNCHANGED <<run, sent, past>>
  /\ \/ /\ site.page # "board" /\ Goto("open") /\ UNCHANGED <<site, moved, n>>
     \/ /\ site.page = "board" /\ Ask("board") /\ n' = [n EXCEPT !.board = 1]
        /\ moved' = FALSE /\ UNCHANGED site
     \/ /\ site.page = "board" /\ InAuto /\ setup.key
        /\ \E p \in {"posting", "form"}, c \in BOOLEAN :
             Becomes([site EXCEPT !.page = p, !.check = c])
        /\ n' = [n EXCEPT !.freeze = 0] /\ Freeze("open")

\* The ATS, an expired posting, and a page that already is the form.
DetectATS ==
  /\ pc = "open" /\ UNCHANGED <<world, n>>
  /\ \/ /\ EndUnrecorded("skipped") /\ past' = past \cup {"workday"}
        /\ UNCHANGED run
     \/ End("skipped") /\ UNCHANGED <<run, past>>
     \/ site.page = "form" /\ Goto("fill") /\ UNCHANGED <<run, past>>
     \/ Freeze("button") /\ UNCHANGED <<run, past>>

ClickApplyButton ==
  /\ pc = "button" /\ UNCHANGED <<sent, past>>
  /\ \/ /\ n' = [n EXCEPT !.freeze = 0] /\ UNCHANGED run
        /\ \E p \in {"form", "login"}, c \in BOOLEAN :
             Becomes(IF site.page = "posting"
                     THEN [site EXCEPT !.page = p, !.check = c] ELSE site)
        /\ Freeze("fill")
     \/ /\ Ask("apply") /\ moved' = FALSE /\ UNCHANGED <<site, run, n>>

FreezeFails == IF at = "plan" THEN FillReturns(FALSE)
                              ELSE End("failed") /\ UNCHANGED <<run, n>>

\* handle_captcha gives up in AUTO.
FreezeInAuto == /\ pc = "freeze" /\ InAuto /\ FreezeFails
                /\ UNCHANGED <<world, past>>

\* ENTER, and the challenge goes away in time or not; any other word than
\* cancel is ENTER.  Two rounds.
AnswerFreeze ==
  /\ pc = "freeze" /\ ~InAuto /\ site.page # "closed" /\ UNCHANGED <<sent, past>>
  /\ \/ FreezeFails /\ UNCHANGED <<site, moved>>
     \/ /\ Becomes([site EXCEPT !.check = FALSE]) /\ n' = [n EXCEPT !.freeze = 0]
        /\ Goto(at) /\ UNCHANGED run
     \/ /\ site.check /\ UNCHANGED <<site, moved>>
        /\ IF n.freeze = 0
           THEN Count("freeze") /\ UNCHANGED <<pc, at, book, run>>
           ELSE FreezeFails

-----------------------------------------------------------------------------
(* The fill loop: extension, rules, review, submission without the LLM     *)

\* The extension fills, then the handler.  If the handler raises, the loop
\* goes on to the part with the LLM.
FillForm ==
  /\ pc = "fill" /\ ~stop /\ UNCHANGED <<run, sent, past>>
  /\ \E e \in 0..site.empty : Becomes(FillTo(site, e))
  /\ n' = Reset
  /\ Goto("gate") \/ Goto(IF InAuto THEN "try" ELSE "pause")

\* pause_for_form_review looks at the page every half second: a confirmation,
\* or every visible group answered, and then it clicks Submit; it gives up
\* after ten minutes.
PauseForFormReview ==
  /\ pc = "pause" /\ UNCHANGED <<run, n>>
  /\ IF site.page = "closed" THEN Goto("gate") ELSE Goto("try")
  /\ \/ UNCHANGED <<world, past>>
     \/ /\ Open(site) /\ ~Plausible /\ (site.page = "form" => RequiredFilled)
        /\ Click(site) /\ past' = past \cup {"program"}

\* submit_application of a handler.  Most return True once they have clicked
\* and False without a button; Ashby's looks for errors instead.
HandlerSubmits(verdict) ==
  \/ /\ site.page = "form" /\ Click(site) /\ past' = past \cup {"program"}
     /\ ~verdict => site'.errors
  \/ /\ UNCHANGED world /\ past' = past \cup (IF verdict THEN {"program"} ELSE {})
     /\ verdict => ~site.errors

SubmitWithoutLLM ==
  /\ pc = "try"
  /\ \/ HandlerSubmits(TRUE) /\ FillReturns(TRUE)
     \/ HandlerSubmits(FALSE) /\ UNCHANGED <<run, n>> /\ (Goto("retry") \/ Goto("gate"))

LastAttemptFailed == FillReturns(TRUE) /\ past' = past \cup {"program"}

\* Fault: the attempts are not counted.
AnswerRetryForever ==
  /\ pc = "retry" /\ Goto("try") /\ UNCHANGED <<world, run, n, past>>

\* ENTER after a failed attempt, in every mode and without a timeout; after
\* the last attempt the branch still returns True.
AnswerRetry ==
  /\ pc = "retry" /\ UNCHANGED world
  /\ IF n.try + 1 < SubmitTries
     THEN /\ Goto("try") /\ Count("try") /\ UNCHANGED <<run, past>>
     ELSE LastAttemptFailed

-----------------------------------------------------------------------------
(* The part with the LLM                                                   *)

\* Three handoffs at most to get past a login.  After the third the loop gives
\* up without another look at the page.
LoginGate ==
  /\ pc = "gate" /\ site.page # "closed" /\ UNCHANGED <<site, sent, past>>
  /\ \/ /\ n.login < 3 /\ ~AtLogin /\ Goto("llm")
        /\ UNCHANGED <<moved, n, run>>
     \/ /\ n.login < 3 /\ AtLogin /\ Count("login")
        /\ Ask("login") /\ moved' = FALSE /\ UNCHANGED run
     \/ n.login = 3 /\ FillReturns(FALSE) /\ UNCHANGED moved

Iterate ==
  /\ pc = "llm" /\ ~stop /\ site.page # "closed" /\ UNCHANGED <<world, past>>
  /\ \/ /\ n.loop = AskLoops /\ Goto("pages") /\ n' = [Reset EXCEPT !.page = 1]
        /\ UNCHANGED run
     \/ n.loop < AskLoops /\ Plausible /\ FillReturns(TRUE)
     \/ /\ n.loop < AskLoops /\ ~Plausible /\ Freeze("plan")
        /\ n' = [n EXCEPT !.loop = @ + 1, !.freeze = 0] /\ UNCHANGED run

\* What a plan may do: fill fields and click Next or Submit.  The gate holds
\* the clicks while the accessibility tree shows an empty required field,
\* which misses some dropdowns.
Execute == \E e \in 0..site.empty :
  \/ /\ Becomes(FillTo(site, e)) /\ UNCHANGED <<sent, past>>
  \/ /\ site.page = "form" /\ Click(FillTo(site, e)) /\ past' = past \cup {"program"}

\* Whether half of the actions succeeded, and whether a field was filled.
Learn == \E good \in BOOLEAN, step \in BOOLEAN :
  run' = [run EXCEPT !.good = good, !.step = @ \/ (good /\ step)]

\* Fault: without an LLM there is nothing left to do, and that is a success.
NoPlanNeeded ==
  /\ pc = "plan" /\ site.page # "closed" /\ UNCHANGED <<site, sent, past>>
  /\ \/ ~setup.key /\ FillReturns(TRUE) /\ UNCHANGED moved
     \/ setup.key /\ Ask("noanswer") /\ moved' = FALSE /\ UNCHANGED <<run, n>>

NoPlan ==
  /\ pc = "plan" /\ site.page # "closed" /\ UNCHANGED <<site, sent, past>>
  /\ \/ ~setup.key /\ FillReturns(FALSE) /\ UNCHANGED moved
     \/ setup.key /\ Ask("noanswer") /\ moved' = FALSE /\ UNCHANGED <<run, n>>

\* Answers to what the LLM asks, an upload, or values for failed fields: the
\* next iteration.  Fields that stay broken go to the human.  A plan without
\* failures, or refused in MANUAL, ends the iterations.
Plan ==
  /\ pc = "plan" /\ setup.key /\ site.page # "closed"
  /\ \/ /\ Execute /\ Learn /\ UNCHANGED n /\ Goto("llm")
     \/ /\ Execute /\ Learn /\ n' = [Reset EXCEPT !.page = 1] /\ Goto("pages")
     \/ /\ setup.mode = "manual" /\ Goto("pages") /\ n' = [Reset EXCEPT !.page = 1]
        /\ UNCHANGED <<world, run, past>>

\* The handoff begins on the page the plan left.
PlanBroken ==
  /\ pc = "plan" /\ setup.key /\ site.page # "closed"
  /\ \E e \in 0..site.empty : site' = FillTo(site, e)
  /\ moved' = FALSE /\ Learn /\ Ask("fields") /\ UNCHANGED <<sent, n, past>>

\* The loop over the pages of a form.
PageDone ==
  /\ pc = "pages" /\ site.page # "closed" /\ UNCHANGED <<world, past>>
  /\ \/ Goto("presubmit") /\ n' = Reset /\ UNCHANGED run
     \/ site.check /\ n.page < Pages /\ FillReturns(FALSE)

PageHandoff ==
  /\ pc = "pages" /\ n.page < Pages /\ site.page # "closed"
  /\ \/ ~run.good /\ Ask("rate")
     \/ run.good /\ n.page > 1 /\ Ask("circle")
  /\ moved' = FALSE /\ UNCHANGED <<site, sent, run, n, past>>

PageAgain ==
  /\ pc = "pages" /\ n.page < Pages /\ run.good /\ setup.key
  /\ site.page # "closed" /\ Execute /\ Learn /\ Count("page") /\ Goto("pages")

\* Fault: after two rounds the form is submitted as it is.
PreSubmitTwoRounds ==
  /\ pc = "presubmit" /\ site.page # "closed"
  /\ UNCHANGED <<site, sent, past>> /\ moved' = FALSE
  /\ IF (RequiredFilled /\ ~ErrorsShown) \/ n.round = 2
     THEN /\ run' = [run EXCEPT !.ready = TRUE] /\ Ask("review")
          /\ n' = [n EXCEPT !.seen = n.acts]
     ELSE Ask("blockers") /\ Count("round") /\ UNCHANGED run

\* Two rounds with the human; then nothing is submitted.
PreSubmit ==
  /\ pc = "presubmit" /\ site.page # "closed"
  /\ UNCHANGED <<site, sent, past>> /\ moved' = FALSE
  /\ IF RequiredFilled /\ ~ErrorsShown
     THEN /\ run' = [run EXCEPT !.ready = TRUE] /\ Ask("review")
          /\ n' = [n EXCEPT !.seen = n.acts]
     ELSE IF n.round < 2
          THEN Ask("blockers") /\ Count("round") /\ UNCHANGED run
          ELSE FillReturns(FALSE)

\* The handler's submit, then the generic selectors, then the human.
ClickSubmit ==
  /\ pc = "submit" /\ UNCHANGED <<run, n>>
  /\ \/ HandlerSubmits(TRUE) /\ Goto("settle")
     \/ /\ site.page = "form" /\ Click(site) /\ past' = past \cup {"program"}
        /\ Goto("settle")
     \/ UNCHANGED <<world, past>> /\ Ask("submit")

\* A confirmation, or an attempt without errors.
Settle ==
  /\ pc = "settle" /\ site.page # "closed" /\ UNCHANGED <<world, past>>
  /\ FillReturns(Confirmed \/ ~ErrorsShown)

-----------------------------------------------------------------------------
(* Handoffs                                                                *)

\* Still on the board, twice more; then the job is given up.
AfterBoard ==
  /\ UNCHANGED <<site, run, past>>
  /\ IF site.page = "board"
     THEN IF n.board < 3 THEN Ask("board") /\ Count("board") /\ moved' = FALSE
                         ELSE End("failed") /\ UNCHANGED <<n, moved>>
     ELSE Freeze("open") /\ n' = [n EXCEPT !.freeze = 0] /\ UNCHANGED moved

AfterHandoff(p) == Goto(p) /\ UNCHANGED <<site, moved, run, n>>
Answered(ok)    == FillReturns(ok) /\ UNCHANGED <<site, moved>>

\* The engine goes on from the page the human left.
Resume ==
  CASE at = "linkedin"   -> /\ EndUnrecorded("submitted")
                            /\ UNCHANGED <<site, moved, n, run>>
    [] at = "board"      -> AfterBoard
    [] at = "apply"      -> AfterHandoff("fill")
    [] at = "login"      -> AfterHandoff("gate")
    [] at = "noanswer"   -> Answered(moved \/ Plausible)
    [] at = "fields"     -> IF HandoffSubmitted THEN Answered(TRUE) ELSE AfterHandoff("llm")
    [] at \in {"rate", "circle", "blockers"} -> AfterHandoff("presubmit")
    [] at = "review"     -> AfterHandoff(IF Confirmed THEN "settle" ELSE "submit")
    [] at = "submit"     -> AfterHandoff("settle")
    [] at = "unfinished" -> AfterHandoff("after")

PressEnter ==
  /\ pc = "handoff" /\ site.page # "closed" /\ UNCHANGED sent
  /\ past' = past \cup (IF moved \/ at \in {"linkedin", "submit"}
                     THEN {"human"} ELSE {})
  /\ Resume

\* The checker sees a confirmation while the prompt is open.
SubmissionDetected ==
  /\ pc = "handoff" /\ at \in {"fields", "review"} /\ Plausible /\ UNCHANGED sent
  /\ past' = past \cup (IF moved THEN {"human"} ELSE {})
  /\ Resume

TypeSkip ==
  /\ pc = "handoff" /\ site.page # "closed" /\ UNCHANGED <<world, past>>
  /\ IF at \in InApply
     THEN End("skipped") /\ run' = [run EXCEPT !.skipped = TRUE] /\ UNCHANGED n
     ELSE /\ Goto("filled") /\ n' = Reset
          /\ run' = [run EXCEPT !.skipped = TRUE, !.ok = FALSE]

\* cancel, or no answer within the timeout.
Cancelled ==
  /\ pc = "handoff" /\ site.page # "closed" /\ UNCHANGED <<world, past>>
  /\ IF at \in InApply
     THEN /\ UNCHANGED <<run, n>>
          /\ IF at = "linkedin" THEN EndUnrecorded("failed") ELSE End("failed")
     ELSE /\ Goto("filled") /\ n' = Reset
          /\ run' = [run EXCEPT !.ok = FALSE, !.declined = @ \/ at = "review"]

-----------------------------------------------------------------------------
(* After the fill loop                                                     *)

\* Fault: a skip is looked at only at the end.
FilledWithoutSkip ==
  /\ pc = "filled" /\ UNCHANGED <<site, sent, n, past, run>> /\ moved' = FALSE
  /\ IF run.again THEN Goto("after")
     ELSE IF ~run.ok /\ ~run.step THEN Goto("rules")
     ELSE Goto("judge")

Filled ==
  /\ pc = "filled" /\ UNCHANGED <<site, sent, n, past, run>> /\ moved' = FALSE
  /\ IF run.again THEN Goto("after")
     ELSE IF run.skipped THEN End("skipped")
     ELSE IF ~run.ok /\ ~run.step THEN Goto("rules")
     ELSE Goto("judge")

\* _fill_form_rules fills, goes through at most five pages, and submits; a
\* submission is a success if a confirmation shows.
FillFormRules ==
  /\ pc = "rules" /\ ~stop /\ UNCHANGED <<sent, past>> /\ n' = [n EXCEPT !.page = 0]
  /\ \/ /\ \E e \in 0..site.empty : Becomes(FillTo(site, e))
        /\ Goto("steps") /\ run' = [run EXCEPT !.step = TRUE]
     \/ UNCHANGED <<site, moved, run>> /\ Goto("judge")

HandleMultiStep ==
  /\ pc = "steps" /\ n.page < 5 /\ site.page = "form" /\ site.later > 0
  /\ Click(site) /\ Count("page") /\ Goto("steps") /\ UNCHANGED <<run, past>>

SubmitByRules ==
  /\ pc = "steps" /\ UNCHANGED n /\ Goto("judge")
  /\ \/ HandlerSubmits(TRUE) /\ run' = [run EXCEPT !.ok = Plausible']
     \/ HandlerSubmits(FALSE) /\ UNCHANGED run

Judge ==
  /\ pc = "judge" /\ UNCHANGED <<site, sent, n, past>>
  /\ \/ run.ok /\ Goto("final") /\ UNCHANGED <<moved, run>>
     \/ /\ ~run.ok /\ ~stop /\ (run.skipped \/ run.declined)
        /\ End("skipped") /\ UNCHANGED <<moved, run>>
     \/ /\ ~run.ok /\ ~stop /\ ~run.skipped /\ ~run.declined
        /\ Ask("unfinished") /\ moved' = FALSE /\ UNCHANGED run

\* After the last handoff: plausible, or once more through the fill loop if
\* the human went on to another page.
AfterUnfinished ==
  /\ pc = "after" /\ UNCHANGED <<world, n, past>>
  /\ LET ok == run.ok \/ (run.ready /\ Plausible)
     IN IF ~ok /\ moved /\ ~run.again
        THEN Goto("fill") /\ run' = [run EXCEPT !.again = TRUE]
        ELSE Goto("final") /\ run' = [run EXCEPT !.ok = ok \/ Plausible]

Final ==
  /\ pc = "final" /\ ~stop /\ UNCHANGED <<world, n, run, past>>
  /\ End(IF run.skipped THEN "skipped" ELSE IF run.ok THEN "submitted" ELSE "failed")

-----------------------------------------------------------------------------
(* Exceptions, and the world outside                                       *)

\* _check_stop at its places: InterruptedError, and the job has failed.
Stopped ==
  /\ stop /\ pc \in {"start", "fill", "llm", "rules", "judge", "final"}
  /\ pc = "judge" => ~run.ok
  /\ End("failed") /\ UNCHANGED <<world, run, n, past>>

\* Anything else that is raised.
Crash ==
  /\ pc \in {"start", "landed", "open", "button"} \cup InFill
  /\ UNCHANGED <<world, past>>
  /\ IF pc \in InFill
     THEN IF site.page = "closed" THEN Raise /\ UNCHANGED <<run, n>>
                                  ELSE FillReturns(FALSE)
     ELSE End("failed") /\ UNCHANGED <<run, n>>

\* The word quit, or a prompt on a closed browser.
PromptRaises ==
  /\ pc \in {"ask", "handoff", "freeze", "retry"}
  /\ Raise /\ UNCHANGED <<world, run, n, past>>

\* In the fill loop the exception of a closed browser ends the loop only, and
\* at the prompt for another attempt it is swallowed.
PromptClosed ==
  /\ pc \in {"handoff", "freeze"} /\ site.page = "closed"
  /\ at \in Handoffs \ InApply \/ at = "plan"
  /\ FillReturns(FALSE) /\ UNCHANGED <<world, past>>

Waiting == pc \in {"ask", "handoff", "freeze", "retry", "pause"}

\* What the human may do to the page while JobCLI waits.
HumanTurns(s) ==
  {[s EXCEPT !.check = FALSE]}
  \cup {FillTo(s, e) : e \in 0..MaxEmpty}
  \cup (IF s.page \in {"board", "posting", "login"}
        THEN {[s EXCEPT !.page = p] : p \in {"posting", "form"}} ELSE {})

HumanActs ==
  /\ Waiting /\ Open(site) /\ n.acts < MaxActs /\ Count("acts")
  /\ \/ \E t \in HumanTurns(site) : Becomes(t) /\ UNCHANGED sent
     \/ site.page = "form" /\ Click(site)
  /\ UNCHANGED <<pc, at, run, book, stop, past>>

CloseBrowser ==
  /\ pc # "end" /\ site.page # "closed" /\ n.acts < MaxActs /\ Count("acts")
  /\ site' = [site EXCEPT !.page = "closed"]
  /\ UNCHANGED <<sent, moved, pc, at, run, book, stop, past>>

RequestStop ==
  /\ pc # "end" /\ ~stop /\ stop' = TRUE /\ n.acts < MaxActs /\ Count("acts")
  /\ UNCHANGED <<world, pc, at, run, book, past>>

Program ==
  \/ Land \/ Board \/ DetectATS \/ ClickApplyButton \/ FreezeInAuto
  \/ FillForm \/ PauseForFormReview \/ SubmitWithoutLLM
  \/ LoginGate \/ Iterate \/ NoPlan \/ Plan \/ PlanBroken
  \/ PageDone \/ PageHandoff \/ PageAgain \/ PreSubmit \/ ClickSubmit \/ Settle
  \/ SubmissionDetected \/ Filled \/ FillFormRules \/ HandleMultiStep
  \/ SubmitByRules \/ Judge \/ AfterUnfinished \/ Final \/ Stopped \/ Crash
  \/ PromptClosed

Answer == AnswerLinkedIn \/ AnswerFreeze \/ AnswerRetry \/ PressEnter
          \/ TypeSkip \/ Cancelled \/ PromptRaises

Step == (Program \/ Answer) /\ UNCHANGED stop

Next == /\ UNCHANGED setup
        /\ Step \/ HumanActs \/ CloseBrowser \/ RequestStop

Spec == Init /\ [][Next]_vars

\* JobCLI goes on, and the human answers what it asks.
FairSpec == Spec /\ WF_vars(Step /\ UNCHANGED setup)

-----------------------------------------------------------------------------
(* Properties                                                              *)

\* A skip typed at a handoff is final: the program sends nothing for this
\* job afterwards.
NothingAfterSkip == [][Program /\ run.skipped => sent' = sent]_vars

\* The comment at the end of the checks: "refuse to submit rather than risk
\* shipping a half-filled application".  The click after the review meets a
\* form with nothing missing unless the human touched it in between.
CompleteUnlessTouched ==
  pc = "submit" /\ n.acts = n.seen => site.empty = 0 /\ ~site.errors

\* A SUBMITTED has behind it a click of the program, a handler that says it
\* submitted or the last failed attempt without the LLM, a human who went on to
\* another page or was asked to apply, or the words of a confirmation: already on
\* the form, or after an application that reached the employer.
SubmittedIsBacked ==
  result = "submitted" =>
    \/ past \cap {"program", "human"} # {}
    \/ site.words = "early" \/ (site.words = "right" /\ sent > 0)

\* What apply_to_job returns is what the table has, but for LinkedIn and
\* Workday, whose returns write nothing.
ReturnedIsRecorded ==
  result \in Finals =>
    \/ row = result
    \/ row = "in_progress"
       /\ (setup.landing \in {"linkedin", "workday"} \/ "workday" \in past)

\* Every application ends if the human answers every prompt.
JobEnds == <>(pc = "end")

\* pause_for_form_review: "Waits indefinitely for ENTER (no timeout - human
\* must confirm explicitly)".  The program submits nothing meanwhile.
ReviewWaits == [][Program /\ pc = "pause" => sent' = sent]_vars

\* The hint of the review: "Type cancel + ENTER to abort."  After it the
\* program sends nothing for this job.
CancelAborts == [][Program /\ run.declined => sent' = sent]_vars

\* The panel of the branch without an LLM: "Validation errors detected ... Fix
\* the highlighted fields".  A form that refused the click is not SUBMITTED
\* while the human never said so.
SubmittedWasSent ==
  result = "submitted" /\ "human" \notin past
  /\ site.words = "right" => sent > 0
=============================================================================
