---------------------------- MODULE ToolExecutor ----------------------------
(***************************************************************************)
(* The execution of the LLM's plans in one form                            *)
(* (orchestration/tool_executor.py): the filter that drops what is filled  *)
(* already (engine.py), the guards of an action, the strategies that look  *)
(* for its element, typing, choosing an option, answering a question among *)
(* others, and attaching a file.  Meanwhile the extension, the parser of   *)
(* an attached resume and the human fill, edit and remove at any time.     *)
(*                                                                         *)
(* An action names a field by its label.  What a label finds is a matter   *)
(* of the page: the relation Alike says which fields a label may be taken  *)
(* for, TitleScore how well the title of a question matches another, and   *)
(* Layouts how pages are built.                                            *)
(***************************************************************************)
EXTENDS Integers, FiniteSets

CONSTANTS
  Text,       \* fields to type into
  Dropdowns,  \* fields to choose an option in
  Questions,  \* questions of one kind, say Yes or No
  Place,      \* Place[q]: where the question stands in the document
  Alike,      \* Alike[f]: the fields the label of f may be taken for
  TitleScore, \* TitleScore[q][p]: how the title of p matches that of q
  Layouts,    \* the pages: records of Layout
  MaxActions, \* bound: actions of a plan
  MaxPlans,   \* bound: plans
  MaxTouches  \* bound: what others do to the form

Fields == Text \cup Dropdowns
\* A question has a legend or only a text beside it; a pair of buttons or radio
\* buttons; and, a few levels up, an element with other questions in it or none.
\* After an upload the page shows what is attached, or nothing, or its traces stay.
Layout == [legends : BOOLEAN, pairs : SUBSET Questions, near : BOOLEAN,
           deletes : BOOLEAN, shows : {"files", "nothing", "traces"}]

Slots  == {"parser", "resume", "cover"}
Files  == {"resume", "cover"}

ASSUME ToolExecutorAssumption ==
  /\ Text \cap Dropdowns = {}
  /\ Place \in [Questions -> Nat]
  /\ \A q, p \in Questions : q # p => Place[q] # Place[p]
  /\ Alike \in [Fields -> SUBSET Fields]
  /\ TitleScore \in [Questions -> [Questions -> 0..3]]
  /\ \A q \in Questions : TitleScore[q][q] = 3
  /\ Layouts \subseteq Layout
  /\ MaxActions \in Nat \ {0} /\ MaxPlans \in Nat /\ MaxTouches \in Nat

VARIABLES
  val,     \* the form: what is in each field
  answer,  \*   how each question is answered
  file,    \*   what is attached in each slot
  layout,  \*   how the page is built
  snap,    \* _snapshot_filled, read when the plan was filtered
  doing,   \* what the executor is doing
  act,     \* with which action
  todo,    \* how many actions the plan still has
  done,    \* _completed_uploads
  failed,  \* whether _failed_actions has one
  plans, touches

form == <<val, answer, file>>
toolVars == <<form, layout, snap, doing, act, todo, done, failed, plans, touches>>

Actions ==
  [kind : {"fill"}, on : Fields, sure : BOOLEAN]
  \cup [kind : {"select"}, on : Dropdowns \cup Questions, sure : BOOLEAN]
  \cup [kind : {"click"}, on : Questions]
  \cup [kind : {"upload"}, on : Slots, what : Files]
  \cup [kind : {"advance"}]

NoAction == [kind |-> "none"]

ToolTypeOK ==
  /\ val \in [Fields -> {"empty", "theirs", "mine", "wrong"}]
  /\ answer \in [Questions -> {"none", "theirs", "mine"}]
  /\ file \in [Slots -> Files \cup {"none"}]
  /\ layout \in Layouts
  /\ snap \subseteq Fields
  /\ doing \in {"idle", "next", "act", "type", "radio", "pair", "plain", "upload", "attach"}
  /\ act \in Actions \cup {NoAction} /\ (act = NoAction <=> doing \in {"idle", "next"})
  /\ todo \in 0..MaxActions /\ done \subseteq Files /\ failed \in BOOLEAN
  /\ plans \in 0..MaxPlans /\ touches \in 0..MaxTouches

ToolInit ==
  /\ val \in [Fields -> {"empty", "theirs"}]
  /\ answer = [q \in Questions |-> "none"]
  /\ file \in {[s \in Slots |-> "none"],
               [s \in Slots |-> IF s = "resume" THEN "resume" ELSE "none"]}
  /\ layout \in Layouts
  /\ snap = {} /\ doing = "idle" /\ act = NoAction /\ todo = 0
  /\ done = {} /\ failed = FALSE /\ plans = 0 /\ touches = 0

rest == <<layout, snap, done, plans, touches>>

-----------------------------------------------------------------------------
(* A plan                                                                  *)

HasValue == {f \in Fields : val[f] # "empty"}

\* _action_target_already_filled, which also takes a longer label for one of
\* its words.
Dropped(a) == a.kind \in {"fill", "select"} /\ \E f \in snap : f = a.on \/ a.on \in Alike[f]

MakePlan ==
  /\ doing = "idle" /\ plans < MaxPlans /\ plans' = plans + 1
  /\ snap' = HasValue /\ todo' = MaxActions /\ doing' = "next"
  /\ UNCHANGED <<form, layout, act, done, failed, touches>>

\* Fault: the filter is left out.
TakeUnfiltered ==
  /\ doing = "next" /\ todo > 0 /\ todo' = todo - 1
  /\ act' \in Actions /\ doing' = "act" /\ UNCHANGED <<form, rest, failed>>

Take ==
  /\ doing = "next" /\ todo > 0 /\ todo' = todo - 1
  /\ act' \in Actions /\ ~Dropped(act') /\ doing' = "act"
  /\ UNCHANGED <<form, rest, failed>>

\* The plan is through, or asks for the human and does nothing; what failed
\* goes to the engine.
PlanEnds ==
  /\ doing = "next" /\ doing' = "idle" /\ todo' = 0 /\ snap' = {} /\ failed' = FALSE
  /\ UNCHANGED <<form, layout, act, done, plans, touches>>

Report(ok) == /\ doing' = "next" /\ act' = NoAction /\ failed' = (failed \/ ~ok)
              /\ UNCHANGED <<layout, snap, todo, done, plans, touches>>

Become(stage) == doing' = stage /\ UNCHANGED <<layout, snap, act, todo, done, failed, plans, touches>>

\* A doubtful fill is passed over and does not count as failed.
PassOver ==
  /\ doing = "act" /\ act.kind \in {"fill", "select"} /\ ~act.sure
  /\ Report(TRUE) /\ UNCHANGED form

\* The guard of execute_action, when the label happens to be a selector.
SkipRefill ==
  /\ doing = "act" /\ act.kind \in {"fill", "select"} /\ act.sure
  /\ act.on \in HasValue /\ Report(TRUE) /\ UNCHANGED form

-----------------------------------------------------------------------------
(* Typing                                                                  *)

Found(f) == Alike[f] \cup {f}

\* An element is found and read: a value that is there stays, and typing that
\* was refused counts as done.
LookAtField ==
  /\ doing = "act" /\ act.kind = "fill" /\ act.sure /\ UNCHANGED form
  /\ \E f \in Found(act.on) \cap Text :
       IF f \in HasValue THEN Report(TRUE)
       ELSE /\ doing' = "type" /\ act' = [act EXCEPT !.on = f]
            /\ UNCHANGED <<rest, todo, failed>>

\* Select all, delete, type.
Type ==
  /\ doing = "type" /\ val' = [val EXCEPT ![act.on] = "mine"]
  /\ Report(TRUE) /\ UNCHANGED <<answer, file>>

\* The last resort is a script that sets the best scoring field of any frame,
\* whatever it holds.
DeepSearch ==
  /\ doing = "act" /\ act.kind = "fill" /\ act.sure /\ UNCHANGED <<answer, file>>
  /\ \/ \E f \in Found(act.on) \cap Text :
          val' = [val EXCEPT ![f] = "mine"] /\ Report(TRUE)
     \/ Report(FALSE) /\ UNCHANGED val

-----------------------------------------------------------------------------
(* Dropdowns                                                               *)

OnDropdown == doing = "act" /\ act.kind \in {"fill", "select"} /\ act.sure
              /\ act.on \in Fields

\* A fill that finds a dropdown goes on as a select.  An option that is chosen
\* by a match stays; another one is replaced.
SelectOption ==
  /\ OnDropdown /\ UNCHANGED <<answer, file>>
  /\ \E f \in Found(act.on) \cap Dropdowns :
       \/ f \in HasValue /\ Report(TRUE) /\ UNCHANGED val
       \/ val' = [val EXCEPT ![f] = "mine"] /\ Report(TRUE)

\* _click_and_fill_combobox: ArrowDown and Enter take the first option, which
\* need not be the one that was meant.
SelectFails ==
  /\ OnDropdown /\ Report(FALSE) /\ UNCHANGED <<answer, file>>
  /\ \E f \in Found(act.on) \cap Dropdowns :
       val' \in {val, [val EXCEPT ![f] = "wrong"]}

-----------------------------------------------------------------------------
(* Questions                                                               *)

First(S) == CHOOSE p \in S : \A r \in S : Place[p] <= Place[r]

Radios == Questions \ layout.pairs

\* _select_scoped_radio goes up from a button of p until a legend, or the text of an
\* element, has the title of q: its own, or that of the element around them all.
RadioScore(q, p) ==
  LET own == IF ~layout.legends /\ TitleScore[q][p] = 3 THEN 2 ELSE TitleScore[q][p]
  IN  IF own < 2 /\ layout.near THEN 2 ELSE own

Matched(q) == {p \in Radios : RadioScore(q, p) > 0}

\* Fault: any match is as good as another.
FirstRadio(q) == First(Matched(q))

\* The best score, the first in the document among equals.
BestRadio(q) ==
  First({p \in Matched(q) : \A r \in Matched(q) : RadioScore(q, p) >= RadioScore(q, r)})

\* The fieldsets with radio buttons, and the best of them: by their legends only.
Fieldsets(q) == {p \in Radios : layout.legends /\ TitleScore[q][p] > 0}

BestFieldset(q) ==
  First({p \in Fieldsets(q) : \A r \in Fieldsets(q) : TitleScore[q][p] >= TitleScore[q][r]})

\* Buttons are looked for from the titles that match at all, going up from each
\* until there are some; the first title that leads to any decides.
Titled(q) == {p \in Questions : TitleScore[q][p] > 0}

PairFrom(p) ==
  IF p \in layout.pairs THEN {p}
  ELSE IF layout.near /\ layout.pairs # {} THEN {First(layout.pairs)} ELSE {}

PairOf(q) ==
  LET leads == {p \in Titled(q) : PairFrom(p) # {}}
  IN  IF leads = {} THEN {} ELSE PairFrom(First(leads))

Choose(p) == answer' = [answer EXCEPT ![p] = "mine"] /\ Report(TRUE)

\* Ashby's click_option, where it finds something; else, and elsewhere, the generic
\* searches.
ClickOption ==
  /\ doing = "act" /\ act.kind \in {"select", "click"} /\ act.on \in Questions
  /\ act.kind = "select" => act.sure
  /\ UNCHANGED <<val, file>>
  /\ \/ Fieldsets(act.on) # {} /\ Choose(BestFieldset(act.on))
     \/ Fieldsets(act.on) = {} /\ \E p \in PairOf(act.on) : Choose(p)
     \/ Become("radio") /\ UNCHANGED answer

\* Checked afterwards.
SelectRadio ==
  /\ doing = "radio" /\ UNCHANGED <<val, file>>
  /\ \/ Matched(act.on) # {} /\ Choose(BestRadio(act.on))
     \/ Become("pair") /\ UNCHANGED answer

\* Not checked; a click goes on if nothing was found.
SelectPair ==
  /\ doing = "pair" /\ UNCHANGED <<val, file>>
  /\ \/ \E p \in PairOf(act.on) : Choose(p)
     \/ /\ UNCHANGED answer
        /\ \/ act.kind = "click" /\ Become("plain")
           \/ act.kind = "select" /\ Report(FALSE)

\* A click on the first element that has the title for a name or in its text, which
\* may be an option; or else on what looks like Continue.
PlainClick ==
  /\ doing = "plain" /\ UNCHANGED <<val, file>>
  /\ \/ Choose(First({p \in Questions : TitleScore[act.on][p] >= 2}))
     \/ UNCHANGED answer /\ \E ok \in BOOLEAN : Report(ok)

\* Next, Continue or Submit; what it does to the page is ApplyJob's.
Advance == /\ doing = "act" /\ act.kind = "advance" /\ UNCHANGED form
           /\ \E ok \in BOOLEAN : Report(ok)

-----------------------------------------------------------------------------
(* Files                                                                   *)

Attached == {s \in Slots : file[s] # "none"}

\* Refused: a resume for the cover letter, and a parser, which counts as done.
RefuseUpload ==
  /\ doing = "act" /\ act.kind = "upload" /\ UNCHANGED form
  /\ \/ act.on = "cover" /\ act.what = "resume" /\ Report(FALSE)
     \/ act.on = "parser" /\ Report(TRUE)

Uploads == doing = "act" /\ act.kind = "upload" /\ act.on # "parser"
           /\ ~(act.on = "cover" /\ act.what = "resume")

\* Fault: what was uploaded once is there.
AlreadyUploadedOnce ==
  /\ Uploads /\ UNCHANGED form
  /\ IF act.what \in done THEN Report(TRUE) ELSE Become("upload")

\* _verify_upload_present: the name of the file anywhere, a file in any input, or a
\* Remove button near the word resume.
Present == layout.shows = "traces" \/ (layout.shows = "files" /\ Attached # {})

AlreadyUploaded ==
  /\ Uploads /\ UNCHANGED form
  /\ IF act.what \in done /\ Present THEN Report(TRUE) ELSE Become("upload")

\* The Delete button that comes first makes the upload zone appear again.
DeleteFirst ==
  /\ doing = "upload" /\ Become("attach") /\ UNCHANGED <<val, answer>>
  /\ \/ UNCHANGED file
     \/ /\ layout.deletes
        /\ \E s \in Attached : file' = [file EXCEPT ![s] = "none"]

\* In the section that has the label, else in any but a parser, else in
\* whatever scrolling brings up.
Attach ==
  /\ doing = "attach" /\ UNCHANGED <<val, answer>>
  /\ \/ /\ \E s \in Slots : file' = [file EXCEPT ![s] = act.what]
        /\ doing' = "next" /\ act' = NoAction /\ done' = done \cup {act.what}
        /\ UNCHANGED <<layout, snap, todo, failed, plans, touches>>
     \/ Report(FALSE) /\ UNCHANGED file

-----------------------------------------------------------------------------
(* The others                                                              *)

\* The extension and the parser fill what is empty, the human edits anything.
Touch ==
  /\ touches < MaxTouches /\ touches' = touches + 1
  /\ \/ \E f \in Fields : val' = [val EXCEPT ![f] = "theirs"] /\ UNCHANGED <<answer, file>>
     \/ \E q \in Questions : answer' = [answer EXCEPT ![q] = "theirs"] /\ UNCHANGED <<val, file>>
     \/ \E s \in Slots : file' = [file EXCEPT ![s] = "none"] /\ UNCHANGED <<val, answer>>
  /\ UNCHANGED <<layout, snap, doing, act, todo, done, failed, plans>>

\* A click led to another tab: a new form and a new executor.
FollowNewTab ==
  /\ doing = "idle" /\ touches < MaxTouches /\ touches' = touches + 1
  /\ val' = [f \in Fields |-> "empty"] /\ answer' = [q \in Questions |-> "none"]
  /\ file' = [s \in Slots |-> "none"] /\ done' = {}
  /\ UNCHANGED <<layout, snap, doing, act, todo, failed, plans>>

Executes == \/ MakePlan \/ Take \/ PlanEnds \/ PassOver \/ SkipRefill
            \/ LookAtField \/ Type \/ DeepSearch \/ SelectOption \/ SelectFails
            \/ ClickOption \/ SelectRadio \/ SelectPair \/ PlainClick \/ Advance
            \/ RefuseUpload \/ AlreadyUploaded \/ DeleteFirst \/ Attach

ToolNext == Executes \/ Touch \/ FollowNewTab

ToolSpec == ToolInit /\ [][ToolNext]_toolVars

-----------------------------------------------------------------------------
(* Properties                                                              *)

\* "Don't-refill filter": a field that had a value when the plan was filtered
\* keeps it, unless its label is taken for another's.
FilledBeforeThePlanIsKept ==
  [][Executes /\ doing # "idle" =>
       \A f \in snap : val[f] = "theirs" /\ (\A g \in Fields \ {f} : f \notin Alike[g])
                       => val'[f] = "theirs"]_toolVars

\* No earlier title matches that of q.
Told(q) == \A p \in Titled(q) : Place[q] <= Place[p]

\* The searches that take the first match instead of the best.
FirstMatch == layout.pairs = Questions \/ doing = "plain"

\* On pages whose questions have legends, and all of them radio buttons or all of
\* them pairs of buttons, an answer goes to the question it is for, through the
\* handler and every search behind it; where these take the first match, unless an
\* earlier title matches too.
AnswersItsQuestion ==
  [][Executes /\ layout.legends /\ layout.pairs \in {{}, Questions} =>
       \A q \in Questions : answer'[q] # answer[q] =>
         act.on = q \/ (FirstMatch /\ ~Told(act.on))]_toolVars

\* On pages where no trace of a file stays when it is taken away, an upload that is
\* reported done leaves something attached, whatever was uploaded before.
UploadIsThere ==
  [][(Executes /\ act.kind = "upload" /\ act.on # "parser" /\ act' = NoAction
      /\ ~failed /\ ~failed' /\ layout.shows # "traces") => Attached' # {}]_toolVars

\* "so we never cross-contaminate two Yes/No questions on the same page".
NeverCrossContaminates ==
  [][Executes => \A q \in Questions : answer'[q] # answer[q] => act.on = q]_toolVars
=============================================================================
