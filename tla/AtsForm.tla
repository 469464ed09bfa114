------------------------------ MODULE AtsForm ------------------------------
(***************************************************************************)
(* The handlers of ats/handlers on the site of a job: click Apply, fill    *)
(* the form, go through the steps, submit, and tell whether it was sent    *)
(* (orchestration/engine.py, _fill_form_rules); or only fill it, before    *)
(* and again after an upload (_run_rules_prefill).  A handler is a record  *)
(* of the order of its parts and of the controls it looks for, after which *)
(* it does what the generic handler does.  Site, parser and the user who   *)
(* watches are the environment.  Rows and Workday: module FormRows.        *)
(***************************************************************************)
EXTENDS AshbyAnswers, FiniteSets, FiniteSetsExt

CONSTANTS
  Handlers,    \* the handlers to look at: a set of the records below
  Sites,       \* the sites: see SiteType
  Starts,      \* the values the form may already hold: [Text -> Values]
  MaxMoves,    \* Next clicks: max_steps of _fill_form_rules
  MaxLate,     \* clicks that time out although the site got them
  MaxEdits,    \* fields the user types into meanwhile
  MaxOverlays  \* overlays that appear

Text       == {"name", "zip", "location"}  \* text fields; the resume has a value for each
TextSeq    == <<"name", "zip", "location">>
Selects    == {"place", "auth", "eeo", "consent"}
Values     == {"empty", "ours", "parsed", "human"}
Posting    == 0
Thanks     == 3
Elsewhere  == 4

\* A site: shown, the text fields there are, and selects; own, the fields the
\* handler's selectors find; look, what a field says of itself; stiff, fields
\* whose fill fails; needs, required fields; later, the last step requires what
\* no pass fills; pages, the steps; typedNext, Next is a type=submit; embedded,
\* the form loads below the posting; file, there is a file input; more, the
\* thank-you page offers another job; lag, a page stays for a while after a
\* click; slug, the URL has a word like "success"; essays, Ashby's textareas, and
\* questions: their topic and kind (a pair of buttons, radio buttons, or any other
\* label), and reach, the question at whose Yes and No a search from the title ends:
\* its own, the nearest above it, that of an earlier title that matches, or 0.
ASSUME AtsFormAssumption ==
  /\ {MaxMoves, MaxLate, MaxEdits, MaxOverlays} \subseteq Nat /\ MaxMoves > 0
  /\ \A s \in Sites :
       /\ s.own \subseteq s.shown /\ s.shown \subseteq Text /\ s.selects \subseteq Selects
       /\ s.needs \subseteq s.shown /\ s.stiff \subseteq s.shown
       /\ s.pages \in {1, 2} /\ (s.later => s.pages = 2)
       /\ s.essays \in Seq(STRING)
       /\ \A q \in DOMAIN s.questions : s.questions[q].reach \in {0} \cup DOMAIN s.questions
  /\ Starts \subseteq [Text -> Values]

-----------------------------------------------------------------------------
(* FieldConfidenceScorer                                                   *)

Weight == [name |-> 40, id |-> 40, aria_label |-> 35, label_text |-> 35, placeholder |-> 20]

\* The confidence for a field: hits are the attributes and keywords <<a, k>> with k
\* in a, exact those of them where a says nothing else, near the long keywords around
\* it, kind whether the input type fits; an autocomplete attribute settles it.
Score(look) ==
  LET keyword == MapThenSumSet(LAMBDA m : Weight[m[1]], look.hits)
                 + MapThenSumSet(LAMBDA m : Weight[m[1]] \div 2, look.exact)
      whole == Min({keyword, 70}) + Min({5 * look.near, 15}) + (IF look.kind THEN 15 ELSE 5)
  IN IF look.auto THEN 99
     ELSE Min({100, IF look.hits = {} THEN Min({whole, 30}) ELSE whole})

CONFIDENCE_THRESHOLD == 70

Confident(s, f) == f \in s.shown /\ Score(s.look[f]) >= CONFIDENCE_THRESHOLD

-----------------------------------------------------------------------------
(* The handlers.  own, personal, generic: text fields by the handler's     *)
(* selectors, by confidence, by confidence if anything failed.  absent,    *)
(* noFile: what is noted for a field, or file input, that is not there.    *)
(* then: after the own Next list the generic one, nothing, or (never) no   *)
(* list at all.                                                            *)

Handler(parts, absent, noFile, apply, next, then, submit) ==
  [parts |-> parts, absent |-> absent, noFile |-> noFile, apply |-> apply,
   next |-> next, then |-> then, submit |-> submit]

PersonalFirst == <<"personal", "upload", "generic">>
OwnFirst      == <<"own", "upload", "generic">>

Generic == Handler(<<"personal", "upload", "auth", "eeo">>, "none", "no",
                   <<>>, <<>>, "super", <<>>)

ADP            == Handler(PersonalFirst, "none", "no", <<"apply">>, <<"next">>, "super", <<"send", "typed">>)
Avature        == Handler(PersonalFirst, "none", "no", <<"apply">>, <<"next">>, "super", <<"send", "typed">>)
Breezy         == Handler(PersonalFirst, "none", "no", <<"apply">>, <<>>, "super", <<"typed", "send">>)
Cornerstone    == Handler(PersonalFirst, "none", "no", <<"apply">>, <<"next">>, "super", <<"send", "typed">>)
ICIMS          == Handler(<<"personal", "upload", "auth", "generic">>, "none", "no",
                          <<"apply">>, <<"next">>, "super", <<"send", "typed">>)
Paylocity      == Handler(PersonalFirst, "none", "no", <<"apply">>, <<"next">>, "super", <<"send", "typed">>)
SuccessFactors == Handler(PersonalFirst, "none", "no", <<"apply">>, <<"next">>, "super", <<"send", "typed">>)
UKG            == Handler(PersonalFirst, "none", "no", <<"apply">>, <<"next">>, "super", <<"send", "typed">>)

BambooHR  == Handler(OwnFirst, "none", "no", <<"apply">>, <<>>, "super", <<"send", "main", "typed">>)
JazzHR    == Handler(OwnFirst, "no", "no", <<"apply">>, <<>>, "super", <<"send", "typed">>)
Jobvite   == Handler(OwnFirst, "no", "no", <<"apply">>, <<"next">>, "super", <<"send", "main", "typed">>)
Recruitee == Handler(OwnFirst, "none", "no", <<"apply">>, <<>>, "super", <<"typed", "send">>)
Taleo     == Handler(OwnFirst, "none", "none", <<"apply">>, <<"next">>, "super", <<"send", "typed">>)
Workable  == Handler(OwnFirst, "none", "no", <<"apply">>, <<>>, "super", <<"send", "typed">>)
\* SmartRecruiters does not look whether a field is there.
SmartRecruiters == Handler(OwnFirst, "yes", "no", <<"apply", "next", "apply">>, <<"next">>, "super",
                           <<"send", "typed">>)
Phenom    == Handler(<<"upload", "own", "generic">>, "none", "no", <<"apply">>, <<"next">>, "super",
                     <<"send", "typed">>)

\* The apply list of Greenhouse begins with the button that sends.
GreenhouseParts == <<"own", "upload", "custom", "generic">>
GreenhouseApply == <<"send", "apply">>
Greenhouse == Handler(GreenhouseParts, "no", "no", GreenhouseApply, <<"next">>, "stop",
                      <<"send", "typed">>)

\* A field Lever does not see counts as filled.
LeverParts == <<"upload", "own", "place", "auth", "consent", "eeo", "generic">>
LeverApply == <<"apply">>
Lever == Handler(LeverParts, "yes", "no", LeverApply, <<>>, "never", <<"send", "typed">>)

AshbyParts == <<"upload", "own", "place", "pairs", "radios", "essays", "rest">>
AshbyApply == <<"apply", "typed">>
Ashby == Handler(AshbyParts, "none", "none", AshbyApply, <<>>, "super", <<"typed", "send", "main">>)

Supported == {ADP, Avature, Breezy, Cornerstone, ICIMS, Paylocity, SuccessFactors, UKG, BambooHR,
              JazzHR, Jobvite, Recruitee, Taleo, Workable, SmartRecruiters, Phenom, Greenhouse,
              Lever, Ashby, Generic}

ASSUME HandlersAssumption == Handlers \subseteq Supported

-----------------------------------------------------------------------------

VARIABLES
  h, site, mode,  \* the handler, the site, "rules" or "prefill"
  val,      \* who wrote each text field
  select,   \* the selects, radios and boxes: "none", "ours" or "human"
  ans,      \*   the Ashby questions, likewise
  essay,    \*   and the textareas
  resume,   \* the file: "none", "uploaded", "parsed"
  page,     \* what the browser shows
  moving,   \* the page that is loading, or the one shown
  errors,   \* whether validation errors are on the screen
  overlay,  \* whether a dialog covers the page
  sent,     \* applications the site accepted
  pc,       \* where the pass is
  part,     \*   the part of the fill
  cur,      \*   the field, question or essay
  typing,   \*   whether it is found empty and about to be typed into
  used,     \*   used_answers
  results,  \*   what the pass notes: "none", "no" or "yes"
  whose,    \*   the handler's own list of selectors, or the generic one
  item,     \*   the selector
  round,    \*   the round over the list
  moves,    \*   handle_multi_step calls that went on
  pass,     \*   the prefill pass
  verdict,  \* what was reported
  start,    \* history: the text fields when the pass began
  left,     \*   what the environment may still do
  early     \*   applications accepted before the fill

setup   == <<h, site, mode>>
form    == <<val, select, ans, essay, resume>>
browser == <<page, moving, errors, overlay, sent>>
filling == <<part, cur, typing, used, results>>
clicks  == <<whose, item, round, moves>>
ledger  == <<pass, start, early>>
vars == <<setup, form, browser, pc, filling, clicks, verdict, ledger, left>>

Questions == DOMAIN site.questions
Essays    == DOMAIN site.essays
Blank     == [by |-> "none", pass |-> 0, text |-> ""]
Nothing   == [k \in Text \cup {"resume", "custom"} |-> "none"]

TypeOK ==
  /\ h \in Handlers /\ site \in Sites /\ mode \in {"rules", "prefill"}
  /\ val \in [Text -> Values] /\ start \in [Text -> Values]
  /\ select \in [Selects -> {"none", "ours", "human"}]
  /\ ans \in [Questions -> {"none", "ours", "human"}]
  /\ \A e \in Essays : essay[e].by \in {"none", "ours", "human"}
  /\ resume \in {"none", "uploaded", "parsed"}
  /\ page \in Posting..Elsewhere /\ moving \in Posting..Elsewhere
  /\ {errors, overlay, typing} \subseteq BOOLEAN
  /\ pc \in {"apply", "fill", "again", "next", "submit", "check", "recheck", "judge", "done"}
  /\ part \in 1..Len(h.parts) + 1 /\ cur \in Nat \ {0} /\ item \in Nat \ {0}
  /\ results \in [Text \cup {"resume", "custom"} -> {"none", "no", "yes"}]
  /\ whose \in {"own", "super"} /\ round \in 1..3 /\ moves \in 0..MaxMoves /\ pass \in 1..2
  /\ verdict \in {"none", "yes", "no"} /\ sent \in Nat /\ early \in 0..sent
  /\ left \in [late : 0..MaxLate, edits : 0..MaxEdits, overlays : 0..MaxOverlays]

Init ==
  /\ h \in Handlers /\ site \in Sites /\ mode \in {"rules", "prefill"}
  /\ h # Ashby => site.questions = <<>> /\ site.essays = <<>>
  /\ val \in {v \in Starts : \A f \in Text \ site.shown : v[f] = "empty"} /\ start = val
  /\ select = [s \in Selects |-> "none"]
  /\ ans \in {[q \in Questions |-> who] : who \in {"none", "human"}}
  /\ essay = [e \in Essays |-> Blank] /\ resume = "none"
  /\ page = (IF mode = "rules" THEN Posting ELSE 1) /\ moving = page
  /\ pc = (IF mode = "rules" THEN "apply" ELSE "fill")
  /\ errors = FALSE /\ overlay = FALSE /\ sent = 0 /\ early = 0
  /\ part = 1 /\ cur = 1 /\ typing = FALSE /\ used = {} /\ results = Nothing
  /\ whose = "own" /\ item = 1 /\ round = 1 /\ moves = 0 /\ pass = 1 /\ verdict = "none"
  /\ left = [late |-> MaxLate, edits |-> MaxEdits, overlays |-> MaxOverlays]

-----------------------------------------------------------------------------
(* The browser                                                             *)

FormControls(p) ==
  {"main"} \cup (IF p < site.pages
                 THEN {"next"} \cup (IF site.typedNext THEN {"typed"} ELSE {})
                 ELSE {"send", "typed"})

\* What the selectors find on the page.
Controls ==
  CASE page = Posting -> {"apply", "main"} \cup (IF site.embedded THEN FormControls(1) ELSE {})
    [] page \in {1, 2} -> IF page > site.pages THEN {} ELSE FormControls(page)
    [] page = Thanks -> IF site.more THEN {"apply", "main"} ELSE {}
    [] OTHER -> {}

Complete(p) ==
  /\ \A f \in site.needs : val[f] # "empty"
  /\ ~(site.later /\ p = site.pages)

\* The site goes to a page, at once or after a while.
Loads(p) ==
  /\ moving' = p
  /\ IF site.lag THEN UNCHANGED <<page, errors>> ELSE page' = p /\ errors' = FALSE

\* The site gets a click on a control.
Click(c) ==
  LET p == IF page = Posting THEN 1 ELSE page
      ofForm == page \in {1, 2} \/ (page = Posting /\ c \notin {"apply", "main"})
  IN /\ IF ~ofForm THEN Loads(IF page = Posting THEN 1 ELSE Elsewhere) /\ UNCHANGED sent
        ELSE IF ~Complete(p) THEN errors' = TRUE /\ UNCHANGED <<page, moving, sent>>
        ELSE IF p < site.pages THEN Loads(p + 1) /\ UNCHANGED sent
        ELSE Loads(Thanks) /\ sent' = sent + 1
     /\ early' = IF pc = "apply" THEN sent' ELSE early

\* A page that was loading is there.
Land ==
  /\ moving # page /\ page' = moving /\ errors' = FALSE
  /\ UNCHANGED <<setup, form, moving, overlay, sent, pc, filling, clicks, verdict, ledger, left>>

\* The parser of the site writes into fields, whoever wrote them.
Parse ==
  /\ resume = "uploaded" /\ resume' = "parsed" /\ pc # "done"
  /\ \E fs \in SUBSET site.shown : val' = [f \in Text |-> IF f \in fs THEN "parsed" ELSE val[f]]
  /\ UNCHANGED <<setup, select, ans, essay, browser, pc, filling, clicks, verdict, ledger, left>>

\* The user, who watches, types into a field.
Edit ==
  /\ left.edits > 0 /\ pc # "done" /\ left' = [left EXCEPT !.edits = @ - 1]
  /\ \E f \in site.shown : val[f] # "human" /\ val' = [val EXCEPT ![f] = "human"]
  /\ UNCHANGED <<setup, select, ans, essay, resume, browser, pc, filling, clicks, verdict, ledger>>

\* A dialog or a banner opens.
Cover ==
  /\ left.overlays > 0 /\ ~overlay /\ pc \in {"apply", "next", "submit"}
  /\ overlay' = TRUE /\ left' = [left EXCEPT !.overlays = @ - 1]
  /\ UNCHANGED <<setup, form, page, moving, errors, sent, pc, filling, clicks, verdict, ledger>>

-----------------------------------------------------------------------------
(* Lists of selectors                                                      *)

List ==
  IF whose = "own"
  THEN CASE pc = "apply" -> h.apply [] pc = "next" -> h.next [] OTHER -> h.submit
  ELSE CASE pc = "apply" -> <<"apply", "typed">> [] pc = "next" -> <<"next">>
         [] OTHER -> <<"send", "typed", "apply">>

Rounds == IF whose = "own" THEN 1 ELSE IF pc = "next" THEN 2 ELSE 3

\* The selectors from here on that find something.
Ahead == {k \in item..Len(List) : List[k] \in Controls}

Enter(step) == pc' = step /\ whose' = "own" /\ item' = 1 /\ round' = 1

Finish(outcome) == Enter("done") /\ verdict' = outcome

\* The list returned True, or False.
Succeeds ==
  \/ pc = "apply" /\ Enter("fill") /\ UNCHANGED <<moves, verdict>>
  \/ /\ pc = "next" /\ moves' = moves + 1 /\ UNCHANGED verdict
     /\ Enter(IF moves + 1 < MaxMoves THEN "next" ELSE "submit")
  \/ pc = "submit" /\ Enter("judge") /\ UNCHANGED <<moves, verdict>>

Fails ==
  \/ pc = "next" /\ Enter("submit") /\ UNCHANGED <<moves, verdict>>
  \/ pc \in {"apply", "submit"} /\ Finish("no") /\ UNCHANGED moves

Plausible == page = Thanks \/ site.slug

\* Whether a list is gone through at all.
Listing ==
  /\ pc \in {"apply", "next", "submit"}
  /\ ~(pc = "apply" /\ h = Ashby /\ page = Posting /\ site.embedded)
  /\ ~(pc = "next" /\ h.then = "never")
  /\ ~(pc = "submit" /\ h = Ashby)

\* Fault: a submit that worked does not end the loop.
SubmitGoesOn ==
  /\ Listing /\ Ahead # {} /\ ~overlay /\ Click(List[Min(Ahead)])
  /\ IF pc = "submit"
     THEN item' = Min(Ahead) + 1 /\ UNCHANGED <<pc, whose, round, moves, verdict>>
     ELSE Succeeds
  /\ UNCHANGED <<setup, form, overlay, filling, pass, start, left>>

\* The first selector that finds something is clicked.
Hit ==
  /\ Listing /\ Ahead # {} /\ ~overlay
  /\ Click(List[Min(Ahead)]) /\ Succeeds
  /\ UNCHANGED <<setup, form, overlay, filling, pass, start, left>>

\* The site gets the click, and the call times out: the next selector.
HitLate ==
  /\ Listing /\ Ahead # {} /\ ~overlay
  /\ left.late > 0 /\ left' = [left EXCEPT !.late = @ - 1]
  /\ Click(List[Min(Ahead)]) /\ item' = Min(Ahead) + 1
  /\ UNCHANGED <<setup, form, overlay, pc, filling, whose, round, moves, verdict, pass, start>>

\* The click is intercepted: the generic list dismisses the dialog and tries
\* again, the own one takes the next selector.
Intercepted ==
  /\ Listing /\ Ahead # {} /\ overlay
  /\ IF whose = "own" THEN item' = Min(Ahead) + 1 /\ UNCHANGED overlay
     ELSE overlay' = FALSE /\ UNCHANGED item
  /\ UNCHANGED <<setup, form, page, moving, errors, sent, pc, filling, whose, round, moves, verdict,
                 ledger, left>>

\* handle_multi_step ends: Greenhouse has no generic list, and the generic one
\* looks for a confirmation first.
Stops == pc = "next" /\ (h.then = "stop" \/ Plausible)

\* From the own list to the generic one, which first dismisses dialogs.
ToSuper ==
  /\ Listing /\ Ahead = {} /\ whose = "own" /\ ~Stops
  /\ whose' = "super" /\ item' = 1 /\ overlay' = FALSE
  /\ UNCHANGED <<setup, form, page, moving, errors, sent, pc, filling, round, moves, verdict,
                 ledger, left>>

\* Another round over the generic list.
Round ==
  /\ Listing /\ Ahead = {} /\ whose = "super" /\ round < Rounds
  /\ round' = round + 1 /\ item' = 1
  /\ UNCHANGED <<setup, form, browser, pc, filling, whose, moves, verdict, ledger, left>>

\* The list returns False.
GiveUp ==
  /\ Listing /\ Ahead = {} /\ IF whose = "own" THEN Stops ELSE round = Rounds
  /\ Fails
  /\ UNCHANGED <<setup, form, browser, filling, ledger, left>>

\* Ashby takes a form that is there for the answer; Lever has no Next, and goes
\* on as long as it sees no confirmation.
WithoutList ==
  /\ \/ pc = "apply" /\ h = Ashby /\ page = Posting /\ site.embedded /\ Succeeds
     \/ pc = "next" /\ h.then = "never" /\ IF Plausible THEN Fails ELSE Succeeds
  /\ UNCHANGED <<setup, form, browser, filling, ledger, left>>

\* _fill_form_rules looks at the page, and not at what was clicked.
Judge ==
  /\ pc = "judge" /\ Finish(IF Plausible THEN "yes" ELSE "no")
  /\ UNCHANGED <<setup, form, browser, filling, moves, ledger, left>>

-----------------------------------------------------------------------------
(* The submit of Ashby: click, look for errors, fix, click again           *)

AshbySubmits == pc = "submit" /\ h = Ashby

AshbyClick ==
  /\ AshbySubmits /\ Ahead # {} /\ ~overlay
  /\ Click(List[Min(Ahead)])
  /\ \/ pc' = "check" /\ item' = Min(Ahead) /\ UNCHANGED left
     \/ /\ left.late > 0 /\ left' = [left EXCEPT !.late = @ - 1]
        /\ item' = Min(Ahead) + 1 /\ UNCHANGED pc
  /\ UNCHANGED <<setup, form, overlay, filling, whose, round, moves, verdict, pass, start>>

AshbyCovered ==
  /\ AshbySubmits /\ Ahead # {} /\ overlay /\ item' = Min(Ahead) + 1
  /\ UNCHANGED <<setup, form, browser, pc, filling, whose, round, moves, verdict, ledger, left>>

\* auto_fix_validation_errors: zip code and location, whatever they hold.
Fixed == {"zip", "location"} \cap (site.own \ site.stiff)

Fix ==
  /\ val' = [f \in Text |-> IF f \in Fixed THEN "ours" ELSE val[f]]
  /\ select' = [select EXCEPT !.place = IF "place" \in site.selects THEN "ours" ELSE @]

Check ==
  /\ pc = "check"
  /\ IF errors THEN Fix /\ pc' = "recheck" ELSE pc' = "judge" /\ UNCHANGED <<val, select>>
  /\ UNCHANGED <<setup, ans, essay, resume, browser, filling, clicks, verdict, ledger, left>>

\* The same control is clicked again, unless it is covered or gone by now; when
\* errors are left it is the turn of the next selector.
Recheck ==
  /\ pc = "recheck"
  /\ LET there == h.submit[item] \in Controls /\ ~overlay
     IN /\ IF there THEN Click(h.submit[item]) ELSE UNCHANGED <<page, moving, errors, sent, early>>
        /\ IF there /\ ~errors' THEN pc' = "judge" /\ UNCHANGED item
           ELSE pc' = "submit" /\ item' = item + 1
  /\ UNCHANGED <<setup, form, overlay, filling, whose, round, moves, verdict, pass, start, left>>

\* All selectors are through: True unless errors are on the screen.
AshbyEnds ==
  /\ AshbySubmits /\ Ahead = {}
  /\ IF errors THEN Finish("no") ELSE pc' = "judge" /\ UNCHANGED <<whose, item, round, verdict>>
  /\ UNCHANGED <<setup, form, browser, filling, moves, ledger, left>>

-----------------------------------------------------------------------------
(* The fill                                                                *)

Part == IF pc = "fill" /\ part <= Len(h.parts) THEN h.parts[part] ELSE "none"

\* The next part, from its first field.
PartEnds == part' = part + 1 /\ cur' = 1 /\ UNCHANGED pc

\* The text field in turn, and whether it goes by the handler's selectors, or
\* by confidence: the part itself, the generic fallback, the second half of a
\* prefill.
ByOwn == Part = "own"
ByConfidence ==
  \/ Part = "personal"
  \/ Part = "generic" /\ (cur > 1 \/ "no" \in Range(results))
  \/ pc = "again"
Field == TextSeq[cur]

\* The location is in the own lists of Ashby and Lever only.
Listed == IF ByOwn /\ h \in {Ashby, Lever} THEN Len(TextSeq) ELSE Len(TextSeq) - 1
AtField == (ByOwn \/ ByConfidence) /\ cur <= Listed

\* Ashby also finds a field by its label.
Found ==
  IF ByOwn THEN Field \in (IF h = Ashby THEN site.shown ELSE site.own) ELSE Confident(site, Field)

Notes(k, r) == results' = [results EXCEPT ![k] = r]

\* What a fill that leaves the field alone, or fails, is noted as.
NoteUntouched == Notes(Field, IF ByOwn /\ h = Ashby THEN "none" ELSE "yes")

\* An own field that is not there.
Absent ==
  /\ ByOwn /\ AtField /\ ~Found /\ cur' = cur + 1
  /\ IF Field = "location" THEN UNCHANGED results ELSE Notes(Field, h.absent)
  /\ UNCHANGED <<setup, form, browser, pc, part, typing, used, clicks, verdict, ledger, left>>

\* should_skip_refill: the field has a value.
Keep ==
  /\ AtField /\ Found /\ ~typing /\ val[Field] # "empty"
  /\ NoteUntouched /\ cur' = cur + 1
  /\ UNCHANGED <<setup, form, browser, pc, part, typing, used, clicks, verdict, ledger, left>>

\* Fault: should_skip_refill is not asked.
LookAlways ==
  /\ AtField /\ Found /\ ~typing /\ typing' = TRUE
  /\ UNCHANGED <<setup, form, browser, pc, part, cur, used, results, clicks, verdict, ledger, left>>

\* It is empty, and is scrolled to, focussed and typed into, which takes a while.
Look ==
  /\ AtField /\ Found /\ ~typing /\ val[Field] = "empty" /\ typing' = TRUE
  /\ UNCHANGED <<setup, form, browser, pc, part, cur, used, results, clicks, verdict, ledger, left>>

Type ==
  /\ AtField /\ typing /\ Field \notin site.stiff
  /\ val' = [val EXCEPT ![Field] = "ours"] /\ Notes(Field, "yes")
  /\ typing' = FALSE /\ cur' = cur + 1
  /\ UNCHANGED <<setup, select, ans, essay, resume, browser, pc, part, used, clicks, verdict,
                 ledger, left>>

\* The own fill swallows a failure.
TypeFails ==
  /\ ByOwn /\ AtField /\ typing /\ Field \in site.stiff
  /\ NoteUntouched /\ typing' = FALSE /\ cur' = cur + 1
  /\ UNCHANGED <<setup, form, browser, pc, part, used, clicks, verdict, ledger, left>>

\* fill_personal_info: a field that scored too low, or whose fill failed, goes
\* on to the labels; the name it asks for first does not exist, and it raises.
Labels == ByConfidence /\ AtField /\ (~Found \/ (typing /\ Field \in site.stiff))

\* The first half of a prefill ends; the second half is by confidence.
HalfPass == pc' = "again" /\ part' = 1 /\ cur' = 1 /\ UNCHANGED <<whose, item, round, verdict>>

Raise ==
  /\ Labels /\ typing' = FALSE
  /\ CASE mode = "rules" -> Finish("no") /\ UNCHANGED <<part, cur>>
       [] mode = "prefill" /\ pc = "fill" -> HalfPass
       [] OTHER -> cur' = Listed + 1 /\ UNCHANGED <<pc, part, whose, item, round, verdict>>
  /\ UNCHANGED <<setup, form, browser, used, results, moves, ledger, left>>

TextEnds ==
  /\ pc = "fill" /\ cur > Listed /\ Part \in {"own", "personal", "generic"} /\ PartEnds
  /\ UNCHANGED <<setup, form, browser, typing, used, results, clicks, verdict, ledger, left>>

\* generic_fill_failed_fields: nothing failed.
NothingFailed ==
  /\ Part = "generic" /\ cur = 1 /\ "no" \notin Range(results) /\ PartEnds
  /\ UNCHANGED <<setup, form, browser, typing, used, results, clicks, verdict, ledger, left>>

Upload ==
  /\ Part = "upload"
  /\ resume' = (IF site.file /\ resume = "none" THEN "uploaded" ELSE resume)
  /\ Notes("resume", IF site.file THEN "yes" ELSE h.noFile) /\ PartEnds
  /\ UNCHANGED <<setup, val, select, ans, essay, browser, typing, used, clicks, verdict, ledger, left>>

\* Selects, radios and boxes: chosen whatever they hold, consent only when it
\* is open; EEO ones from the demographics of the resume.
Choose(p, s) ==
  /\ Part = p
  /\ LET there == s \in site.selects /\ (s = "eeo" => Resume.demographics)
     IN /\ select' = [select EXCEPT ![s] = IF there THEN "ours" ELSE @]
        /\ IF p = "custom" THEN Notes("custom", IF there THEN "yes" ELSE "no") ELSE UNCHANGED results
  /\ PartEnds
  /\ UNCHANGED <<setup, val, ans, essay, resume, browser, typing, used, clicks, verdict, ledger, left>>

FillWorkAuthorization  == Choose("auth", "auth")
FillCustomFields       == Choose("custom", "auth")
FillDemographics       == Choose("eeo", "eeo")
FillConsent            == Choose("consent", "consent")
SelectLocation         == Choose("place", "place")

-----------------------------------------------------------------------------
(* The questions of Ashby                                                  *)

Groups == {q \in Questions : site.questions[q].kind = "radio"}
Topic(q) == site.questions[q].topic
Reach(q) == site.questions[q].reach

\* Fault: the Yes/No pass has no list of words to leave alone.
PairAnswerAny(q) == YesNo(TRUE)

\* The Yes/No pass: whatever has a Yes and a No near its title, answered or not.
PairAnswer(q) == ResolveYesNo(Topic(q))

\* The pass over the radio groups that nobody answered.
GroupAnswer(q) ==
  IF Topic(q) = "transgender" THEN "No"
  ELSE IF Topic(q) \in ManualForRadios THEN "none"
  ELSE ResolveRadio(site.questions[q].options)

\* click_option: the option is on; or was, and the second click took it off; or
\* there was nothing to click.
Clicks(qs) ==
  \E got \in [qs -> {"ours", "none", "same"}] :
    ans' = [q \in Questions |-> IF q \in qs /\ got[q] # "same" THEN got[q] ELSE ans[q]]

FillYesNoQuestions ==
  /\ Part = "pairs" /\ PartEnds
  /\ Clicks({Reach(q) : q \in {q \in Questions : PairAnswer(q) # "none"}} \cap Questions)
  /\ UNCHANGED <<setup, val, select, essay, resume, browser, typing, used, results, clicks,
                 verdict, ledger, left>>

FillRadioQuestions ==
  /\ Part = "radios"
  /\ Clicks({q \in Groups : ans[q] = "none" /\ GroupAnswer(q) # "none"}) /\ PartEnds
  /\ UNCHANGED <<setup, val, select, essay, resume, browser, typing, used, results, clicks,
                 verdict, ledger, left>>

\* Fault: used_answers is not kept.
RememberNothing(text) == used' = {}

Remember(text) == used' = used \cup {text}

Written(e, text) == essay' = [essay EXCEPT ![e] = [by |-> "ours", pass |-> pass, text |-> text]]

\* The textareas without a text, one after the other.
FillParagraph ==
  /\ Part = "essays" /\ cur <= Len(site.essays)
  /\ LET text == ParagraphAnswer(site.essays[cur], used)
     IN IF essay[cur].by # "none" \/ text = "" THEN UNCHANGED <<essay, used>>
        ELSE Remember(text) /\ (Written(cur, text) \/ UNCHANGED essay)
  /\ cur' = cur + 1
  /\ UNCHANGED <<setup, val, select, ans, resume, browser, pc, part, typing, results, clicks,
                 verdict, ledger, left>>

ParagraphsEnd ==
  /\ Part = "essays" /\ cur > Len(site.essays)
  /\ part' = part + 1 /\ cur' = 1 /\ used' = {}
  /\ UNCHANGED <<setup, form, browser, pc, typing, results, clicks, verdict, ledger, left>>

\* "Any remaining unfilled textareas" get the summary: only the first one is
\* ever typed into, and only while it is empty.
FillRemaining ==
  /\ Part = "rest"
  /\ IF Essays # {} /\ essay[1].by = "none" THEN Written(1, "summary") ELSE UNCHANGED essay
  /\ PartEnds
  /\ UNCHANGED <<setup, val, select, ans, resume, browser, typing, used, results, clicks, verdict,
                 ledger, left>>

-----------------------------------------------------------------------------

\* All parts are through.
FillEnds ==
  /\ pc = "fill" /\ part > Len(h.parts) /\ typing = FALSE
  /\ IF mode = "rules" THEN Enter("next") /\ UNCHANGED <<part, cur, verdict>> ELSE HalfPass
  /\ UNCHANGED <<setup, form, browser, typing, used, results, moves, ledger, left>>

\* A prefill is over; there is another one after the upload of the file.
PrefillEnds ==
  /\ pc = "again" /\ cur > Listed
  /\ IF pass = 1
     THEN /\ pass' = 2 /\ pc' = "fill" /\ cur' = 1 /\ results' = Nothing /\ start' = val
          /\ UNCHANGED <<verdict, early>>
     ELSE /\ pc' = "done" /\ verdict' = (IF "yes" \in Range(results) THEN "yes" ELSE "no")
          /\ UNCHANGED <<pass, cur, results, start, early>>
  /\ UNCHANGED <<setup, form, browser, part, typing, used, clicks, left>>

Navigation ==
  \/ Hit \/ HitLate \/ Intercepted \/ ToSuper \/ Round \/ GiveUp \/ WithoutList \/ Judge
  \/ AshbyClick \/ AshbyCovered \/ Check \/ Recheck \/ AshbyEnds

Fill ==
  \/ Absent \/ Keep \/ Look \/ Type \/ TypeFails \/ Raise \/ TextEnds \/ NothingFailed \/ Upload
  \/ FillWorkAuthorization \/ FillCustomFields \/ FillDemographics \/ FillConsent \/ SelectLocation
  \/ FillYesNoQuestions \/ FillRadioQuestions \/ FillParagraph \/ ParagraphsEnd \/ FillRemaining
  \/ FillEnds \/ PrefillEnds

Program == Navigation \/ Fill
Environment == Land \/ Parse \/ Edit \/ Cover

Next == Program \/ Environment

\* The program goes on; site, parser and user need not do anything.
Spec == Init /\ [][Next]_vars /\ WF_vars(Program)

-----------------------------------------------------------------------------

\* fill_guard.should_skip_refill: what a text field held when the pass began is
\* not replaced by the pass, whatever parts of it come by; except that Ashby's
\* fix of validation errors writes the zip code and the location.
FilledBeforeThePassIsKept ==
  \A f \in Text :
    start[f] \in {"human", "parsed"} /\ val[f] = "ours" => h = Ashby /\ f \in Fixed /\ mode = "rules"

\* However many lists and rounds there are, a second application is sent only
\* after a click that timed out although the site had got it, or one of the
\* search for Apply.  Ashby on a site that is slow to show the next page is left
\* out: it takes the errors of the old one for an answer.
NoSecondApplication ==
  ~(h = Ashby /\ site.lag) => sent <= 1 + (MaxLate - left.late) + early

\* ashby_handler.py, fill_radio_questions and _resolve_yes_no_answer: "Skip EEO
\* / demographic questions so they are left for manual user review", for the
\* words both passes know: what the user answered stays, and the rest stays open,
\* unless the search for the Yes or No of another question ends at this one.
EeoIsLeftToTheUser ==
  [][\A q \in Questions :
       Topic(q) \in ManualForPairs /\ (\A p \in Questions \ {q} : Reach(p) # q)
       => ans'[q] = ans[q]]_vars

\* ashby_handler.py, used_answers: two textareas get the same text in one pass
\* only when every description and every candidate has been given, or when one
\* of them asks for a link.
AnswersRepeatOnlyWhenSpent ==
  \A d, e \in Essays :
    /\ d # e /\ {site.essays[d], site.essays[e]} \cap DOMAIN Resume.links = {}
    /\ essay[d].by = "ours" /\ essay[e] = essay[d]
    => Cardinality(Essays) > Cardinality(ToSet(Resume.descs) \cup ToSet(Fallbacks))

\* A pass ends: no list of selectors, step, fix or fallback goes on for ever.
EveryPassEnds == <>(pc = "done")

\* form_fields.py, fill_personal_info: "falls back to legacy label matching for
\* any field that scores below threshold": after a prefill no field is left empty
\* whose label names it.
LabelsAreTried ==
  pc = "done" /\ mode = "prefill" =>
    \A f \in site.shown \ site.stiff : (\E m \in site.look[f].hits : m[1] = "label_text") => val[f] # "empty"
=============================================================================
