------------------------------ MODULE FormRows ------------------------------
(***************************************************************************)
(* The repeating sections of a form: work experience, education and        *)
(* certifications, one row for every entry of the resume.  "generic" is    *)
(* RepeatingSectionFiller (ats/locators/repeating_sections.py), which the  *)
(* generic handler calls for two sections; "workday" is the Workday        *)
(* handler from its Apply button to its submit, with the start dialog in   *)
(* front of the form.  The page that shows a new row late, the parser of   *)
(* the site and the user who types are the environment.                    *)
(***************************************************************************)
EXTENDS Integers, Sequences, SequencesExt, FiniteSets, FiniteSetsExt

CONSTANTS
  Kinds,     \* the fillers to look at: a subset of {"generic", "workday"}
  Resume,    \* the entries of each section, in order
  Has,       \* the fields an entry has a value for
  Sites,     \* the sites: see below
  MaxMoves,  \* Next clicks: max_steps of _fill_form_rules
  MaxLate,   \* Add clicks that time out although the site got them
  MaxFails,  \* inputs that cannot be typed into at the moment
  MaxEdits   \* inputs the user types into meanwhile

Sections == {"work", "school", "certs"}
Fields   == <<"name", "date">>
Entries  == UNION {ToSet(Resume[s]) : s \in Sections}

\* PLACEHOLDER_VALUES: "none", what a site shows before a choice or says when there
\* is nothing ("N/A"), counts as no value.
Blank  == {"empty", "none"}
Values == Entries \cup Blank \cup {"parsed", "human"}

\* A site: order, its sections as the page has them; given, the rows a section
\* begins with; adds, the sections with an Add button, and room, the rows they
\* take; another, Add is called "Add another" once there is a row; wide, all
\* sections are in one container; late, a row comes after a while; shared, dates
\* have the same label everywhere; save, the button of a row; combo, what is
\* chosen from a list for a school; byLabel, inputs have no ids; parses, the
\* sections the site's parser fills; of Workday's dialog: dialog, autofill, manual, sticky (it
\* stays after autofill), upload (there is a resume to attach); stuck, the form
\* is never complete; reviewNext, the button that sends is called Next; plainUrl,
\* the last page does not name itself.
ASSUME FormRowsAssumption ==
  /\ Kinds \subseteq {"generic", "workday"}
  /\ {MaxMoves, MaxLate, MaxFails, MaxEdits} \subseteq Nat
  /\ Resume \in [Sections -> Seq(Entries)] /\ \A s \in Sections : IsInjective(Resume[s])
  /\ Has \in [Entries -> SUBSET ToSet(Fields)]
  /\ {"empty", "none", "parsed", "human"} \cap Entries = {}
  /\ \A site \in Sites :
       /\ site.order \in Seq(Sections) /\ IsInjective(site.order)
       /\ site.given \in [Sections -> Seq({"empty", "none", "parsed"})]
       /\ site.adds \subseteq Sections /\ site.parses \subseteq ToSet(site.order) /\ site.room \in Nat
       /\ site.save \in {"none", "save", "both", "page"}

VARIABLES
  kind, site,
  rows,    \* the rows of each section: what their inputs hold, and whether they are open
  coming,  \*   rows that were added and are not there yet
  screen,  \* "posting", "dialog", "form", "review", "thanks"
  file,    \* what the site has of the resume: "none", "parsing", "parsed"
  sent,    \* applications the site accepted
  pc,      \* where the filler is
  back,    \*   what goes on after the start dialog
  turn,    \*   which section
  ent,     \*   which entry
  fld,     \*   which field
  failed,  \*   entry_failed_fields
  at,      \*   which part of typing into an input: "look", "click", "type"
  focus,   \*   the input that has the keyboard, once it was clicked
  marks,   \* the containers with data-jobcli-repsection
  filled,  \* filled_entries
  skipped, \* skipped_entries
  moves,   \* handle_multi_step calls that went on
  added,   \* history: rows the filler had the site add
  touched, \*   inputs the parser or the user filled since the filler looked
  crossed, \*   rows the user took the keyboard to while the filler typed
  left     \* what the environment may still do

page    == <<rows, coming, screen, file, sent>>
control == <<pc, back, turn, ent, fld, failed>>
notes   == <<marks, filled, skipped, moves, added>>
keys    == <<at, focus, touched, crossed>>
vars    == <<kind, site, page, control, keys, notes, left>>

Turns == IF kind = "generic" THEN <<"work", "school">> ELSE <<"work", "school", "certs">>
Sec   == Turns[turn]
Entry == Resume[Sec][ent]

Row(v) == [name |-> v, date |-> v, open |-> TRUE]

TypeOK ==
  /\ kind \in Kinds /\ site \in Sites
  /\ \A s \in Sections : \A r \in ToSet(rows[s]) : {r.name, r.date} \subseteq Values /\ r.open \in BOOLEAN
  /\ coming \in [Sections -> Nat]
  /\ screen \in {"posting", "dialog", "form", "review", "thanks"}
  /\ file \in {"none", "parsing", "parsed"} /\ sent \in 0..1
  /\ pc \in {"apply", "dialog", "settle", "manual", "upload", "find", "add", "fields", "save", "next", "submit", "done"}
  /\ back \in {"apply", "fill", "step"}
  /\ turn \in 1..4 /\ ent \in Nat \ {0} /\ fld \in 1..Len(Fields) + 1 /\ failed \subseteq ToSet(Fields)
  /\ at \in {"look", "click", "type"} /\ (at # "look" => pc = "fields" /\ fld <= Len(Fields))
  /\ focus \in Sections \X (Nat \ {0}) \X ToSet(Fields)
  /\ touched \subseteq Sections \X (Nat \ {0}) \X ToSet(Fields) /\ crossed \subseteq Sections \X (Nat \ {0})
  /\ marks \subseteq Sections \cup {"form"} /\ added \in Nat /\ moves \in 0..MaxMoves
  /\ \A s \in Sections : filled[s] + skipped[s] \in 0..Len(Resume[s])
  /\ left \in [late : 0..MaxLate, fails : 0..MaxFails, edits : 0..MaxEdits]

Init ==
  /\ kind \in Kinds /\ site \in Sites
  /\ rows = [s \in Sections |-> [k \in DOMAIN site.given[s] |-> Row(site.given[s][k])]]
  /\ coming = [s \in Sections |-> 0] /\ sent = 0 /\ file = "none"
  /\ screen = (IF kind = "generic" THEN "form" ELSE "posting")
  /\ pc = (IF kind = "generic" THEN "find" ELSE "apply") /\ back = "apply"
  /\ turn = 1 /\ ent = 1 /\ fld = 1 /\ failed = {} /\ marks = {}
  /\ at = "look" /\ focus = <<"work", 1, "name">> /\ touched = {} /\ crossed = {}
  /\ filled = [s \in Sections |-> 0] /\ skipped = filled /\ moves = 0 /\ added = 0
  /\ left = [late |-> MaxLate, fails |-> MaxFails, edits |-> MaxEdits]

-----------------------------------------------------------------------------
(* The page                                                                *)

\* The order of rows on the page.
Place(s) == CHOOSE k \in DOMAIN site.order : site.order[k] = s
Before(a, b) == Place(a.sec) < Place(b.sec) \/ (a.sec = b.sec /\ a.row < b.row)
FirstOf(places) == CHOOSE a \in places : \A b \in places \ {a} : Before(a, b)
LastOf(places)  == CHOOSE a \in places : \A b \in places \ {a} : Before(b, a)

\* The open rows of some sections.
Open(secs) ==
  IF screen # "form" THEN {}
  ELSE {a \in [sec : secs, row : 1..Max({Len(rows[s]) : s \in Sections} \cup {0})] :
          a.row <= Len(rows[a.sec]) /\ rows[a.sec][a.row].open}

\* A row that was added is there at last.
Render ==
  /\ \E s \in Sections :
       /\ coming[s] > 0 /\ coming' = [coming EXCEPT ![s] = @ - 1]
       /\ rows' = [rows EXCEPT ![s] = Append(@, Row("empty"))]
  /\ UNCHANGED <<kind, site, keys, screen, file, sent, control, notes, left>>

\* The filler has looked and has not typed yet.
Touch(inputs) == touched' = IF at = "look" THEN {} ELSE touched \cup inputs

\* The parser of the site adds a row of its own to each section it knows.
Parse ==
  /\ file = "parsing" /\ file' = "parsed"
  /\ rows' = [s \in Sections |-> IF s \in site.parses THEN Append(rows[s], Row("parsed")) ELSE rows[s]]
  /\ Touch({<<s, Len(rows[s]) + 1, f>> : s \in site.parses, f \in ToSet(Fields)})
  /\ UNCHANGED <<kind, site, at, focus, crossed, coming, screen, sent, control, notes, left>>

\* The user types into an input of a row, and has the keyboard there.
Edit ==
  /\ left.edits > 0 /\ left' = [left EXCEPT !.edits = @ - 1] /\ pc # "done"
  /\ \E a \in Open(ToSet(site.order)), f \in ToSet(Fields) :
       /\ rows' = [rows EXCEPT ![a.sec][a.row][f] = "human"]
       /\ Touch({<<a.sec, a.row, f>>})
       /\ IF at = "type" /\ focus # <<a.sec, a.row, f>>
          THEN focus' = <<a.sec, a.row, f>> /\ crossed' = crossed \cup {<<a.sec, a.row>>}
          ELSE UNCHANGED <<focus, crossed>>
  /\ UNCHANGED <<kind, site, at, coming, screen, file, sent, control, notes>>

-----------------------------------------------------------------------------
(* Add                                                                     *)

\* The containers of a heading, and the sections below the first marked one of
\* the page: the locator is looked up again at every use, and no mark is ever
\* taken away.
Container == IF site.wide THEN "form" ELSE Sec

First(secs) == site.order[Min({k \in DOMAIN site.order : site.order[k] \in secs})]

ScopeOf(ms) ==
  IF "form" \in ms THEN ToSet(site.order) ELSE IF ms = {} THEN {} ELSE {First(ms)}

Addable(s) == s \in site.adds /\ Len(rows[s]) + coming[s] < site.room

\* An Add button that still says just that.
SaysAdd(s) == Addable(s) /\ (site.another => rows[s] = <<>>)

\* The section whose Add is the next button after the heading, "Add another" or
\* not: rows in between have no button of their own.
NextButton(s) ==
  /\ Addable(s) /\ Place(Sec) <= Place(s)
  /\ \A t \in ToSet(site.order) :
       Place(Sec) <= Place(t) /\ Place(t) <= Place(s) =>
         (t = s \/ ~Addable(t)) /\ (rows[t] = <<>> \/ site.save # "save")

\* The sections whose button may be clicked, the first of them on the page: of
\* the scope; for Workday, after the heading, in its section, or anywhere.
Candidates ==
  IF screen # "form" \/ Sec \notin ToSet(site.order) THEN {}
  ELSE IF kind = "generic" THEN {s \in ScopeOf(marks) : Addable(s)}
  ELSE IF \E s \in ToSet(site.order) : NextButton(s) THEN {s \in ToSet(site.order) : NextButton(s)}
  ELSE IF SaysAdd(Sec) THEN {Sec} ELSE {s \in ToSet(site.order) : SaysAdd(s)}

\* From one section to the next; after the last, Workday goes through the steps.
NextSection ==
  /\ turn' = turn + 1 /\ ent' = 1 /\ fld' = 1 /\ failed' = {}
  /\ pc' = (IF turn < Len(Turns) THEN "find" ELSE IF kind = "generic" THEN "done" ELSE "dialog")
  /\ back' = (IF turn < Len(Turns) THEN back ELSE "step")

SkipFrom(k) == skipped' = [skipped EXCEPT ![Sec] = @ + Len(Resume[Sec]) - k + 1]

\* _find_section; Workday looks for its headings at every Add.
FindSection ==
  /\ pc = "find"
  /\ IF Resume[Sec] = <<>> THEN NextSection /\ UNCHANGED <<marks, skipped>>
     ELSE IF kind = "workday" THEN pc' = "add" /\ UNCHANGED <<back, turn, ent, fld, failed, marks, skipped>>
     ELSE IF screen = "form" /\ Sec \in ToSet(site.order)
     THEN /\ marks' = marks \cup {Container} /\ pc' = "add"
          /\ UNCHANGED <<back, turn, ent, fld, failed, skipped>>
     ELSE SkipFrom(1) /\ NextSection /\ UNCHANGED marks
  /\ UNCHANGED <<kind, site, keys, page, filled, moves, added, left>>

\* The site gets the click.
Added(s) ==
  /\ added' = added + 1
  /\ IF site.late THEN coming' = [coming EXCEPT ![s] = @ + 1] /\ UNCHANGED rows
     ELSE rows' = [rows EXCEPT ![s] = Append(@, Row("empty"))] /\ UNCHANGED coming

StartEntry == pc' = "fields" /\ fld' = 1 /\ failed' = {}

ClickAdd ==
  /\ pc = "add" /\ ent <= Len(Resume[Sec]) /\ Candidates # {}
  /\ Added(First(Candidates)) /\ StartEntry
  /\ UNCHANGED <<kind, site, keys, screen, file, sent, back, turn, ent, marks, filled, skipped, moves, left>>

\* The call times out all the same, and the next way to find the button is tried.
ClickAddLate ==
  /\ pc = "add" /\ ent <= Len(Resume[Sec]) /\ Candidates # {}
  /\ left.late > 0 /\ left' = [left EXCEPT !.late = @ - 1]
  /\ Added(First(Candidates))
  /\ UNCHANGED <<kind, site, keys, screen, file, sent, control, marks, filled, skipped, moves>>

\* Fault: without an Add button the section is tried again.
TryAddAgain ==
  /\ pc = "add" /\ ent <= Len(Resume[Sec]) /\ Candidates = {}
  /\ IF kind = "generic" /\ ent > 1 THEN pc' = "find" /\ UNCHANGED <<back, turn, fld, failed, skipped>> /\ ent' = ent
     ELSE StartEntry /\ UNCHANGED <<back, turn, ent, skipped>>
  /\ UNCHANGED <<kind, site, keys, page, marks, filled, moves, added, left>>

\* Without an Add button the first entry is tried all the same; Workday tries
\* every one.
NoAdd ==
  /\ pc = "add" /\ ent <= Len(Resume[Sec]) /\ Candidates = {}
  /\ IF kind = "generic" /\ ent > 1 THEN SkipFrom(ent) /\ NextSection
     ELSE StartEntry /\ UNCHANGED <<back, turn, ent, skipped>>
  /\ UNCHANGED <<kind, site, keys, page, marks, filled, moves, added, left>>

SectionEnds ==
  /\ pc = "add" /\ ent > Len(Resume[Sec]) /\ NextSection
  /\ UNCHANGED <<kind, site, keys, page, notes, left>>

-----------------------------------------------------------------------------
(* The inputs of an entry                                                  *)

Field == Fields[fld]

\* The open inputs with the label, or id, of the field, wherever on the page.
Inputs == Open(IF Field = "date" /\ site.shared THEN ToSet(site.order) ELSE ToSet(site.order) \cap {Sec})

\* Workday goes by ids, and for schools and certifications then by labels.
ByLabel == kind = "generic" \/ (site.byLabel /\ Sec # "work")
Choice  == kind = "workday" /\ ~site.byLabel /\ Sec = "school" /\ Field \in site.combo
Seen    == Inputs # {} /\ (kind = "workday" /\ site.byLabel => ByLabel)

\* Fault: the first input that matches is taken.
TargetFirst == FirstOf(Inputs)

\* By label the last input that matches, by id the first one.
Target == IF ByLabel THEN LastOf(Inputs) ELSE FirstOf(Inputs)

\* What an input holds from now on; and the field is done.
Put(s, k, f, v) == rows' = [rows EXCEPT ![s][k][f] = v]
FieldEnds == fld' = fld + 1 /\ at' = "look" /\ touched' = {}

AtField == pc = "fields" /\ fld <= Len(Fields)
fieldRest == <<kind, site, crossed, coming, screen, file, sent, pc, back, turn, ent, notes>>

\* The entry has no value: nothing is typed, and nothing has failed.
NoValue ==
  /\ AtField /\ at = "look" /\ Field \notin Has[Entry] /\ FieldEnds
  /\ UNCHANGED <<rows, focus, failed, left, fieldRest>>

\* Fault: an input with a value is typed into all the same.
LookAway ==
  /\ AtField /\ at = "look" /\ Field \in Has[Entry] /\ Seen /\ ~Choice
  /\ at' = "click" /\ UNCHANGED <<fld, touched>>
  /\ UNCHANGED <<rows, focus, failed, left, fieldRest>>

\* should_skip_refill: an input with a value is left alone.
Look ==
  /\ AtField /\ at = "look" /\ Field \in Has[Entry] /\ Seen /\ ~Choice
  /\ IF rows[Target.sec][Target.row][Field] \in Blank THEN at' = "click" /\ UNCHANGED <<fld, touched>> ELSE FieldEnds
  /\ UNCHANGED <<rows, focus, failed, left, fieldRest>>

\* The input that matches by now gets the keyboard, whatever it holds by now.
ClickInput ==
  /\ AtField /\ at = "click" /\ Seen /\ kind = "generic"
  /\ focus' = <<Target.sec, Target.row, Field>> /\ at' = "type"
  /\ UNCHANGED <<rows, fld, failed, touched, left, fieldRest>>

\* Select all, Backspace and the words go to where the keyboard is.
TypeIn ==
  /\ AtField /\ at = "type" /\ Put(focus[1], focus[2], focus[3], Entry) /\ FieldEnds
  /\ UNCHANGED <<focus, failed, left, fieldRest>>

\* Workday: fill() of the input that matches by now.
FillInput ==
  /\ AtField /\ at = "click" /\ Seen /\ kind = "workday"
  /\ Put(Target.sec, Target.row, Field, Entry) /\ FieldEnds
  /\ UNCHANGED <<focus, failed, left, fieldRest>>

\* _fill_workday_dropdown: nobody looks at what is chosen.
ChooseFromList ==
  /\ AtField /\ at = "look" /\ Field \in Has[Entry] /\ Seen /\ Choice
  /\ Put(Target.sec, Target.row, Field, Entry) /\ FieldEnds
  /\ UNCHANGED <<focus, failed, left, fieldRest>>

\* No input, or one that cannot be clicked.
FillFails ==
  /\ AtField /\ at # "type" /\ Field \in Has[Entry]
  /\ IF Seen THEN left.fails > 0 /\ left' = [left EXCEPT !.fails = @ - 1] ELSE UNCHANGED left
  /\ failed' = failed \cup {Field} /\ FieldEnds
  /\ UNCHANGED <<rows, focus, fieldRest>>

FillField == NoValue \/ Look \/ ClickInput \/ TypeIn \/ FillInput \/ ChooseFromList \/ FillFails

\* An entry of which every key failed ends the section; a key without a value
\* has not failed.
EntryEnds ==
  /\ pc = "fields" /\ fld > Len(Fields) /\ kind = "generic"
  /\ IF failed = ToSet(Fields) THEN SkipFrom(ent) /\ NextSection /\ UNCHANGED filled
     ELSE /\ filled' = [filled EXCEPT ![Sec] = @ + 1] /\ pc' = "save"
          /\ UNCHANGED <<back, turn, ent, fld, failed, skipped>>
  /\ UNCHANGED <<kind, site, keys, page, marks, moves, added, left>>

NextEntry == pc' = "add" /\ ent' = ent + 1 /\ UNCHANGED <<back, turn, fld, failed>>

EntryEndsWorkday ==
  /\ pc = "fields" /\ fld > Len(Fields) /\ kind = "workday" /\ NextEntry
  /\ UNCHANGED <<kind, site, keys, page, notes, left>>

\* The rows the Save button of the scope may belong to.
Savable == Open(ScopeOf(marks))

\* Fault: a button that adds is clicked when its name also says save.
SaveAny ==
  /\ pc = "save" /\ NextEntry
  /\ IF site.save = "both" /\ Candidates # {} THEN Added(First(Candidates))
     ELSE UNCHANGED <<rows, coming, added>>
  /\ UNCHANGED <<kind, site, keys, screen, file, sent, marks, filled, skipped, moves, left>>

\* The first Save of the scope, if it is not an Add as well: the row closes; or
\* it is the "Save and continue" of the page.
ClickSave ==
  /\ pc = "save" /\ NextEntry
  /\ rows' = IF site.save = "save" /\ Savable # {}
             THEN LET a == FirstOf(Savable) IN [rows EXCEPT ![a.sec][a.row].open = FALSE] ELSE rows
  /\ screen' = IF site.save = "page" /\ site.wide /\ screen = "form" THEN "review" ELSE screen
  /\ UNCHANGED <<kind, site, keys, coming, file, sent, notes, left>>

-----------------------------------------------------------------------------
(* Workday: the start dialog                                               *)

Moved ==
  /\ moves' = moves + 1
  /\ pc' = (IF moves + 1 < MaxMoves THEN "dialog" ELSE "submit") /\ UNCHANGED back

\* _proceed_past_start_application_modal returned: after Apply comes the fill,
\* which asks again; in a step True ends it.
Return(through) ==
  CASE back = "apply" -> pc' = "dialog" /\ back' = "fill" /\ UNCHANGED moves
    [] back = "fill" -> pc' = "upload" /\ UNCHANGED <<back, moves>>
    [] OTHER -> IF through THEN Moved ELSE pc' = "next" /\ UNCHANGED <<back, moves>>

dialogRest == <<kind, site, keys, rows, coming, sent, turn, ent, fld, failed, marks, filled, skipped, added, left>>

\* find_apply_button.
Apply ==
  /\ pc = "apply" /\ pc' = "dialog"
  /\ screen' = (IF site.dialog THEN "dialog" ELSE "form")
  /\ UNCHANGED <<file, back, moves, dialogRest>>

NoDialog ==
  /\ pc = "dialog" /\ screen # "dialog" /\ Return(FALSE)
  /\ UNCHANGED <<screen, file, dialogRest>>

\* The dialog's answer to its autofill button.
Autofills ==
  /\ file' = IF file = "none" THEN "parsing" ELSE file
  /\ screen' = IF site.sticky THEN "dialog" ELSE "form"

Autofill ==
  /\ pc = "dialog" /\ screen = "dialog" /\ site.upload /\ site.autofill
  /\ Autofills /\ pc' = "settle"
  /\ UNCHANGED <<back, moves, dialogRest>>

NoAutofill ==
  /\ pc = "dialog" /\ screen = "dialog" /\ ~(site.upload /\ site.autofill) /\ pc' = "manual"
  /\ UNCHANGED <<screen, file, back, moves, dialogRest>>

\* After eight seconds, whether the parser is through or not.
Settled ==
  /\ pc = "settle"
  /\ IF screen = "dialog" THEN pc' = "manual" /\ UNCHANGED <<back, moves>> ELSE Return(TRUE)
  /\ UNCHANGED <<screen, file, dialogRest>>

\* Apply Manually; else autofill after all, and the dialog is taken for cleared.
Manually ==
  /\ pc = "manual"
  /\ CASE site.manual -> screen' = "form" /\ Return(TRUE) /\ UNCHANGED file
       [] ~site.manual /\ site.autofill -> Autofills /\ Return(TRUE)
       [] OTHER -> Return(FALSE) /\ UNCHANGED <<screen, file>>
  /\ UNCHANGED dialogRest

\* _upload_resume_workday: the parser may have the file a second time to read.
Upload ==
  /\ pc = "upload" /\ pc' = "find"
  /\ file' = IF screen = "form" /\ site.upload /\ file # "parsing" THEN "parsing" ELSE file
  /\ UNCHANGED <<screen, back, moves, dialogRest>>

-----------------------------------------------------------------------------
(* Workday: the steps                                                      *)

\* What the Next button, or Save and Continue, does.
GoesOn ==
  CASE screen = "form" -> screen' = (IF site.stuck THEN "form" ELSE "review") /\ UNCHANGED sent
    [] screen = "review" -> screen' = "thanks" /\ sent' = sent + 1

\* The button, whether it is Next or, on the last step, sends.
NextShown == screen = "form" \/ (screen = "review" /\ site.reviewNext)

\* handle_multi_step: the review page and a confirmation in the URL end it;
\* whatever else is shown counts as a step.
Step ==
  /\ pc = "next"
  /\ IF NextShown THEN GoesOn /\ Moved
     ELSE /\ UNCHANGED <<screen, sent>>
          /\ IF screen = "review" \/ (screen = "thanks" /\ ~site.plainUrl)
             THEN pc' = "submit" /\ UNCHANGED <<back, moves>> ELSE Moved
  /\ UNCHANGED <<kind, site, keys, rows, coming, file, turn, ent, fld, failed, marks, filled, skipped, added, left>>

\* submit_application: Next comes first in its list.
Submit ==
  /\ pc = "submit" /\ pc' = "done"
  /\ IF screen \in {"form", "review"} THEN GoesOn ELSE UNCHANGED <<screen, sent>>
  /\ UNCHANGED <<kind, site, keys, rows, coming, file, back, turn, ent, fld, failed, notes, left>>

-----------------------------------------------------------------------------

Fill ==
  \/ FindSection \/ ClickAdd \/ ClickAddLate \/ NoAdd \/ SectionEnds
  \/ FillField \/ EntryEnds \/ EntryEndsWorkday \/ ClickSave

Workday == Apply \/ NoDialog \/ Autofill \/ NoAutofill \/ Settled \/ Manually \/ Upload \/ Step \/ Submit

Program == Fill \/ Workday
Environment == Render \/ Parse \/ Edit

Next == Program \/ Environment

\* The filler goes on; page, parser and user need not do anything.
Spec == Init /\ [][Next]_vars /\ WF_vars(Program)

-----------------------------------------------------------------------------

\* repeating_sections.py: "Non-destructive -- we never delete existing rows; we
\* only add": no row goes away or moves, and no value, of whomever, is replaced by
\* one of the resume, unless the parser or the user put it there after the filler
\* looked and before it typed; except that Workday chooses from the lists for a
\* school, whatever they say.
NonDestructive ==
  [][\A s \in Sections : \A k \in DOMAIN rows[s] :
       /\ k \in DOMAIN rows'[s]
       /\ \A f \in ToSet(Fields) :
            rows[s][k][f] \notin Blank /\ rows'[s][k][f] # rows[s][k][f]
            => \/ rows'[s][k][f] = "human" \/ <<s, k, f>> \in touched
               \/ (Choice /\ Seen /\ <<s, k, f>> = <<Target.sec, Target.row, Field>>)]_vars

\* The entries, by the turn of their section, and those begun so far.
Asked == UNION {{k} \X DOMAIN Resume[Turns[k]] : k \in DOMAIN Turns}
Begun == {b \in Asked : \/ b[1] < turn
                        \/ b[1] = turn /\ b[2] < ent
                        \/ b = <<turn, ent>> /\ pc \in {"fields", "save"}}

\* _click_add, _click_save: no button adds a row more than the entries begun so
\* far ask for, unless a click timed out that the site had got.
RowsAreBounded == added <= Cardinality(Begun) + (MaxLate - left.late)

\* SectionFillResult: every entry of a section that is through was either filled
\* or skipped, whatever ended the section.
CountsAddUp ==
  kind = "generic" =>
    \A k \in DOMAIN Turns : k < turn =>
      filled[Turns[k]] + skipped[Turns[k]] = Len(Resume[Turns[k]])

\* Whether the rows of a section are the ones its entries are added to and typed
\* into: rows come at once, labels and container are its own, and no mark of
\* another section comes first.
OnItsOwn(s) ==
  /\ kind = "generic" /\ ~site.late /\ ~site.wide /\ ~site.shared
  /\ s = "work" \/ Head(site.order) = "school"

\* _fill_one takes the last input: however entries fail, rows close and users type,
\* no row of such a section mixes two entries of the resume, unless the user went
\* there while the filler typed.
RowsAreOfOnePiece ==
  \A s \in Sections : OnItsOwn(s) =>
    \A k \in DOMAIN rows[s] :
      <<s, k>> \notin crossed => Cardinality({rows[s][k].name, rows[s][k].date} \cap Entries) <= 1

\* The filler ends: no section, step or dialog is tried for ever.
FillerEnds == <>(pc = "done")
=============================================================================
