--------------------------- MODULE FormRows_proofs ---------------------------
(***************************************************************************)
(* Proofs about FormRows, for any resume, any sites and any number of late *)
(* clicks, failures and edits: the fillers add and fill, and take nothing  *)
(* away.                                                                   *)
(***************************************************************************)
EXTENDS FormRows, FiniteSetTheorems, SequenceTheorems, WellFoundedInduction, TLAPS

LEMMA Settings ==
  /\ Kinds \subseteq {"generic", "workday"} /\ Resume \in [Sections -> Seq(Entries)]
  /\ MaxLate \in Nat /\ MaxFails \in Nat /\ MaxEdits \in Nat
  /\ {"empty", "none", "parsed", "human"} \cap Entries = {}
  /\ \A s \in Sites : /\ s.given \in [Sections -> Seq({"empty", "none", "parsed"})]
                       /\ s.order \in Seq(Sections) /\ s.parses \subseteq ToSet(s.order)
BY FormRowsAssumption

LEMMA FieldsAre == Len(Fields) = 2 /\ Fields[1] = "name" /\ Fields[2] = "date" /\ ToSet(Fields) = {"name", "date"}
<1>1. DOMAIN Fields = {1, 2} /\ Len(Fields) = 2 /\ Fields[1] = "name" /\ Fields[2] = "date"
  BY DEF Fields
<1>2. QED
  BY <1>1 DEF ToSet

LEMMA TurnsAre ==
  /\ Len(Turns) = IF kind = "generic" THEN 2 ELSE 3
  /\ \A k \in 1..Len(Turns) : Turns[k] \in Sections
  /\ \A k, l \in 1..Len(Turns) : Turns[k] = Turns[l] => k = l
<1>1. CASE kind = "generic"
  <2>1. Turns = <<"work", "school">>
    BY <1>1 DEF Turns
  <2>2. Len(Turns) = 2 /\ Turns[1] = "work" /\ Turns[2] = "school"
    BY <2>1
  <2>3. QED
    BY <1>1, <2>2 DEF Sections
<1>2. CASE kind # "generic"
  <2>1. Turns = <<"work", "school", "certs">>
    BY <1>2 DEF Turns
  <2>2. Len(Turns) = 3 /\ Turns[1] = "work" /\ Turns[2] = "school" /\ Turns[3] = "certs"
    BY <2>1
  <2>3. QED
    BY <1>2, <2>2 DEF Sections
<1>3. QED
  BY <1>1, <1>2

\* What the steps at an input have in common.
LEMMA FieldIs ==
  ASSUME FillField
  PROVE  /\ AtField /\ UNCHANGED <<kind, site, crossed, coming, screen, file, sent, pc, back, turn, ent>>
         /\ UNCHANGED <<marks, filled, skipped, moves, added>>
         /\ (fld' = fld /\ at' \in {"click", "type"} /\ touched' = touched) \/ FieldEnds
         /\ UNCHANGED left \/ (left.fails > 0 /\ left' = [left EXCEPT !.fails = @ - 1])
         /\ UNCHANGED rows \/ TypeIn \/ FillInput \/ ChooseFromList
         /\ UNCHANGED focus \/ ClickInput
         /\ at' = "look" \/ Look \/ ClickInput
<1>1. CASE NoValue
  BY <1>1 DEF NoValue, fieldRest, notes, FieldEnds
<1>2. CASE Look
  BY <1>2 DEF Look, fieldRest, notes, FieldEnds
<1>3. CASE ClickInput
  BY <1>3 DEF ClickInput, fieldRest, notes
<1>4. CASE TypeIn
  BY <1>4 DEF TypeIn, fieldRest, notes, FieldEnds
<1>5. CASE FillInput
  BY <1>5 DEF FillInput, fieldRest, notes, FieldEnds
<1>6. CASE ChooseFromList
  BY <1>6 DEF ChooseFromList, fieldRest, notes, FieldEnds
<1>7. CASE FillFails
  BY <1>7 DEF FillFails, fieldRest, notes, FieldEnds
<1>8. QED
  BY <1>1, <1>2, <1>3, <1>4, <1>5, <1>6, <1>7 DEF FillField

-----------------------------------------------------------------------------
(* Where the filler is                                                     *)

InSection == {"find", "add", "fields", "save"}

PlaceOK ==
  /\ kind \in {"generic", "workday"} /\ site \in Sites
  /\ turn \in 1..4 /\ ent \in Nat \ {0} /\ fld \in 1..3
  /\ back # "step" => turn <= Len(Turns)
  /\ pc \in InSection \cup {"upload"} => back # "step"
  /\ pc \in {"fields", "save"} => ent <= Len(Resume[Sec])

LEMMA PlaceInit == Init => PlaceOK
<1> SUFFICES ASSUME Init PROVE PlaceOK
  OBVIOUS
<1>1. kind \in {"generic", "workday"} /\ site \in Sites /\ turn = 1 /\ ent = 1 /\ fld = 1 /\ back = "apply"
      /\ pc \in {"find", "apply"}
  BY Settings DEF Init
<1>2. QED
  BY <1>1, TurnsAre DEF PlaceOK

\* The section, its entries and the entry in hand.
LEMMA InPlace ==
  ASSUME PlaceOK
  PROVE  /\ pc \in InSection => turn \in 1..Len(Turns) /\ Sec \in Sections /\ turn \in 1..3
                                /\ Resume[Sec] \in Seq(Entries) /\ Len(Resume[Sec]) \in Nat
         /\ pc \in {"fields", "save"} => ent \in 1..Len(Resume[Sec]) /\ Entry \in Entries
<1>1. ASSUME pc \in InSection
      PROVE  turn \in 1..Len(Turns) /\ Sec \in Sections /\ turn \in 1..3
             /\ Resume[Sec] \in Seq(Entries) /\ Len(Resume[Sec]) \in Nat
  <2>1. turn \in 1..Len(Turns) /\ Len(Turns) \in {2, 3}
    BY <1>1, TurnsAre DEF PlaceOK
  <2>2. Sec \in Sections
    BY <2>1, TurnsAre DEF Sec
  <2>3. Resume[Sec] \in Seq(Entries)
    BY <2>2, Settings
  <2>4. Len(Resume[Sec]) \in Nat
    BY <2>3, LenProperties
  <2>5. turn \in 1..3
    <3>1. turn \in Nat /\ 1 <= turn /\ turn <= Len(Turns)
      BY <2>1
    <3>2. CASE Len(Turns) = 2
      BY <3>1, <3>2
    <3>3. CASE Len(Turns) = 3
      BY <3>1, <3>3
    <3>4. QED
      BY <2>1, <3>2, <3>3
  <2>6. QED
    BY <2>1, <2>2, <2>3, <2>4, <2>5
<1>2. ASSUME pc \in {"fields", "save"}
      PROVE  ent \in 1..Len(Resume[Sec]) /\ Entry \in Entries
  <2>1. ent \in 1..Len(Resume[Sec]) /\ Resume[Sec] \in Seq(Entries)
    BY <1>1, <1>2 DEF InSection, PlaceOK
  <2>2. QED
    BY <2>1, ElementOfSeq DEF Entry
<1>3. QED
  BY <1>1, <1>2

LEMMA ToNextSection ==
  ASSUME PlaceOK, pc \in InSection, NextSection, UNCHANGED <<kind, site>>
  PROVE  PlaceOK' /\ turn' = turn + 1 /\ ent' = 1 /\ pc' \in {"find", "done", "dialog"}
<1>1. turn \in 1..Len(Turns) /\ turn \in 1..3 /\ back # "step" /\ Len(Turns) \in {2, 3}
  BY InPlace, TurnsAre DEF PlaceOK
<1>2. Len(Turns)' = Len(Turns)
  BY DEF Turns
<1>3. /\ turn' = turn + 1 /\ ent' = 1 /\ fld' = 1
      /\ turn < Len(Turns) => pc' = "find" /\ back' = back
      /\ ~(turn < Len(Turns)) => pc' \in {"done", "dialog"} /\ back' = "step"
  BY DEF NextSection
<1>4. QED
  BY <1>1, <1>2, <1>3 DEF PlaceOK, InSection

\* A step within a section.
LEMMA Within ==
  ASSUME PlaceOK, pc \in InSection, UNCHANGED <<kind, site, turn, back>>,
         ent' \in Nat \ {0}, fld' \in 1..3, pc' \in InSection,
         pc' \in {"fields", "save"} => ent' <= Len(Resume[Sec])
  PROVE  PlaceOK'
<1>1. Len(Turns)' = Len(Turns) /\ Sec' = Sec
  BY DEF Turns, Sec
<1>2. QED
  BY <1>1 DEF PlaceOK, InSection

LEMMA PlaceStep == PlaceOK /\ [Next]_vars => PlaceOK'
<1> SUFFICES ASSUME PlaceOK, [Next]_vars PROVE PlaceOK'
  OBVIOUS
<1>0. UNCHANGED <<kind, site>> /\ Len(Turns)' = Len(Turns)
  <2>0. FillField \/ Parse \/ Edit => UNCHANGED <<kind, site>>
    BY FieldIs DEF Parse, Edit
  <2>1. UNCHANGED <<kind, site>>
    BY <2>0, Zenon DEF Next, Program, Environment, Fill, Workday, FindSection, ClickAdd,
       ClickAddLate, NoAdd, SectionEnds, EntryEnds, EntryEndsWorkday, ClickSave, Apply, NoDialog, Autofill, NoAutofill,
       Settled, Manually, Upload, Step, Submit, Render, dialogRest, vars
  <2>2. QED
    BY <2>1 DEF Turns
<1>1. CASE UNCHANGED control
  BY <1>0, <1>1 DEF control, PlaceOK, Turns, Sec
<1>2. CASE pc \in InSection /\ NextSection
  BY <1>0, <1>2, ToNextSection
<1>3. CASE FindSection \/ ClickAdd \/ NoAdd
  <2>1. pc \in {"find", "add"} /\ ent \in Nat \ {0} /\ fld \in 1..3 /\ 1 \in 1..3
    BY <1>3 DEF FindSection, ClickAdd, NoAdd, PlaceOK
  <2>2. CASE NextSection
    BY <1>2, <2>1, <2>2 DEF InSection
  <2>3. CASE pc' = "add" /\ UNCHANGED <<back, turn, ent, fld>>
    BY <1>0, <2>1, <2>3, Within DEF InSection
  <2>4. CASE pc = "add" /\ ent <= Len(Resume[Sec]) /\ StartEntry /\ UNCHANGED <<back, turn, ent>>
    BY <1>0, <2>1, <2>4, Within DEF InSection, StartEntry
  <2>5. QED
    BY <1>3, <2>2, <2>3, <2>4 DEF FindSection, ClickAdd, NoAdd
<1>4. CASE FillField
  <2>1. pc = "fields" /\ pc' = pc /\ fld' \in {fld, fld + 1} /\ fld <= 2 /\ UNCHANGED <<back, turn, ent>>
    BY <1>4, FieldIs, FieldsAre DEF AtField, FieldEnds
  <2>2. fld' \in 1..3 /\ ent' \in Nat \ {0} /\ ent' <= Len(Resume[Sec])
    BY <2>1 DEF PlaceOK
  <2>3. QED
    BY <1>0, <2>1, <2>2, Within DEF InSection
<1>5. CASE EntryEnds \/ EntryEndsWorkday \/ ClickSave \/ SectionEnds
  <2>1. pc \in {"fields", "save", "add"} /\ ent \in Nat \ {0} /\ ent + 1 \in Nat \ {0} /\ fld \in 1..3
    BY <1>5 DEF EntryEnds, EntryEndsWorkday, ClickSave, SectionEnds, PlaceOK
  <2>2. CASE NextSection
    BY <1>2, <2>1, <2>2 DEF InSection
  <2>3. CASE NextEntry
    BY <1>0, <2>1, <2>3, Within DEF InSection, NextEntry
  <2>4. CASE pc = "fields" /\ pc' = "save" /\ UNCHANGED <<back, turn, ent, fld>>
    BY <1>0, <2>1, <2>4, Within DEF InSection, PlaceOK
  <2>5. QED
    BY <1>5, <2>2, <2>3, <2>4 DEF EntryEnds, EntryEndsWorkday, ClickSave, SectionEnds
<1>6. ASSUME UNCHANGED <<turn, ent, fld>>, pc' \notin InSection, back = "step" => back' = "step",
             back' = "step" => back = "step", pc' = "upload" => back' # "step"
      PROVE  PlaceOK'
  BY <1>0, <1>6 DEF PlaceOK, InSection
<1>7. ASSUME NEW through, Return(through), UNCHANGED <<turn, ent, fld>> PROVE PlaceOK'
  <2>1. CASE back = "apply"
    BY <1>6, <1>7, <2>1 DEF Return, InSection
  <2>2. CASE back = "fill"
    BY <1>6, <1>7, <2>2 DEF Return, InSection
  <2>3. CASE back \notin {"apply", "fill"}
    BY <1>6, <1>7, <2>3 DEF Return, Moved, InSection
  <2>4. QED
    BY <2>1, <2>2, <2>3
<1>8. CASE Apply \/ NoDialog \/ Autofill \/ NoAutofill \/ Settled \/ Manually
  <2>1. UNCHANGED <<turn, ent, fld>>
    BY <1>8 DEF Apply, NoDialog, Autofill, NoAutofill, Settled, Manually, dialogRest
  <2>2. CASE pc' \in {"dialog", "settle", "manual"} /\ UNCHANGED back
    BY <1>6, <2>1, <2>2 DEF InSection
  <2>3. CASE \E through \in BOOLEAN : Return(through)
    BY <1>7, <2>1, <2>3
  <2>4. QED
    BY <1>8, <2>2, <2>3 DEF Apply, NoDialog, Autofill, NoAutofill, Settled, Manually
<1>9. CASE Upload
  BY <1>0, <1>9 DEF Upload, dialogRest, PlaceOK, InSection
<1>10. CASE Step
  <2>1. UNCHANGED <<turn, ent, fld, back>> /\ pc' \in {"submit", "dialog"}
    BY <1>10 DEF Step, Moved
  <2>2. QED
    BY <1>6, <2>1 DEF InSection
<1>11. CASE Submit
  <2>1. UNCHANGED <<turn, ent, fld, back>> /\ pc' = "done"
    BY <1>11 DEF Submit
  <2>2. QED
    BY <1>6, <2>1 DEF InSection
<1>12. QED
  <2>0. Parse \/ Edit => UNCHANGED control
    BY DEF Parse, Edit
  <2>1. UNCHANGED control \/ FindSection \/ ClickAdd \/ NoAdd \/ FillField \/ EntryEnds
        \/ EntryEndsWorkday \/ ClickSave \/ SectionEnds
        \/ Apply \/ NoDialog \/ Autofill \/ NoAutofill \/ Settled \/ Manually \/ Upload \/ Step \/ Submit
    BY <2>0, Zenon DEF Next, Program, Environment, Fill, Workday, Render, ClickAddLate, vars
  <2>2. QED
    BY <1>1, <1>3, <1>4, <1>5, <1>8, <1>9, <1>10, <1>11, <2>1

-----------------------------------------------------------------------------
(* The rows of the page                                                    *)

RowT == [name : Values, date : Values, open : BOOLEAN]
RowsOK == rows \in [Sections -> Seq(RowT)]

\* Every row stays where it is.
RowsStay == \A s \in Sections : \A k \in DOMAIN rows[s] : k \in DOMAIN rows'[s]

LEMMA RowTypes == \A v \in Values : Row(v) \in RowT
BY DEF Row, RowT

LEMMA ValuesAre == {"empty", "none", "parsed", "human"} \subseteq Values /\ Entries \subseteq Values
BY DEF Values, Blank

LEMMA RowsInit == Init => RowsOK
<1> SUFFICES ASSUME Init PROVE RowsOK
  OBVIOUS
<1>1. rows = [s \in Sections |-> [k \in DOMAIN site.given[s] |-> Row(site.given[s][k])]] /\ site \in Sites
  BY DEF Init
<1>2. ASSUME NEW s \in Sections
      PROVE  [k \in DOMAIN site.given[s] |-> Row(site.given[s][k])] \in Seq(RowT)
  <2> DEFINE g == site.given[s]
  <2>1. g \in Seq({"empty", "none", "parsed"})
    BY <1>1, <1>2, Settings
  <2> HIDE DEF g
  <2>2. DOMAIN g = 1..Len(g) /\ Len(g) \in Nat /\ \A k \in DOMAIN g : g[k] \in {"empty", "none", "parsed"}
    BY <2>1, LenProperties, ElementOfSeq
  <2>3. \A k \in DOMAIN g : Row(g[k]) \in RowT
    BY <2>2, RowTypes, ValuesAre
  <2>4. [k \in DOMAIN g |-> Row(g[k])] \in [1..Len(g) -> RowT]
    BY <2>2, <2>3
  <2>5. [k \in DOMAIN g |-> Row(g[k])] \in Seq(RowT)
    BY <2>2, <2>4, SeqDef
  <2>6. QED
    BY <2>5 DEF g
<1>3. QED
  BY <1>1, <1>2 DEF RowsOK

LEMMA RowsAre ==
  ASSUME RowsOK, NEW s \in Sections
  PROVE  /\ rows[s] \in Seq(RowT) /\ DOMAIN rows[s] = 1..Len(rows[s]) /\ Len(rows[s]) \in Nat
         /\ \A k \in DOMAIN rows[s] : rows[s][k] \in RowT
<1>1. rows[s] \in Seq(RowT)
  BY DEF RowsOK
<1>2. QED
  BY <1>1, LenProperties, ElementOfSeq

\* A row is added to some sections.
LEMMA Appended ==
  ASSUME RowsOK, NEW T \in SUBSET Sections, NEW r \in RowT,
         rows' = [s \in Sections |-> IF s \in T THEN Append(rows[s], r) ELSE rows[s]]
  PROVE  /\ RowsOK'
         /\ \A s \in Sections : \A k \in DOMAIN rows[s] : k \in DOMAIN rows'[s] /\ rows'[s][k] = rows[s][k]
<1>1. ASSUME NEW s \in Sections
      PROVE  /\ rows'[s] \in Seq(RowT)
             /\ \A k \in DOMAIN rows[s] : k \in DOMAIN rows'[s] /\ rows'[s][k] = rows[s][k]
  <2>1. rows[s] \in Seq(RowT) /\ DOMAIN rows[s] = 1..Len(rows[s]) /\ Len(rows[s]) \in Nat
    BY RowsAre
  <2>2. CASE s \in T
    <3>1. /\ Append(rows[s], r) \in Seq(RowT) /\ Len(Append(rows[s], r)) = Len(rows[s]) + 1
          /\ \A i \in 1..Len(rows[s]) : Append(rows[s], r)[i] = rows[s][i]
      BY <2>1, AppendProperties
    <3>2. rows'[s] = Append(rows[s], r)
      BY <2>2
    <3>3. DOMAIN rows'[s] = 1..Len(rows[s]) + 1
      BY <3>1, <3>2, LenProperties
    <3>4. QED
      BY <2>1, <3>1, <3>2, <3>3
  <2>3. CASE s \notin T
    BY <2>1, <2>3
  <2>4. QED
    BY <2>2, <2>3
<1>2. QED
  BY <1>1 DEF RowsOK

LEMMA AppendedOne ==
  ASSUME RowsOK, NEW x, NEW r \in RowT, rows' = [rows EXCEPT ![x] = Append(@, r)]
  PROVE  /\ RowsOK'
         /\ \A s \in Sections : \A k \in DOMAIN rows[s] : k \in DOMAIN rows'[s] /\ rows'[s][k] = rows[s][k]
<1>1. DOMAIN rows = Sections
  BY DEF RowsOK
<1>2. rows' = [s \in Sections |-> IF s \in {x} \cap Sections THEN Append(rows[s], r) ELSE rows[s]]
  BY <1>1
<1>3. QED
  BY <1>2, Appended

\* An input of a row, or its state, is set.
LEMMA SetOne ==
  ASSUME RowsOK, NEW x, NEW y, NEW r, rows' = [rows EXCEPT ![x] = [rows[x] EXCEPT ![y] = r]],
         x \in Sections /\ y \in DOMAIN rows[x] => r \in RowT
  PROVE  /\ RowsOK' /\ RowsStay
         /\ \A s \in Sections : \A k \in DOMAIN rows[s] : ~(s = x /\ k = y) => rows'[s][k] = rows[s][k]
         /\ x \in Sections /\ y \in DOMAIN rows[x] => rows'[x][y] = r
<1>1. DOMAIN rows = Sections
  BY DEF RowsOK
<1>2. ASSUME NEW s \in Sections
      PROVE  /\ rows'[s] \in Seq(RowT) /\ DOMAIN rows'[s] = DOMAIN rows[s]
             /\ \A k \in DOMAIN rows[s] : ~(s = x /\ k = y) => rows'[s][k] = rows[s][k]
             /\ s = x /\ y \in DOMAIN rows[x] => rows'[x][y] = r
  <2>1. /\ rows[s] \in Seq(RowT) /\ DOMAIN rows[s] = 1..Len(rows[s]) /\ Len(rows[s]) \in Nat
        /\ \A k \in DOMAIN rows[s] : rows[s][k] \in RowT
    BY RowsAre
  <2>2. CASE s # x
    BY <1>1, <2>1, <2>2
  <2>3. CASE s = x
    <3>1. rows'[s] = [rows[s] EXCEPT ![y] = r]
      BY <1>1, <2>3
    <3>2. rows[s] \in [1..Len(rows[s]) -> RowT]
      BY <2>1
    <3>3. rows'[s] \in [1..Len(rows[s]) -> RowT]
      <4>1. CASE y \in 1..Len(rows[s])
        <5>1. r \in RowT
          BY <1>2, <2>1, <2>3, <4>1
        <5>2. QED
          BY <3>1, <3>2, <5>1
      <4>2. CASE y \notin 1..Len(rows[s])
        <5>1. rows'[s] = rows[s]
          BY <3>1, <3>2, <4>2
        <5>2. QED
          BY <3>2, <5>1
      <4>3. QED
        BY <4>1, <4>2
    <3>4. rows'[s] \in Seq(RowT)
      BY <2>1, <3>3, SeqDef
    <3>5. QED
      BY <2>1, <2>3, <3>1, <3>3, <3>4
  <2>4. QED
    BY <2>2, <2>3
<1>3. QED
  BY <1>2 DEF RowsOK, RowsStay

\* The nested form the actions use.
SetTo(x, y, f, v) == [rows EXCEPT ![x][y][f] = v]

LEMMA SetField ==
  ASSUME RowsOK, NEW x, NEW y, NEW f \in {"name", "date"}, NEW v \in Values,
         rows' = SetTo(x, y, f, v)
  PROVE  /\ RowsOK' /\ RowsStay
         /\ \A s \in Sections : \A k \in DOMAIN rows[s] : \A g \in {"name", "date"} :
              ~(s = x /\ k = y /\ g = f) => rows'[s][k][g] = rows[s][k][g]
         /\ \A s \in Sections : \A k \in DOMAIN rows[s] : rows'[s][k].open = rows[s][k].open
         /\ x \in Sections /\ y \in DOMAIN rows[x] => rows'[x][y][f] = v
<1> DEFINE r == [rows[x][y] EXCEPT ![f] = v]
<1>1. rows' = [rows EXCEPT ![x] = [rows[x] EXCEPT ![y] = r]]
  BY DEF SetTo
<1>2. ASSUME x \in Sections /\ y \in DOMAIN rows[x]
      PROVE  r \in RowT /\ r[f] = v /\ r.open = rows[x][y].open
             /\ \A g \in {"name", "date"} : g # f => r[g] = rows[x][y][g]
  <2>1. rows[x][y] \in RowT
    BY <1>2, RowsAre
  <2>2. CASE f = "name"
    BY <2>1, <2>2 DEF RowT
  <2>3. CASE f = "date"
    BY <2>1, <2>3 DEF RowT
  <2>4. QED
    BY <2>2, <2>3
<1> HIDE DEF r
<1>3. /\ RowsOK' /\ RowsStay
      /\ \A s \in Sections : \A k \in DOMAIN rows[s] : ~(s = x /\ k = y) => rows'[s][k] = rows[s][k]
      /\ x \in Sections /\ y \in DOMAIN rows[x] => rows'[x][y] = r
  <2>1. x \in Sections /\ y \in DOMAIN rows[x] => r \in RowT
    BY <1>2
  <2>2. QED
    BY <1>1, <2>1, SetOne
<1>4. QED
  BY <1>2, <1>3

LEMMA Closed ==
  ASSUME RowsOK, NEW x, NEW y, rows' = [rows EXCEPT ![x][y].open = FALSE]
  PROVE  /\ RowsOK' /\ RowsStay
         /\ \A s \in Sections : \A k \in DOMAIN rows[s] : \A g \in {"name", "date"} : rows'[s][k][g] = rows[s][k][g]
<1> DEFINE r == [rows[x][y] EXCEPT !.open = FALSE]
<1>1. rows' = [rows EXCEPT ![x] = [rows[x] EXCEPT ![y] = r]]
  OBVIOUS
<1>2. ASSUME x \in Sections /\ y \in DOMAIN rows[x]
      PROVE  r \in RowT /\ \A g \in {"name", "date"} : r[g] = rows[x][y][g]
  <2>1. rows[x][y] \in RowT
    BY <1>2, RowsAre
  <2>2. QED
    BY <2>1 DEF RowT
<1> HIDE DEF r
<1>3. /\ RowsOK' /\ RowsStay
      /\ \A s \in Sections : \A k \in DOMAIN rows[s] : ~(s = x /\ k = y) => rows'[s][k] = rows[s][k]
      /\ x \in Sections /\ y \in DOMAIN rows[x] => rows'[x][y] = r
  <2>1. x \in Sections /\ y \in DOMAIN rows[x] => r \in RowT
    BY <1>2
  <2>2. QED
    BY <1>1, <2>1, SetOne
<1>4. QED
  BY <1>2, <1>3

-----------------------------------------------------------------------------
(* Nothing is taken away                                                   *)

\* The first and the last of some numbers.
LEMMA Extremes ==
  ASSUME NEW n \in Nat, NEW N \in SUBSET (1..n), N # {}
  PROVE  /\ \E x \in N : \A y \in N : x <= y
         /\ \E x \in N : \A y \in N : y <= x
<1>1. ASSUME NEW T \in SUBSET Nat, T # {} PROVE \E x \in T : \A y \in T : x <= y
  <2>1. PICK x \in T : \A y \in T : ~(<<y, x>> \in OpToRel(<, Nat))
    BY <1>1, NatLessThanWellFounded, WFMin
  <2>2. ASSUME NEW y \in T, y < x PROVE <<y, x>> \in OpToRel(<, Nat)
    <3>1. y \in Nat /\ x \in Nat
      BY <1>1
    <3>2. QED
      BY <2>2, <3>1 DEF OpToRel
  <2>3. \A y \in T : ~(y < x)
    BY <2>1, <2>2, Zenon
  <2>4. \A y \in T : x <= y
    BY <1>1, <2>3
  <2>5. QED
    BY <2>4
<1>2. N \subseteq Nat
  OBVIOUS
<1>3. \E x \in N : \A y \in N : x <= y
  BY <1>1, <1>2
<1> DEFINE T == {m \in Nat : \E x \in N : m = n - x}
<1>4. T \subseteq Nat /\ T # {}
  <2>1. PICK x : x \in N
    OBVIOUS
  <2>2. n - x \in T
    BY <2>1
  <2>3. QED
    BY <2>2
<1>5. PICK m \in T : \A k \in T : m <= k
  BY <1>1, <1>4
<1>6. PICK x \in N : m = n - x
  BY <1>5
<1>7. \A y \in N : n - y \in T
  OBVIOUS
<1>8. \A y \in N : y <= x
  <2>1. ASSUME NEW y \in N PROVE y <= x
    <3>1. n - x <= n - y
      BY <1>5, <1>6, <1>7
    <3>2. x \in Nat /\ y \in Nat
      BY <1>2
    <3>3. QED
      BY <3>1, <3>2
  <2>2. QED
    BY <2>1
<1>9. QED
  BY <1>3, <1>8

\* The order of the page is one.
LEMMA Places ==
  ASSUME site.order \in Seq(Sections), NEW s \in ToSet(site.order)
  PROVE  Place(s) \in 1..Len(site.order) /\ site.order[Place(s)] = s /\ s \in Sections /\ Len(site.order) \in Nat
<1>1. DOMAIN site.order = 1..Len(site.order) /\ Len(site.order) \in Nat
  BY LenProperties
<1>2. \E k \in DOMAIN site.order : site.order[k] = s
  BY DEF ToSet
<1>3. Place(s) \in DOMAIN site.order /\ site.order[Place(s)] = s
  BY <1>2 DEF Place
<1>4. site.order[Place(s)] \in Sections
  BY <1>1, <1>3, ElementOfSeq
<1>5. QED
  BY <1>1, <1>3, <1>4

LEMMA OneWay ==
  ASSUME site.order \in Seq(Sections), NEW a, NEW b,
         a.sec \in ToSet(site.order), b.sec \in ToSet(site.order), a.row \in Nat, b.row \in Nat
  PROVE  ~(Before(a, b) /\ Before(b, a))
<1>1. Place(a.sec) \in 1..Len(site.order) /\ Place(b.sec) \in 1..Len(site.order) /\ Len(site.order) \in Nat
  BY Places
<1>2. QED
  BY <1>1 DEF Before

\* Of some places of the page, FirstOf gives the first and LastOf the last.
LEMMA Ends ==
  ASSUME site.order \in Seq(Sections), NEW m \in Nat, NEW P, P # {},
         \A a \in P : a = [sec |-> a.sec, row |-> a.row] /\ a.sec \in ToSet(site.order) /\ a.row \in 1..m
  PROVE  /\ FirstOf(P) \in P /\ \A b \in P \ {FirstOf(P)} : Before(FirstOf(P), b)
         /\ LastOf(P) \in P /\ \A b \in P \ {LastOf(P)} : Before(b, LastOf(P))
<1> DEFINE n == Len(site.order)
           K == {k \in 1..n : \E a \in P : Place(a.sec) = k}
           N(k) == {x \in 1..m : \E a \in P : Place(a.sec) = k /\ a.row = x}
<1>1. n \in Nat /\ \A a \in P : Place(a.sec) \in 1..n /\ site.order[Place(a.sec)] = a.sec
  <2>1. n \in Nat
    BY LenProperties
  <2>2. QED
    BY <2>1, Places
<1>2. K # {} /\ K \in SUBSET (1..n) /\ \A k \in K : N(k) # {} /\ N(k) \in SUBSET (1..m)
  BY <1>1
<1>3. ASSUME NEW a \in P, NEW b \in P \ {a}, Place(a.sec) = Place(b.sec) PROVE a.row # b.row
  BY <1>1, <1>3
<1>4. \A a \in P : Place(a.sec) \in K /\ a.row \in N(Place(a.sec))
  BY <1>1
<1>a. \A k \in K : \A x \in N(k) : \E a \in P : Place(a.sec) = k /\ a.row = x
  OBVIOUS
<1> HIDE DEF K, N
<1>5. \E a \in P : \A b \in P \ {a} : Before(a, b)
  <2>1. PICK k \in K : \A l \in K : k <= l
    BY <1>1, <1>2, Extremes
  <2>2. PICK x \in N(k) : \A y \in N(k) : x <= y
    BY <1>2, Extremes
  <2>3. PICK a \in P : Place(a.sec) = k /\ a.row = x
    BY <1>a, <2>1, <2>2
  <2>4. ASSUME NEW b \in P \ {a} PROVE Before(a, b)
    <3>0. Place(b.sec) \in 1..n /\ Place(a.sec) \in 1..n /\ b.row \in 1..m /\ a.row \in 1..m
      BY <1>1
    <3>1. k <= Place(b.sec) /\ k \in Int /\ Place(b.sec) \in Int /\ x \in Int /\ b.row \in Int
      BY <1>1, <1>4, <2>1, <2>3, <3>0
    <3>2. CASE Place(b.sec) = k
      <4>1. x <= b.row /\ x # b.row
        BY <1>3, <1>4, <2>2, <2>3, <3>2
      <4>2. a.sec = b.sec
        BY <1>1, <2>3, <3>2
      <4>3. QED
        BY <2>3, <3>1, <4>1, <4>2 DEF Before
    <3>3. CASE Place(b.sec) # k
      BY <2>3, <3>1, <3>3 DEF Before
    <3>4. QED
      BY <3>2, <3>3
  <2>5. QED
    BY <2>4
<1>6. \E a \in P : \A b \in P \ {a} : Before(b, a)
  <2>1. PICK k \in K : \A l \in K : l <= k
    BY <1>1, <1>2, Extremes
  <2>2. PICK x \in N(k) : \A y \in N(k) : y <= x
    BY <1>2, Extremes
  <2>3. PICK a \in P : Place(a.sec) = k /\ a.row = x
    BY <1>a, <2>1, <2>2
  <2>4. ASSUME NEW b \in P \ {a} PROVE Before(b, a)
    <3>0. Place(b.sec) \in 1..n /\ Place(a.sec) \in 1..n /\ b.row \in 1..m /\ a.row \in 1..m
      BY <1>1
    <3>1. Place(b.sec) <= k /\ k \in Int /\ Place(b.sec) \in Int /\ x \in Int /\ b.row \in Int
      BY <1>1, <1>4, <2>1, <2>3, <3>0
    <3>2. CASE Place(b.sec) = k
      <4>1. b.row <= x /\ x # b.row
        BY <1>3, <1>4, <2>2, <2>3, <3>2
      <4>2. a.sec = b.sec
        BY <1>1, <2>3, <3>2
      <4>3. QED
        BY <2>3, <3>1, <4>1, <4>2 DEF Before
    <3>3. CASE Place(b.sec) # k
      BY <2>3, <3>1, <3>3 DEF Before
    <3>4. QED
      BY <3>2, <3>3
  <2>5. QED
    BY <2>4
<1>7. QED
  BY <1>5, <1>6 DEF FirstOf, LastOf

\* The open rows, of any rows.
OpenOf(R, scr, T) ==
  IF scr # "form" THEN {}
  ELSE {a \in [sec : T, row : 1..Max({Len(R[s]) : s \in Sections} \cup {0})] :
          a.row <= Len(R[a.sec]) /\ R[a.sec][a.row].open}

LEMMA Longest ==
  ASSUME NEW R \in [Sections -> Seq(RowT)], NEW m, m = Max({Len(R[s]) : s \in Sections} \cup {0})
  PROVE  m \in Nat /\ \A s \in Sections : Len(R[s]) <= m /\ Len(R[s]) \in Nat
<1> DEFINE L == {Len(R[s]) : s \in Sections} \cup {0}
<1>1. \A s \in Sections : Len(R[s]) \in Nat
  <2>1. \A s \in Sections : R[s] \in Seq(RowT)
    OBVIOUS
  <2>2. QED
    BY <2>1, LenProperties
<1>2. \E x \in L : \A y \in L : x >= y
  <2>1. L = {Len(R["work"]), Len(R["school"]), Len(R["certs"]), 0}
    BY DEF Sections
  <2>2. Len(R["work"]) \in Nat /\ Len(R["school"]) \in Nat /\ Len(R["certs"]) \in Nat
    BY <1>1 DEF Sections
  <2> HIDE DEF L
  <2>3. PICK x, y, z : x = Len(R["work"]) /\ y = Len(R["school"]) /\ z = Len(R["certs"])
    OBVIOUS
  <2>4. \E i \in {x, y, z, 0} : i >= x /\ i >= y /\ i >= z /\ i >= 0
    BY <2>2, <2>3
  <2>5. QED
    BY <2>1, <2>3, <2>4
<1>3. m \in L /\ \A y \in L : m >= y
  BY <1>2 DEF Max
<1>4. QED
  BY <1>1, <1>3

LEMMA OpenIs ==
  ASSUME NEW R \in [Sections -> Seq(RowT)], NEW scr, NEW T \in SUBSET Sections, NEW a
  PROVE  a \in OpenOf(R, scr, T) <=>
           /\ scr = "form" /\ a = [sec |-> a.sec, row |-> a.row] /\ a.sec \in T
           /\ a.row \in 1..Len(R[a.sec]) /\ R[a.sec][a.row].open
<1>1. PICK m : m = Max({Len(R[s]) : s \in Sections} \cup {0})
  OBVIOUS
<1>2. m \in Nat /\ \A s \in Sections : Len(R[s]) <= m /\ Len(R[s]) \in Nat
  BY <1>1, Longest
<1>3. a \in [sec : T, row : 1..m] <=> a = [sec |-> a.sec, row |-> a.row] /\ a.sec \in T /\ a.row \in 1..m
  OBVIOUS
<1>4. a.sec \in T /\ a.row \in 1..Len(R[a.sec]) => a.row \in 1..m
  <2> SUFFICES ASSUME a.sec \in T, a.row \in 1..Len(R[a.sec]) PROVE a.row \in 1..m
    OBVIOUS
  <2>1. Len(R[a.sec]) <= m /\ Len(R[a.sec]) \in Nat
    BY <1>2
  <2>2. QED
    BY <1>2, <2>1
<1>5. a.sec \in T /\ a.row \in 1..m /\ a.row <= Len(R[a.sec]) => a.row \in 1..Len(R[a.sec])
  BY <1>2
<1>6. a.row \in 1..Len(R[a.sec]) /\ a.sec \in T => a.row <= Len(R[a.sec])
  BY <1>2
<1>7. QED
  BY <1>1, <1>3, <1>4, <1>5, <1>6 DEF OpenOf

\* The sections whose inputs match the field in hand.
Reach == IF Field = "date" /\ site.shared THEN ToSet(site.order) ELSE ToSet(site.order) \cap {Sec}

LEMMA InputsAre ==
  /\ Inputs = OpenOf(rows, screen, Reach)
  /\ UNCHANGED <<kind, site, turn, fld>> => Inputs' = OpenOf(rows', screen', Reach)
  /\ Reach \subseteq ToSet(site.order) /\ (site.order \in Seq(Sections) => Reach \in SUBSET Sections)
<1>1. Inputs = OpenOf(rows, screen, Reach)
  BY DEF Inputs, Open, OpenOf, Reach
<1>2. ASSUME UNCHANGED <<kind, site, turn, fld>> PROVE Inputs' = OpenOf(rows', screen', Reach)
  <2>1. Field' = Field /\ Sec' = Sec
    BY <1>2 DEF Field, Sec, Turns
  <2>2. QED
    BY <1>2, <2>1 DEF Inputs, Open, OpenOf, Reach
<1>3. Reach \subseteq ToSet(site.order)
  BY DEF Reach
<1>4. ASSUME site.order \in Seq(Sections) PROVE ToSet(site.order) \subseteq Sections
  BY <1>4, Places
<1>5. QED
  BY <1>1, <1>2, <1>3, <1>4

\* The places of the matching inputs, of any rows.
LEMMA PlacesOf ==
  ASSUME site.order \in Seq(Sections), NEW R \in [Sections -> Seq(RowT)], NEW scr
  PROVE  \E m \in Nat : \A a \in OpenOf(R, scr, Reach) :
           /\ a = [sec |-> a.sec, row |-> a.row] /\ a.sec \in ToSet(site.order) /\ a.row \in 1..m
           /\ a.row \in 1..Len(R[a.sec])
<1>1. PICK m : m = Max({Len(R[s]) : s \in Sections} \cup {0})
  OBVIOUS
<1>2. m \in Nat /\ \A s \in Sections : Len(R[s]) <= m /\ Len(R[s]) \in Nat
  BY <1>1, Longest
<1>3. Reach \subseteq ToSet(site.order) /\ Reach \in SUBSET Sections
  BY InputsAre
<1>4. ASSUME NEW a \in OpenOf(R, scr, Reach)
      PROVE  /\ a = [sec |-> a.sec, row |-> a.row] /\ a.sec \in ToSet(site.order) /\ a.row \in 1..m
             /\ a.row \in 1..Len(R[a.sec])
  <2>1. a = [sec |-> a.sec, row |-> a.row] /\ a.sec \in Reach /\ a.row \in 1..Len(R[a.sec])
    BY <1>3, OpenIs
  <2>2. Len(R[a.sec]) <= m /\ Len(R[a.sec]) \in Nat
    BY <1>2, <1>3, <2>1
  <2>3. QED
    BY <1>2, <1>3, <2>1, <2>2
<1>5. QED
  BY <1>2, <1>4

LEMMA TargetIs ==
  ASSUME PlaceOK, RowsOK, Inputs # {}
  PROVE  /\ Target \in Inputs /\ Target.sec \in Sections /\ Target.row \in DOMAIN rows[Target.sec]
         /\ Target = [sec |-> Target.sec, row |-> Target.row] /\ Target.sec \in Reach
<1>1. site.order \in Seq(Sections) /\ rows \in [Sections -> Seq(RowT)]
  BY Settings DEF PlaceOK, RowsOK
<1>2. Inputs = OpenOf(rows, screen, Reach) /\ Reach \in SUBSET Sections
  BY <1>1, InputsAre
<1>3. PICK m \in Nat : \A a \in Inputs :
        /\ a = [sec |-> a.sec, row |-> a.row] /\ a.sec \in ToSet(site.order) /\ a.row \in 1..m
        /\ a.row \in 1..Len(rows[a.sec])
  BY <1>1, <1>2, PlacesOf
<1>4. Target \in Inputs
  <2>1. FirstOf(Inputs) \in Inputs /\ LastOf(Inputs) \in Inputs
    BY <1>1, <1>3, Ends
  <2>2. QED
    BY <2>1 DEF Target
<1>5. Target.sec \in Reach
  BY <1>1, <1>2, <1>4, OpenIs
<1>6. QED
  BY <1>2, <1>3, <1>4, <1>5, RowsAre

\* When more inputs come to match, the one to type into stays or is a new one.
LEMMA TargetMoves ==
  ASSUME PlaceOK, RowsOK, RowsOK', UNCHANGED <<kind, site, turn, fld>>, Inputs # {}, Inputs \subseteq Inputs'
  PROVE  Target' = Target \/ Target' \in Inputs' \ Inputs
<1>1. site.order \in Seq(Sections) /\ rows \in [Sections -> Seq(RowT)] /\ rows' \in [Sections -> Seq(RowT)]
  BY Settings DEF PlaceOK, RowsOK
<1>2. Inputs = OpenOf(rows, screen, Reach) /\ Inputs' = OpenOf(rows', screen', Reach)
  BY InputsAre
<1>3. PICK P, Q : P = Inputs /\ Q = Inputs'
  OBVIOUS
<1>4. PICK m \in Nat : \A a \in P : /\ a = [sec |-> a.sec, row |-> a.row] /\ a.sec \in ToSet(site.order)
                                    /\ a.row \in 1..m
  BY <1>1, <1>2, <1>3, PlacesOf
<1>5. PICK n \in Nat : \A a \in Q : /\ a = [sec |-> a.sec, row |-> a.row] /\ a.sec \in ToSet(site.order)
                                    /\ a.row \in 1..n
  <2>1. Q = OpenOf(rows', screen', Reach)
    BY <1>2, <1>3
  <2>2. QED
    BY <1>1, <2>1, PlacesOf
<1>6. P # {} /\ Q # {} /\ P \subseteq Q
  BY <1>3
<1>7. /\ FirstOf(P) \in P /\ \A b \in P \ {FirstOf(P)} : Before(FirstOf(P), b)
      /\ LastOf(P) \in P /\ \A b \in P \ {LastOf(P)} : Before(b, LastOf(P))
  BY <1>1, <1>4, <1>6, Ends
<1>8. /\ FirstOf(Q) \in Q /\ \A b \in Q \ {FirstOf(Q)} : Before(FirstOf(Q), b)
      /\ LastOf(Q) \in Q /\ \A b \in Q \ {LastOf(Q)} : Before(b, LastOf(Q))
  BY <1>1, <1>5, <1>6, Ends
<1>9. \A a, b \in Q : ~(Before(a, b) /\ Before(b, a))
  <2>1. \A a \in Q : a.row \in Nat
    BY <1>5
  <2>2. QED
    BY <1>1, <1>5, <2>1, OneWay
<1>10. /\ \A c \in P : (\A b \in Q \ {c} : Before(c, b)) => c = FirstOf(P)
       /\ \A c \in P : (\A b \in Q \ {c} : Before(b, c)) => c = LastOf(P)
  BY <1>6, <1>7, <1>9
<1>11. \A s : Place(s)' = Place(s)
  BY DEF Place
<1>12. \A a, b : Before(a, b)' <=> Before(a, b)
  BY <1>11 DEF Before
<1>13. ByLabel' = ByLabel
  BY DEF ByLabel, Sec, Turns
<1>14. CASE ByLabel
  <2>1. \E a \in Inputs' : \A b \in Inputs' \ {a} : Before(b, a)'
    BY <1>3, <1>8, <1>12
  <2>2. (LastOf(Inputs) \in Inputs /\ \A b \in Inputs \ {LastOf(Inputs)} : Before(b, LastOf(Inputs)))'
    BY <2>1 DEF LastOf
  <2>3. Target' = LastOf(Inputs)' /\ Target = LastOf(P)
    BY <1>3, <1>13, <1>14 DEF Target
  <2>4. Target' \in Q /\ \A b \in Q \ {Target'} : Before(b, Target')
    BY <1>3, <1>12, <2>2, <2>3
  <2>5. QED
    BY <1>3, <1>10, <2>3, <2>4
<1>15. CASE ~ByLabel
  <2>1. \E a \in Inputs' : \A b \in Inputs' \ {a} : Before(a, b)'
    BY <1>3, <1>8, <1>12
  <2>2. (FirstOf(Inputs) \in Inputs /\ \A b \in Inputs \ {FirstOf(Inputs)} : Before(FirstOf(Inputs), b))'
    BY <2>1 DEF FirstOf
  <2>3. Target' = FirstOf(Inputs)' /\ Target = FirstOf(P)
    BY <1>3, <1>13, <1>15 DEF Target
  <2>4. Target' \in Q /\ \A b \in Q \ {Target'} : Before(Target', b)
    BY <1>3, <1>12, <2>2, <2>3
  <2>5. QED
    BY <1>3, <1>10, <2>3, <2>4
<1>16. QED
  BY <1>14, <1>15

LEMMA TargetStays ==
  ASSUME PlaceOK, RowsOK, UNCHANGED <<kind, site, turn, fld, rows, screen>>, Seen
  PROVE  Seen' /\ Target' = Target /\ Field' = Field
<1>1. Inputs' = Inputs /\ RowsOK' /\ Inputs # {}
  <2>1. Inputs = OpenOf(rows, screen, Reach) /\ Inputs' = OpenOf(rows', screen', Reach)
    BY InputsAre
  <2>2. QED
    BY <2>1 DEF RowsOK, Seen
<1>2. Target' = Target
  BY <1>1, TargetMoves
<1>3. QED
  BY <1>1, <1>2 DEF Seen, ByLabel, Field, Sec, Turns

\* What was looked at and is to be typed into: without a value, or filled since.
Safe(s, k, f) == rows[s][k][f] \in Blank \/ <<s, k, f>> \in touched

WriteOK ==
  /\ at \in {"look", "click", "type"}
  /\ at # "look" => AtField
  /\ at = "click" => Seen /\ Safe(Target.sec, Target.row, Field)
  /\ at = "type" => /\ focus = <<focus[1], focus[2], focus[3]>> /\ focus[1] \in Sections
                    /\ focus[2] \in DOMAIN rows[focus[1]] /\ focus[3] \in {"name", "date"}
                    /\ Safe(focus[1], focus[2], focus[3])

LEMMA WriteInit == Init => WriteOK
BY DEF Init, WriteOK

Kept ==
  \A s \in Sections : \A k \in DOMAIN rows[s] :
    /\ k \in DOMAIN rows'[s]
    /\ \A f \in {"name", "date"} :
         rows[s][k][f] \notin Blank /\ rows'[s][k][f] # rows[s][k][f]
         => \/ rows'[s][k][f] = "human" \/ <<s, k, f>> \in touched
            \/ (Choice /\ Seen /\ <<s, k, f>> = <<Target.sec, Target.row, Field>>)

\* The row that an Append adds.
LEMMA NewRow ==
  ASSUME NEW R \in Seq(RowT), NEW r \in RowT, NEW k \in DOMAIN Append(R, r), k \notin DOMAIN R
  PROVE  k = Len(R) + 1 /\ Append(R, r)[k] = r
BY AppendProperties, LenProperties

\* One input is set.
LEMMA KeptBy ==
  ASSUME RowsOK, NEW x, NEW y, NEW f \in {"name", "date"}, NEW v \in Values, rows' = SetTo(x, y, f, v),
         v = "human" \/ Safe(x, y, f) \/ (Choice /\ Seen /\ <<x, y, f>> = <<Target.sec, Target.row, Field>>)
  PROVE  RowsOK' /\ Kept
<1>1. /\ RowsOK' /\ RowsStay
      /\ \A s \in Sections : \A k \in DOMAIN rows[s] : \A g \in {"name", "date"} :
           ~(s = x /\ k = y /\ g = f) => rows'[s][k][g] = rows[s][k][g]
      /\ \A s \in Sections : \A k \in DOMAIN rows[s] : rows'[s][k].open = rows[s][k].open
      /\ x \in Sections /\ y \in DOMAIN rows[x] => rows'[x][y][f] = v
  BY SetField, ZenonT(60)
<1>2. QED
  BY <1>1 DEF Kept, RowsStay, Safe

LEMMA FieldHas == PlaceOK /\ AtField => Field \in {"name", "date"} /\ Entry \in Entries /\ Entry \in Values
<1> SUFFICES ASSUME PlaceOK, AtField PROVE Field \in {"name", "date"} /\ Entry \in Entries /\ Entry \in Values
  OBVIOUS
<1>1. pc = "fields" /\ fld \in {1, 2}
  BY FieldsAre DEF AtField, PlaceOK
<1>2. QED
  BY <1>1, FieldsAre, InPlace, ValuesAre DEF Field

LEMMA RowsStep ==
  ASSUME PlaceOK, RowsOK, WriteOK, [Next]_vars
  PROVE  RowsOK' /\ Kept
<1>0. {"empty", "none", "parsed", "human"} \subseteq Values /\ Entries \subseteq Values
  BY ValuesAre
<1>1. CASE UNCHANGED rows
  BY <1>1 DEF RowsOK, Kept
<1>2. CASE \E x : rows' = [rows EXCEPT ![x] = Append(@, Row("empty"))]
  <2>1. PICK x : rows' = [rows EXCEPT ![x] = Append(@, Row("empty"))]
    BY <1>2
  <2>2. QED
    BY <1>0, <2>1, RowTypes, AppendedOne DEF Kept
<1>3. CASE Parse
  <2> DEFINE T == site.parses \cap Sections
  <2>1. rows' = [s \in Sections |-> IF s \in T THEN Append(rows[s], Row("parsed")) ELSE rows[s]]
    BY <1>3 DEF Parse
  <2>2. T \in SUBSET Sections /\ Row("parsed") \in RowT
    BY <1>0, RowTypes
  <2> HIDE DEF T
  <2>3. QED
    BY <2>1, <2>2, Appended DEF Kept
<1>4. CASE Edit
  <2>1. PICK a, f : f \in {"name", "date"} /\ rows' = SetTo(a.sec, a.row, f, "human")
    BY <1>4, FieldsAre DEF Edit, SetTo
  <2>2. QED
    BY <1>0, <2>1, KeptBy
<1>5. CASE TypeIn
  <2>1. /\ rows' = SetTo(focus[1], focus[2], focus[3], Entry) /\ AtField /\ focus[3] \in {"name", "date"}
        /\ Safe(focus[1], focus[2], focus[3])
    BY <1>5 DEF TypeIn, Put, SetTo, WriteOK
  <2>2. QED
    BY <2>1, FieldHas, KeptBy
<1>6. CASE FillInput \/ ChooseFromList
  <2>1. /\ rows' = SetTo(Target.sec, Target.row, Field, Entry) /\ AtField
        /\ Safe(Target.sec, Target.row, Field) \/ (Choice /\ Seen)
    BY <1>6 DEF FillInput, ChooseFromList, Put, SetTo, WriteOK
  <2>2. QED
    BY <2>1, FieldHas, KeptBy
<1>7. CASE ClickSave /\ ~UNCHANGED rows
  <2>1. PICK a : rows' = [rows EXCEPT ![a.sec][a.row].open = FALSE]
    BY <1>7 DEF ClickSave
  <2>2. /\ RowsOK' /\ RowsStay
        /\ \A s \in Sections : \A k \in DOMAIN rows[s] : \A g \in {"name", "date"} : rows'[s][k][g] = rows[s][k][g]
    BY <2>1, Closed
  <2>3. QED
    BY <2>2 DEF Kept, RowsStay
<1>8. CASE Render \/ ClickAdd \/ ClickAddLate
  BY <1>1, <1>2, <1>8 DEF Render, ClickAdd, ClickAddLate, Added
<1>9. UNCHANGED rows \/ Parse \/ Edit \/ FillField \/ ClickSave \/ Render \/ ClickAdd \/ ClickAddLate
  BY Zenon DEF Next, Program, Environment, Fill, Workday, FindSection, NoAdd, SectionEnds,
     EntryEnds, EntryEndsWorkday, Apply, NoDialog, Autofill, NoAutofill,
     Settled, Manually, Upload, Step, Submit, dialogRest, page, vars
<1>10. QED
  BY <1>1, <1>3, <1>4, <1>5, <1>6, <1>7, <1>8, <1>9, FieldIs

\* Nothing but a step at an input, or of the environment, comes between.
LEMMA Between ==
  ASSUME [Next]_vars, PlaceOK, WriteOK, at # "look"
  PROVE  FillField \/ Render \/ Parse \/ Edit \/ UNCHANGED vars
<1>1. pc = "fields" /\ fld <= Len(Fields)
  BY DEF WriteOK, AtField
<1>2. ~Workday
  BY <1>1 DEF Workday, Apply, NoDialog, Autofill, NoAutofill, Settled, Manually, Upload, Step,
     Submit
<1>3. ~(FindSection \/ ClickAdd \/ ClickAddLate \/ NoAdd \/ SectionEnds \/ ClickSave)
  BY <1>1 DEF FindSection, ClickAdd, ClickAddLate, NoAdd, SectionEnds, ClickSave
<1>4. ~(EntryEnds \/ EntryEndsWorkday)
  BY <1>1, FieldsAre DEF EntryEnds, EntryEndsWorkday, PlaceOK
<1>5. QED
  BY <1>2, <1>3, <1>4, Zenon DEF Next, Program, Environment, Fill

\* The keyboard rests while the filler is not at an input.
LEMMA KeysRest == [Next]_vars => UNCHANGED keys \/ FillField \/ Parse \/ Edit
BY Zenon DEF Next, Program, Environment, Fill, Workday, FindSection, ClickAdd, ClickAddLate,
   NoAdd, SectionEnds,
   EntryEnds, EntryEndsWorkday, ClickSave, Apply, NoDialog, Autofill, NoAutofill, Settled, Manually, Upload,
   Step, Submit, Render, dialogRest, vars

LEMMA Resting ==
  ASSUME [Next]_vars, at = "look"
  PROVE  FillField \/ at' = "look"
<1>1. Parse \/ Edit => at' = at
  BY DEF Parse, Edit
<1>2. UNCHANGED keys => at' = at
  BY DEF keys
<1>3. QED
  BY <1>1, <1>2, KeysRest

LEMMA WriteStep ==
  ASSUME PlaceOK, RowsOK, WriteOK, [Next]_vars
  PROVE  WriteOK'
<1>0. RowsOK' /\ Kept /\ {"empty", "none", "human"} \subseteq Values
  BY RowsStep, ValuesAre
<1>1. CASE at' = "look"
  BY <1>1 DEF WriteOK
<1>2. CASE FillField /\ at' # "look"
  <2>0. /\ AtField /\ UNCHANGED <<kind, site, turn, pc, screen>> /\ UNCHANGED <<fld, touched>>
        /\ at' \in {"click", "type"}
    BY <1>2, FieldIs DEF FieldEnds
  <2>1. AtField'
    BY <2>0 DEF AtField
  <2>2. CASE Look
    <3>1. /\ at' = "click" /\ Seen /\ UNCHANGED rows /\ rows[Target.sec][Target.row][Field] \in Blank
      BY <1>2, <2>2 DEF Look, FieldEnds
    <3>2. Seen' /\ Target' = Target /\ Field' = Field
      BY <2>0, <3>1, TargetStays
    <3>3. QED
      BY <2>1, <3>1, <3>2 DEF WriteOK, Safe
  <2>3. CASE ClickInput
    <3>1. /\ at = "click" /\ at' = "type" /\ focus' = <<Target.sec, Target.row, Field>> /\ UNCHANGED rows
          /\ Inputs # {}
      BY <2>3 DEF ClickInput, Seen
    <3>2. Safe(Target.sec, Target.row, Field) /\ Field \in {"name", "date"}
      BY <2>0, <3>1, FieldHas DEF WriteOK
    <3>3. Target.sec \in Sections /\ Target.row \in DOMAIN rows[Target.sec]
      BY <3>1, TargetIs
    <3>4. QED
      BY <2>0, <2>1, <3>1, <3>2, <3>3 DEF WriteOK, Safe
  <2>4. QED
    BY <1>2, <2>2, <2>3, FieldIs
<1>3. CASE UNCHANGED vars
  <2>1. /\ UNCHANGED <<kind, site, turn, fld, rows, screen>> /\ UNCHANGED <<at, focus, touched, pc>>
    BY <1>3 DEF vars, page, control, keys
  <2>2. at = "click" => Seen' /\ Target' = Target /\ Field' = Field
    BY <2>1, TargetStays DEF WriteOK
  <2>3. AtField' = AtField
    BY <2>1 DEF AtField
  <2>4. QED
    BY <2>1, <2>2, <2>3 DEF WriteOK, Safe
<1>4. CASE at # "look" /\ (Render \/ Parse \/ Edit)
  <2>0. UNCHANGED <<kind, site, turn, fld, pc, screen, at>>
    BY <1>4 DEF Render, Parse, Edit, control, keys
  <2>1. AtField /\ AtField' /\ Field' = Field /\ Field \in {"name", "date"}
    BY <1>4, <2>0, FieldHas DEF WriteOK, AtField, Field
  \* What happens to the rows.
  <2>2. /\ \A s \in Sections : \A k \in DOMAIN rows[s] :
             /\ k \in DOMAIN rows'[s] /\ rows'[s][k].open = rows[s][k].open
             /\ \A g \in {"name", "date"} : Safe(s, k, g) => Safe(s, k, g)'
        /\ \A s \in Sections : \A k \in DOMAIN rows'[s] :
             k \in DOMAIN rows[s] \/ \A g \in {"name", "date"} : Safe(s, k, g)'
        /\ UNCHANGED focus \/ Edit
    <3>1. CASE Render
      <4>1. PICK x \in Sections : rows' = [rows EXCEPT ![x] = Append(@, Row("empty"))]
        BY <3>1 DEF Render
      <4>2. touched' = touched /\ UNCHANGED focus
        BY <3>1 DEF Render, keys
      <4>3. \A s \in Sections : \A k \in DOMAIN rows[s] : k \in DOMAIN rows'[s] /\ rows'[s][k] = rows[s][k]
        BY <1>0, <4>1, RowTypes, AppendedOne
      <4>4. ASSUME NEW s \in Sections, NEW k \in DOMAIN rows'[s], k \notin DOMAIN rows[s]
            PROVE  rows'[s][k] = Row("empty")
        BY <4>1, <4>4, NewRow DEF RowsOK
      <4>5. Row("empty").name \in Blank /\ Row("empty").date \in Blank
        BY DEF Row, Blank
      <4>6. QED
        BY <4>2, <4>3, <4>4, <4>5 DEF Safe
    <3>2. CASE Parse
      <4> DEFINE T == site.parses \cap Sections
      <4>1. /\ rows' = [s \in Sections |-> IF s \in T THEN Append(rows[s], Row("parsed")) ELSE rows[s]]
            /\ touched' = touched \cup {<<s, Len(rows[s]) + 1, f>> : s \in site.parses, f \in ToSet(Fields)}
            /\ UNCHANGED focus
        BY <1>4, <3>2 DEF Parse, Touch
      <4>2. T \in SUBSET Sections /\ Row("parsed") \in RowT
        BY RowTypes, ValuesAre
      <4>3. \A s \in Sections : \A k \in DOMAIN rows[s] : k \in DOMAIN rows'[s] /\ rows'[s][k] = rows[s][k]
        <5> HIDE DEF T
        <5>1. QED
          BY <4>1, <4>2, Appended
      <4>4. ASSUME NEW s \in Sections, NEW k \in DOMAIN rows'[s], k \notin DOMAIN rows[s], NEW g \in {"name", "date"}
            PROVE  <<s, k, g>> \in touched'
        <5>1. s \in T /\ rows'[s] = Append(rows[s], Row("parsed"))
          BY <4>1, <4>4
        <5>2. k = Len(rows[s]) + 1
          BY <4>2, <4>4, <5>1, NewRow DEF RowsOK
        <5>3. s \in site.parses /\ g \in ToSet(Fields)
          BY <5>1, FieldsAre
        <5>4. QED
          BY <4>1, <5>2, <5>3
      <4>5. touched \subseteq touched'
        BY <4>1
      <4>6. QED
        BY <4>1, <4>3, <4>4, <4>5 DEF Safe
    <3>3. CASE Edit
      <4>1. PICK a, f : /\ f \in {"name", "date"} /\ rows' = SetTo(a.sec, a.row, f, "human")
                        /\ touched' = touched \cup {<<a.sec, a.row, f>>}
        BY <1>4, <3>3, FieldsAre DEF Edit, Touch, SetTo
      <4>2. "human" \in Values
        BY ValuesAre
      <4>3. PICK x, y : x = a.sec /\ y = a.row
        OBVIOUS
      <4>4. rows' = SetTo(x, y, f, "human") /\ touched' = touched \cup {<<x, y, f>>}
            /\ f \in {"name", "date"}
        BY <4>1, <4>3
      <4>5. /\ RowsStay
            /\ \A s \in Sections : \A k \in DOMAIN rows[s] : \A g \in {"name", "date"} :
                 ~(s = x /\ k = y /\ g = f) => rows'[s][k][g] = rows[s][k][g]
            /\ \A s \in Sections : \A k \in DOMAIN rows[s] : rows'[s][k].open = rows[s][k].open
        <5>1. PICK w : w = "human"
          OBVIOUS
        <5>2. rows' = SetTo(x, y, f, w) /\ f \in {"name", "date"} /\ w \in Values /\ RowsOK
          BY <4>2, <4>4, <5>1
        <5>3. /\ RowsOK' /\ RowsStay
              /\ \A s \in Sections : \A k \in DOMAIN rows[s] : \A g \in {"name", "date"} :
                   ~(s = x /\ k = y /\ g = f) => rows'[s][k][g] = rows[s][k][g]
              /\ \A s \in Sections : \A k \in DOMAIN rows[s] : rows'[s][k].open = rows[s][k].open
              /\ x \in Sections /\ y \in DOMAIN rows[x] => rows'[x][y][f] = w
          BY <5>2, SetField, ZenonT(60)
        <5>4. QED
          BY <5>3
      <4>6. \A s \in Sections : DOMAIN rows'[s] = DOMAIN rows[s]
        BY <4>4 DEF SetTo, RowsOK
      <4>7. QED
        BY <3>3, <4>4, <4>5, <4>6 DEF Safe, RowsStay
    <3>4. QED
      BY <1>4, <3>1, <3>2, <3>3
  <2>3. CASE at = "click"
    <3>1. Seen /\ Safe(Target.sec, Target.row, Field) /\ Inputs # {}
      BY <2>3 DEF WriteOK, Seen
    <3>2. /\ rows \in [Sections -> Seq(RowT)] /\ rows' \in [Sections -> Seq(RowT)] /\ Reach \in SUBSET Sections
          /\ Inputs = OpenOf(rows, screen, Reach) /\ Inputs' = OpenOf(rows', screen, Reach)
      BY <1>0, <2>0, InputsAre, Settings DEF RowsOK, PlaceOK
    <3>3. \A s \in Sections : DOMAIN rows[s] = 1..Len(rows[s]) /\ DOMAIN rows'[s] = 1..Len(rows'[s])
      BY <3>2, LenProperties
    <3>4. ASSUME NEW a \in Inputs PROVE a \in Inputs'
      <4>1. /\ screen = "form" /\ a = [sec |-> a.sec, row |-> a.row] /\ a.sec \in Reach
            /\ a.row \in 1..Len(rows[a.sec]) /\ rows[a.sec][a.row].open
        BY <3>2, <3>4, OpenIs
      <4>2. a.row \in 1..Len(rows'[a.sec]) /\ rows'[a.sec][a.row].open
        BY <2>2, <3>2, <3>3, <4>1
      <4>3. QED
        BY <3>2, <4>1, <4>2, OpenIs
    <3>5. Target' = Target \/ Target' \in Inputs' \ Inputs
      BY <1>0, <2>0, <3>1, <3>4, TargetMoves
    <3>6. Safe(Target.sec, Target.row, Field)' /\ Inputs' # {}
      <4>1. Inputs' # {}
        BY <3>1, <3>4
      <4>2. CASE Target' = Target
        <5>1. Target.sec \in Sections /\ Target.row \in DOMAIN rows[Target.sec]
          BY <3>1, TargetIs
        <5>2. PICK x, y, g : x = Target.sec /\ y = Target.row /\ g = Field
          OBVIOUS
        <5>3. Safe(x, y, g)'
          BY <2>1, <2>2, <3>1, <5>1, <5>2
        <5>4. QED
          BY <2>1, <4>1, <4>2, <5>2, <5>3 DEF Safe
      <4>3. CASE Target' \in Inputs' \ Inputs
        <5>1. PICK a : a = Target'
          OBVIOUS
        <5>0. a \in OpenOf(rows', screen, Reach)
          BY <3>2, <4>3, <5>1
        <5>2. /\ screen = "form" /\ a = [sec |-> a.sec, row |-> a.row] /\ a.sec \in Reach
              /\ a.row \in 1..Len(rows'[a.sec]) /\ rows'[a.sec][a.row].open
          BY <3>2, <5>0, OpenIs
        <5>3. a.row \notin DOMAIN rows[a.sec]
          <6>1. ASSUME a.row \in DOMAIN rows[a.sec] PROVE FALSE
            <7>1. a.row \in 1..Len(rows[a.sec]) /\ rows[a.sec][a.row].open
              BY <2>2, <3>2, <3>3, <5>2, <6>1
            <7>2. a \in Inputs
              BY <3>2, <5>2, <7>1, OpenIs
            <7>3. QED
              BY <4>3, <5>1, <7>2
          <6>2. QED
            BY <6>1
        <5>4. PICK x, y, g : x = a.sec /\ y = a.row /\ g = Field
          OBVIOUS
        <5>5. Safe(x, y, g)'
          BY <2>1, <2>2, <3>2, <3>3, <5>2, <5>3, <5>4
        <5>6. QED
          BY <2>1, <4>1, <5>1, <5>4, <5>5 DEF Safe
      <4>4. QED
        BY <3>5, <4>2, <4>3
    <3>7. Seen'
      BY <2>0, <2>1, <3>1, <3>6 DEF Seen, ByLabel, Sec, Turns
    <3>8. QED
      BY <2>0, <2>1, <2>3, <3>6, <3>7 DEF WriteOK
  <2>4. CASE at = "type"
    <3>1. /\ focus = <<focus[1], focus[2], focus[3]>> /\ focus[1] \in Sections
          /\ focus[2] \in DOMAIN rows[focus[1]] /\ focus[3] \in {"name", "date"}
          /\ Safe(focus[1], focus[2], focus[3])
      BY <2>4 DEF WriteOK
    <3>2. CASE UNCHANGED focus
      <4>1. PICK x, y, g : x = focus[1] /\ y = focus[2] /\ g = focus[3]
        OBVIOUS
      <4>2. Safe(x, y, g)' /\ y \in DOMAIN rows'[x]
        BY <2>2, <3>1, <4>1
      <4>3. QED
        BY <2>0, <2>1, <2>4, <3>1, <3>2, <4>1, <4>2 DEF WriteOK, Safe
    <3>3. CASE Edit /\ ~UNCHANGED focus
      <4>1. PICK a \in Open(ToSet(site.order)), f \in ToSet(Fields) :
              focus' = <<a.sec, a.row, f>> /\ <<a.sec, a.row, f>> \in touched'
        BY <2>4, <3>3 DEF Edit, Touch
      <4>2. a.sec \in Sections /\ a.row \in DOMAIN rows[a.sec] /\ f \in {"name", "date"}
        <5>1. ToSet(site.order) \in SUBSET Sections /\ rows \in [Sections -> Seq(RowT)]
          BY Settings, Places DEF PlaceOK, RowsOK
        <5>2. a \in OpenOf(rows, screen, ToSet(site.order))
          BY <4>1 DEF Open, OpenOf
        <5>3. a.sec \in Sections /\ a.row \in 1..Len(rows[a.sec])
          BY <5>1, <5>2, OpenIs
        <5>4. QED
          BY <4>1, <5>3, FieldsAre, RowsAre
      <4>3. a.row \in DOMAIN rows'[a.sec]
        BY <2>2, <4>2
      <4>4. QED
        BY <2>0, <2>1, <2>4, <4>1, <4>2, <4>3 DEF WriteOK, Safe
    <3>4. QED
      BY <2>2, <3>2, <3>3
  <2>5. QED
    BY <1>4, <2>3, <2>4 DEF WriteOK
<1>5. QED
  BY <1>1, <1>2, <1>3, <1>4, Between, Resting

\* Whatever the page shows late, its parser fills or the user types meanwhile, no
\* row goes away or moves, and no value that was there when the filler looked is
\* replaced by one of the resume, save for what Workday chooses from a list.
THEOREM NothingIsTaken == Spec => NonDestructive
<1>1. Spec => [](PlaceOK /\ RowsOK /\ WriteOK)
  <2>1. PlaceOK /\ RowsOK /\ WriteOK /\ [Next]_vars => (PlaceOK /\ RowsOK /\ WriteOK)'
    BY PlaceStep, RowsStep, WriteStep
  <2>2. QED
    BY PlaceInit, RowsInit, WriteInit, <2>1, PTL DEF Spec
<1>2. PlaceOK /\ RowsOK /\ WriteOK /\ [Next]_vars =>
        [\A s \in Sections : \A k \in DOMAIN rows[s] :
           /\ k \in DOMAIN rows'[s]
           /\ \A f \in ToSet(Fields) :
                rows[s][k][f] \notin Blank /\ rows'[s][k][f] # rows[s][k][f]
                => \/ rows'[s][k][f] = "human" \/ <<s, k, f>> \in touched
                   \/ (Choice /\ Seen /\ <<s, k, f>> = <<Target.sec, Target.row, Field>>)]_vars
  BY RowsStep, FieldsAre DEF Kept
<1>3. QED
  BY <1>1, <1>2, PTL DEF Spec, NonDestructive

-----------------------------------------------------------------------------
(* No more rows than entries                                               *)

LEMMA AskedIs ==
  ASSUME kind \in {"generic", "workday"}
  PROVE  /\ IsFiniteSet(Asked)
         /\ \A b \in Asked : b = <<b[1], b[2]>> /\ b[1] \in Nat /\ b[2] \in Nat
         /\ \A k \in 1..Len(Turns) : \A e \in 1..Len(Resume[Turns[k]]) : <<k, e>> \in Asked
<1> DEFINE Of(k) == {k} \X DOMAIN Resume[Turns[k]]
           A(k) == IF k \in 1..Len(Turns) THEN Of(k) ELSE {}
<1>1. DOMAIN Turns = 1..Len(Turns) /\ Len(Turns) \in {2, 3}
  <2>1. CASE kind = "generic"
    BY <2>1 DEF Turns
  <2>2. CASE kind # "generic"
    BY <2>2 DEF Turns
  <2>3. QED
    BY <2>1, <2>2
<1>2. ASSUME NEW k \in 1..Len(Turns)
      PROVE  DOMAIN Resume[Turns[k]] = 1..Len(Resume[Turns[k]]) /\ Len(Resume[Turns[k]]) \in Nat
  <2>1. Resume[Turns[k]] \in Seq(Entries)
    BY TurnsAre, Settings
  <2>2. QED
    BY <2>1, LenProperties
<1>3. ASSUME NEW k PROVE IsFiniteSet(A(k))
  <2>1. CASE k \in 1..Len(Turns)
    <3>1. IsFiniteSet({k}) /\ IsFiniteSet(DOMAIN Resume[Turns[k]])
      <4>1. IsFiniteSet({k})
        BY FS_Singleton
      <4>2. DOMAIN Resume[Turns[k]] = 1..Len(Resume[Turns[k]]) /\ Len(Resume[Turns[k]]) \in Int
        BY <1>2, <2>1
      <4>3. IsFiniteSet(1..Len(Resume[Turns[k]]))
        BY <4>2, FS_Interval
      <4>4. QED
        BY <4>1, <4>2, <4>3
    <3>2. IsFiniteSet({k} \X DOMAIN Resume[Turns[k]])
      BY <3>1, FS_Product
    <3>3. QED
      BY <2>1, <3>2
  <2>2. CASE k \notin 1..Len(Turns)
    BY <2>2, FS_EmptySet
  <2>3. QED
    BY <2>1, <2>2
<1>4. Asked = UNION {Of(k) : k \in 1..Len(Turns)}
  BY <1>1 DEF Asked
<1>5. ASSUME NEW b \in Asked
      PROVE  \E k \in 1..Len(Turns) : b \in Of(k) /\ b = <<b[1], b[2]>> /\ b[1] \in Nat /\ b[2] \in Nat
  <2>1. PICK k \in 1..Len(Turns) : b \in Of(k)
    BY <1>4, <1>5
  <2>2. k \in Nat /\ \A e \in DOMAIN Resume[Turns[k]] : e \in Nat
    BY <1>1, <1>2
  <2>3. QED
    BY <2>1, <2>2
<1>6. IsFiniteSet(Asked)
  <2>1. IsFiniteSet(A(1) \cup A(2) \cup A(3))
    BY <1>3, FS_Union
  <2>2. \A k \in 1..Len(Turns) : Of(k) \subseteq A(1) \cup A(2) \cup A(3)
    BY <1>1
  <2>3. Asked \subseteq A(1) \cup A(2) \cup A(3)
    BY <1>5, <2>2
  <2> HIDE DEF A
  <2>4. QED
    BY <2>1, <2>3, FS_Subset
<1>7. ASSUME NEW k \in 1..Len(Turns), NEW e \in 1..Len(Resume[Turns[k]]) PROVE <<k, e>> \in Asked
  <2>1. <<k, e>> \in Of(k)
    BY <1>2
  <2>2. QED
    BY <1>4, <2>1
<1>8. QED
  BY <1>5, <1>6, <1>7

\* Going on in the form takes no entry back.
LEMMA BegunGrows ==
  ASSUME PlaceOK, UNCHANGED kind, turn' \in Nat, ent' \in Nat,
         \/ turn' > turn
         \/ turn' = turn /\ ent' > ent
         \/ turn' = turn /\ ent' = ent /\ (pc \in {"fields", "save"} => pc' \in {"fields", "save"})
  PROVE  /\ Begun \subseteq Begun' /\ IsFiniteSet(Begun') /\ Cardinality(Begun) <= Cardinality(Begun')
         /\ IsFiniteSet(Begun) /\ Cardinality(Begun) \in Nat /\ Cardinality(Begun') \in Nat
<1>1. Asked' = Asked /\ turn \in Nat /\ ent \in Nat /\ kind \in {"generic", "workday"}
  BY DEF Asked, Turns, PlaceOK
<1>2. Begun \subseteq Asked /\ Begun' \subseteq Asked
  BY <1>1 DEF Begun
<1>3. Begun \subseteq Begun'
  <2>1. ASSUME NEW b \in Begun PROVE b \in Begun'
    <3>1. b \in Asked /\ b = <<b[1], b[2]>> /\ b[1] \in Nat /\ b[2] \in Nat
      BY <1>1, AskedIs DEF Begun
    <3>2. \/ b[1] < turn
          \/ b[1] = turn /\ b[2] < ent
          \/ b[1] = turn /\ b[2] = ent /\ pc \in {"fields", "save"}
      BY <3>1 DEF Begun
    <3>3. \/ b[1] < turn'
          \/ b[1] = turn' /\ b[2] < ent'
          \/ b[1] = turn' /\ b[2] = ent' /\ pc' \in {"fields", "save"}
      BY <1>1, <3>1, <3>2
    <3>4. QED
      BY <1>1, <3>1, <3>3 DEF Begun
  <2>2. QED
    BY <2>1
<1>4. QED
  BY <1>1, <1>2, <1>3, AskedIs, FS_Subset, FS_CardinalityType

CountOK ==
  /\ added \in Nat /\ left \in [late : 0..MaxLate, fails : 0..MaxFails, edits : 0..MaxEdits]
  /\ RowsAreBounded

LEMMA CountInit == Init => CountOK
<1> SUFFICES ASSUME Init PROVE CountOK
  OBVIOUS
<1>1. added = 0 /\ left = [late |-> MaxLate, fails |-> MaxFails, edits |-> MaxEdits]
  BY DEF Init
<1>2. IsFiniteSet(Begun) /\ Cardinality(Begun) \in Nat
  <2>1. Begun \subseteq Asked /\ kind \in {"generic", "workday"}
    BY Settings DEF Begun, Init
  <2>2. QED
    BY <2>1, AskedIs, FS_Subset, FS_CardinalityType
<1>3. left \in [late : 0..MaxLate, fails : 0..MaxFails, edits : 0..MaxEdits]
  BY <1>1, Settings
<1>4. QED
  BY <1>1, <1>2, <1>3, Settings DEF CountOK, RowsAreBounded

\* Where a step leaves the filler.
GoesForth ==
  /\ UNCHANGED kind /\ turn' \in Nat /\ ent' \in Nat
  /\ \/ turn' > turn
     \/ turn' = turn /\ ent' > ent
     \/ turn' = turn /\ ent' = ent /\ (pc \in {"fields", "save"} => pc' \in {"fields", "save"})

LEMMA CountKeeps ==
  ASSUME PlaceOK, CountOK, GoesForth, added' = added,
         left' \in [late : 0..MaxLate, fails : 0..MaxFails, edits : 0..MaxEdits],
         left'.late = left.late
  PROVE  CountOK'
<1>1. Cardinality(Begun) <= Cardinality(Begun') /\ Cardinality(Begun) \in Nat
      /\ Cardinality(Begun') \in Nat
  BY BegunGrows DEF GoesForth
<1>2. QED
  BY <1>1, Settings DEF CountOK, RowsAreBounded

LEMMA CountStep ==
  ASSUME PlaceOK, PlaceOK', CountOK, [Next]_vars
  PROVE  CountOK'
<1> DEFINE LeftT == [late : 0..MaxLate, fails : 0..MaxFails, edits : 0..MaxEdits]
<1>0. turn \in Nat /\ ent \in Nat \ {0} /\ turn' \in Nat /\ ent' \in Nat \ {0} /\ left \in LeftT
      /\ MaxLate \in Nat /\ MaxFails \in Nat /\ MaxEdits \in Nat
  BY Settings DEF PlaceOK, CountOK
<1>1. ASSUME UNCHANGED <<kind, added, left, turn, ent>>,
             pc \in {"fields", "save"} => pc' \in {"fields", "save"}
      PROVE  CountOK'
  BY <1>0, <1>1, CountKeeps DEF GoesForth
<1>2. CASE UNCHANGED vars
  BY <1>1, <1>2 DEF vars, control, notes
<1>3. CASE Render \/ Parse
  BY <1>1, <1>3 DEF Render, Parse, control, notes
<1>4. CASE Edit
  <2>1. UNCHANGED <<kind, added, turn, ent, pc>> /\ left' \in LeftT /\ left'.late = left.late
    BY <1>0, <1>4 DEF Edit, control, notes
  <2>2. QED
    BY <1>0, <2>1, CountKeeps DEF GoesForth
<1>5. CASE FindSection \/ NoAdd \/ SectionEnds \/ EntryEnds \/ EntryEndsWorkday \/ ClickSave
  <2>1. UNCHANGED <<kind, added, left>>
    BY <1>5 DEF FindSection, NoAdd, SectionEnds, EntryEnds, EntryEndsWorkday, ClickSave, notes
  <2>2. \/ NextSection
        \/ NextEntry
        \/ UNCHANGED <<turn, ent>> /\ (pc \in {"fields", "save"} => pc' \in {"fields", "save"})
    BY <1>5 DEF FindSection, NoAdd, SectionEnds, EntryEnds, EntryEndsWorkday, ClickSave,
       StartEntry
  <2>3. GoesForth
    BY <1>0, <2>1, <2>2 DEF GoesForth, NextSection, NextEntry
  <2>4. QED
    BY <1>0, <2>1, <2>3, CountKeeps
<1>7. CASE FillField
  <2>1. UNCHANGED <<kind, added, turn, ent, pc>> /\ left' \in LeftT /\ left'.late = left.late
    BY <1>0, <1>7, FieldIs
  <2>2. QED
    BY <1>0, <2>1, CountKeeps DEF GoesForth
<1>8. CASE ClickAdd
  <2>1. /\ pc = "add" /\ ent <= Len(Resume[Sec]) /\ added' = added + 1 /\ pc' = "fields"
        /\ UNCHANGED <<kind, left, turn, ent>>
    BY <1>8 DEF ClickAdd, Added, StartEntry
  <2>2. GoesForth
    BY <1>0, <2>1 DEF GoesForth
  <2>3. <<turn, ent>> \notin Begun
    BY <1>0, <2>1 DEF Begun
  <2>4. <<turn, ent>> \in Asked
    <3>1. turn \in 1..Len(Turns) /\ Len(Resume[Sec]) \in Nat
      BY <2>1, InPlace DEF InSection
    <3>2. ent \in 1..Len(Resume[Turns[turn]])
      BY <1>0, <2>1, <3>1 DEF Sec
    <3>3. QED
      BY <3>1, <3>2, AskedIs DEF PlaceOK
  <2>5. <<turn, ent>> \in Begun'
    <3>1. Asked' = Asked
      BY <2>1 DEF Asked, Turns
    <3>2. QED
      BY <2>1, <2>4, <3>1 DEF Begun
  <2>6. /\ Begun \subseteq Begun' /\ IsFiniteSet(Begun') /\ IsFiniteSet(Begun)
        /\ Cardinality(Begun) \in Nat /\ Cardinality(Begun') \in Nat
    BY <2>2, BegunGrows DEF GoesForth
  <2>7. Cardinality(Begun) + 1 <= Cardinality(Begun')
    <3>1. Cardinality(Begun \cup {<<turn, ent>>}) = Cardinality(Begun) + 1
      BY <2>3, <2>6, FS_AddElement
    <3>2. Begun \cup {<<turn, ent>>} \subseteq Begun'
      BY <2>5, <2>6
    <3>3. Cardinality(Begun \cup {<<turn, ent>>}) <= Cardinality(Begun')
      BY <2>6, <3>2, FS_Subset
    <3>4. QED
      BY <3>1, <3>3
  <2>8. QED
    BY <1>0, <2>1, <2>6, <2>7 DEF CountOK, RowsAreBounded
<1>9. CASE ClickAddLate
  <2>1. /\ added' = added + 1 /\ left.late > 0 /\ left' = [left EXCEPT !.late = @ - 1]
        /\ UNCHANGED <<kind, turn, ent, pc>>
    BY <1>9 DEF ClickAddLate, Added, control
  <2>2. GoesForth
    BY <1>0, <2>1 DEF GoesForth
  <2>3. Cardinality(Begun) <= Cardinality(Begun') /\ Cardinality(Begun) \in Nat
        /\ Cardinality(Begun') \in Nat
    BY <2>2, BegunGrows DEF GoesForth
  <2>4. left' \in LeftT /\ left'.late = left.late - 1
    BY <1>0, <2>1
  <2>5. QED
    BY <1>0, <2>1, <2>3, <2>4 DEF CountOK, RowsAreBounded
<1>10. CASE Workday
  <2>1. UNCHANGED <<kind, added, left, turn, ent>>
    BY <1>10 DEF Workday, Apply, NoDialog, Autofill, NoAutofill, Settled, Manually, Upload,
       Step, Submit,
                 dialogRest, notes
  <2>2. pc \notin {"fields", "save"}
    BY <1>10 DEF Workday, Apply, NoDialog, Autofill, NoAutofill, Settled, Manually, Upload,
       Step, Submit
  <2>3. QED
    BY <1>1, <2>1, <2>2
<1>11. QED
  BY <1>2, <1>3, <1>4, <1>5, <1>7, <1>8, <1>9, <1>10, Zenon
     DEF Next, Program, Fill, Environment

\* However the sections end and whatever Save buttons are called, there are never
\* more rows added than entries begun and late clicks.
THEOREM OneRowAnEntry == Spec => []RowsAreBounded
<1>1. CountOK => RowsAreBounded
  BY DEF CountOK
<1>2. PlaceOK /\ CountOK /\ [Next]_vars => PlaceOK' /\ CountOK'
  BY PlaceStep, CountStep
<1>3. QED
  BY PlaceInit, CountInit, <1>1, <1>2, PTL DEF Spec

-----------------------------------------------------------------------------
(* Rows of one piece                                                       *)

EntriesIn(r)   == {r.name, r.date} \cap Entries
LastOpen(s, k) == k \in DOMAIN rows[s] /\ rows[s][k].open
                  /\ \A j \in DOMAIN rows[s] : rows[s][j].open => j <= k
Later(s)       == \A k \in 1..Len(Turns) : Turns[k] = s => turn < k
NotBegun(s)    == Later(s) \/ (Sec = s /\ ent = 1 /\ pc \in {"find", "add"})

\* The rows that the user did not take the keyboard to.
Free(s) == {k \in DOMAIN rows[s] : <<s, k>> \notin crossed}

\* Such a row holds one entry at most, before its section's turn none; and the last
\* one open none but the entry in hand.
PieceOK(s) ==
  /\ \A k \in Free(s) : \E e \in Entries \cup {"empty"} : EntriesIn(rows[s][k]) \subseteq {e}
  /\ NotBegun(s) => \A k \in Free(s) : EntriesIn(rows[s][k]) = {}
  /\ pc = "fields" /\ Sec = s =>
       \A k \in Free(s) : LastOpen(s, k) => EntriesIn(rows[s][k]) \subseteq {Entry}

\* The keyboard is at the last row open, unless the user took it elsewhere.
AimOK ==
  kind = "generic" /\ ~site.late /\ ~site.shared /\ at = "type" =>
    <<focus[1], focus[2]>> \in crossed \/ (focus[1] = Sec /\ LastOpen(Sec, focus[2]))

\* The generic filler: nothing comes late, and the marks are those of the sections
\* that had their turn.
GenericOK ==
  kind = "generic" =>
    /\ pc \in InSection \cup {"done"} /\ file = "none"
    /\ ~site.late => \A s \in Sections : coming[s] = 0
    /\ ~site.wide =>
         /\ \A m \in marks : m \in ToSet(site.order) /\ \E k \in 1..Len(Turns) : k <= turn /\ m = Turns[k]
         /\ pc \in {"add", "fields", "save"} => Sec \in marks

LEMMA GenericTurns ==
  ASSUME kind = "generic"
  PROVE  Len(Turns) = 2 /\ Turns[1] = "work" /\ Turns[2] = "school"
BY DEF Turns

\* The rows of a section that only lose entries.
LEMMA FewerEntries ==
  ASSUME NEW s, PieceOK(s), DOMAIN rows'[s] = DOMAIN rows[s], crossed \subseteq crossed',
         \A k \in Free(s)' : EntriesIn(rows'[s][k]) \subseteq EntriesIn(rows[s][k]),
         NotBegun(s)' => NotBegun(s),
         pc' = "fields" /\ Sec' = s =>
           /\ \A k \in DOMAIN rows[s] : rows'[s][k].open = rows[s][k].open
           /\ NotBegun(s) \/ (pc = "fields" /\ Sec = s /\ Entry' = Entry)
  PROVE  PieceOK(s)'
<1>0. Free(s)' \subseteq Free(s)
  BY DEF Free
<1>1. \A k \in Free(s)' : \E e \in Entries \cup {"empty"} : EntriesIn(rows'[s][k]) \subseteq {e}
  BY <1>0 DEF PieceOK
<1>2. NotBegun(s)' => \A k \in Free(s)' : EntriesIn(rows'[s][k]) = {}
  BY <1>0 DEF PieceOK
<1>3. ASSUME pc' = "fields", Sec' = s, NEW k \in Free(s)', LastOpen(s, k)'
      PROVE  EntriesIn(rows'[s][k]) \subseteq {Entry'}
  <2>1. CASE NotBegun(s)
    BY <1>0, <1>3, <2>1 DEF PieceOK
  <2>2. CASE ~NotBegun(s)
    <3>1. LastOpen(s, k)
      BY <1>3 DEF LastOpen
    <3>2. QED
      BY <1>0, <1>3, <2>2, <3>1 DEF PieceOK
  <2>3. QED
    BY <2>1, <2>2
<1>4. QED
  BY <1>1, <1>2, <1>3 DEF PieceOK

\* A new row.
LEMMA RowComes ==
  ASSUME RowsOK, NEW s \in Sections, PieceOK(s), rows'[s] = Append(rows[s], Row("empty")),
         crossed \subseteq crossed', NotBegun(s)' => NotBegun(s)
  PROVE  PieceOK(s)'
<1> DEFINE n == Len(rows[s])
<1>1. rows[s] \in Seq(RowT) /\ DOMAIN rows[s] = 1..n /\ n \in Nat /\ Row("empty") \in RowT
  BY RowsAre, RowTypes, ValuesAre
<1>2. /\ Len(rows'[s]) = n + 1 /\ DOMAIN rows'[s] = 1..n + 1 /\ rows'[s][n + 1] = Row("empty")
      /\ \A k \in 1..n : rows'[s][k] = rows[s][k]
  <2>1. /\ rows'[s] \in Seq(RowT) /\ Len(rows'[s]) = n + 1 /\ rows'[s][n + 1] = Row("empty")
        /\ \A k \in 1..n : rows'[s][k] = rows[s][k]
    BY <1>1, AppendProperties
  <2>2. QED
    BY <2>1, LenProperties
<1>3. Row("empty").open /\ EntriesIn(Row("empty")) = {}
  BY Settings DEF Row, EntriesIn
<1>4. \A k \in 1..n + 1 : k \in 1..n \/ k = n + 1
  BY <1>1
<1>5. \A k \in Free(s)' : k \in Free(s) \/ k = n + 1
  BY <1>1, <1>2, <1>4 DEF Free
<1>6. \A k \in Free(s) : rows'[s][k] = rows[s][k]
  BY <1>1, <1>2 DEF Free
<1>7. \A k \in Free(s)' : \E e \in Entries \cup {"empty"} : EntriesIn(rows'[s][k]) \subseteq {e}
  BY <1>2, <1>3, <1>5, <1>6 DEF PieceOK
<1>8. NotBegun(s)' => \A k \in Free(s)' : EntriesIn(rows'[s][k]) = {}
  BY <1>2, <1>3, <1>5, <1>6 DEF PieceOK
<1>9. \A k \in DOMAIN rows'[s] : LastOpen(s, k)' => EntriesIn(rows'[s][k]) = {}
  <2>1. n + 1 \in DOMAIN rows'[s] /\ rows'[s][n + 1].open
    BY <1>1, <1>2, <1>3
  <2>2. \A k \in DOMAIN rows'[s] : LastOpen(s, k)' => n + 1 <= k
    BY <2>1 DEF LastOpen
  <2>3. \A k \in 1..n + 1 : n + 1 <= k => k = n + 1
    BY <1>1
  <2>4. QED
    BY <1>2, <1>3, <2>2, <2>3
<1>10. QED
  BY <1>7, <1>8, <1>9 DEF PieceOK, Free

\* How the generic filler goes on.
GenericMove ==
  \/ UNCHANGED <<pc, turn, ent>>
  \/ pc \in InSection /\ turn' = turn + 1 /\ ent' = 1 /\ pc' \in {"find", "done"}
     /\ (pc' = "find" => turn < 2)
  \/ UNCHANGED <<turn, ent>> /\ pc = "find" /\ pc' = "add"
  \/ UNCHANGED <<turn, ent>> /\ pc = "add" /\ pc' = "fields"
  \/ UNCHANGED <<turn, ent>> /\ pc = "fields" /\ pc' = "save"
  \/ turn' = turn /\ ent' = ent + 1 /\ pc = "save" /\ pc' = "add"

LEMMA NoWorkday ==
  ASSUME kind = "generic", GenericOK, [Next]_vars
  PROVE  Fill \/ Render \/ Edit \/ UNCHANGED vars
<1>1. pc \in InSection \cup {"done"} /\ file = "none"
  BY DEF GenericOK
<1>2. ~Parse
  BY <1>1 DEF Parse
<1>3. ~Workday
  BY <1>1 DEF InSection, Workday, Apply, NoDialog, Autofill, NoAutofill, Settled, Manually,
     Upload, Step, Submit
<1>4. QED
  BY <1>2, <1>3, Zenon DEF Next, Program, Environment

LEMMA Moves ==
  ASSUME kind = "generic", GenericOK, [Next]_vars
  PROVE  GenericMove
<1>1. CASE Render \/ Edit \/ UNCHANGED vars
  BY <1>1 DEF Render, Edit, vars, control, GenericMove
<1>2. ASSUME NextSection, pc \in InSection PROVE GenericMove
  <2>1. Len(Turns) = 2
    BY GenericTurns
  <2>2. turn' = turn + 1 /\ ent' = 1 /\ pc' \in {"find", "done"} /\ (pc' = "find" => turn < 2)
    BY <1>2, <2>1 DEF NextSection
  <2>3. QED
    BY <1>2, <2>2 DEF GenericMove
<1>3. CASE FindSection
  <2>1. pc \in InSection
    BY <1>3 DEF FindSection, InSection
  <2>2. NextSection \/ (UNCHANGED <<turn, ent>> /\ pc = "find" /\ pc' = "add")
    BY <1>3 DEF FindSection
  <2>3. QED
    BY <1>2, <2>1, <2>2 DEF GenericMove
<1>4. CASE ClickAdd \/ NoAdd \/ SectionEnds
  <2>1. pc = "add" /\ pc \in InSection
    BY <1>4 DEF ClickAdd, NoAdd, SectionEnds, InSection
  <2>2. NextSection \/ (UNCHANGED <<turn, ent>> /\ pc' = "fields")
    BY <1>4 DEF ClickAdd, NoAdd, SectionEnds, StartEntry
  <2>3. QED
    BY <1>2, <2>1, <2>2 DEF GenericMove
<1>5. CASE ClickAddLate \/ FillField
  BY <1>5, FieldIs DEF ClickAddLate, control, GenericMove
<1>6. CASE EntryEnds
  <2>1. pc = "fields" /\ pc \in InSection
    BY <1>6 DEF EntryEnds, InSection
  <2>2. NextSection \/ (UNCHANGED <<turn, ent>> /\ pc' = "save")
    BY <1>6 DEF EntryEnds
  <2>3. QED
    BY <1>2, <2>1, <2>2 DEF GenericMove
<1>7. CASE EntryEndsWorkday
  BY <1>7 DEF EntryEndsWorkday
<1>8. CASE ClickSave
  BY <1>8 DEF ClickSave, NextEntry, GenericMove
<1>9. QED
  BY <1>1, <1>3, <1>4, <1>5, <1>6, <1>7, <1>8, NoWorkday, Zenon DEF Fill

LEMMA Settled0 == [Next]_vars => UNCHANGED <<kind, site>>
<1>1. FillField \/ Parse \/ Edit => UNCHANGED <<kind, site>>
  BY FieldIs DEF Parse, Edit
<1>2. QED
  BY <1>1, Zenon DEF Next, Program, Environment, Fill, Workday, FindSection, ClickAdd,
     ClickAddLate,
   NoAdd, SectionEnds, EntryEnds, EntryEndsWorkday, ClickSave, Apply, NoDialog, Autofill, NoAutofill,
   Settled, Manually, Upload, Step, Submit, Render, dialogRest, vars

LEMMA GenericInit == Init => GenericOK
<1> SUFFICES ASSUME Init, kind = "generic"
             PROVE  /\ pc = "find" /\ file = "none" /\ \A s \in Sections : coming[s] = 0
                    /\ marks = {}
  BY DEF GenericOK, InSection
<1>1. QED
  BY DEF Init

LEMMA GenericStep ==
  ASSUME PlaceOK, GenericOK, [Next]_vars
  PROVE  GenericOK'
<1> SUFFICES ASSUME kind = "generic" PROVE GenericOK'
  BY Settled0 DEF GenericOK
<1>0. UNCHANGED <<kind, site>> /\ Turns' = Turns /\ turn \in 1..4
  BY Settled0 DEF Turns, PlaceOK
<1>1. pc' \in InSection \cup {"done"} /\ turn' \in {turn, turn + 1}
  BY Moves DEF GenericOK, GenericMove, InSection
<1>2. file' = "none"
  BY NoWorkday, FieldIs DEF GenericOK, Fill, FindSection, ClickAdd, ClickAddLate, NoAdd,
     SectionEnds,
     EntryEnds, EntryEndsWorkday, ClickSave, Render, Edit, page, vars
<1>3. ASSUME ~site.late PROVE \A s \in Sections : coming'[s] = 0
  <2>1. \A s \in Sections : coming[s] = 0
    BY <1>3 DEF GenericOK
  <2>2. ~Render
    BY <2>1 DEF Render
  <2>3. coming' = coming
    BY <1>3, <2>2, NoWorkday, FieldIs DEF Fill, FindSection, ClickAdd, ClickAddLate, NoAdd,
       SectionEnds,
       EntryEnds, EntryEndsWorkday, ClickSave, Edit, page, vars, Added
  <2>4. QED
    BY <2>1, <2>3
<1>4. \/ marks' = marks /\ ~(pc = "find" /\ pc' = "add")
      \/ FindSection /\ pc' = "add" /\ turn' = turn /\ marks' = marks \cup {Container} /\ Sec \in ToSet(site.order)
  <2>1. CASE FindSection
    BY <2>1 DEF FindSection, NextSection
  <2>2. CASE Fill /\ ~FindSection
    BY <2>2, FieldIs DEF Fill, ClickAdd, ClickAddLate, NoAdd, SectionEnds, EntryEnds,
       EntryEndsWorkday, ClickSave, notes, control, AtField
  <2>3. CASE Render \/ Edit \/ UNCHANGED vars
    BY <2>3 DEF Render, Edit, notes, control, vars
  <2>4. QED
    BY <2>1, <2>2, <2>3, NoWorkday
<1>5. ASSUME ~site.wide
      PROVE  /\ \A m \in marks' : m \in ToSet(site.order) /\ \E k \in 1..Len(Turns) : k <= turn' /\ m = Turns[k]
             /\ pc' \in {"add", "fields", "save"} => Turns[turn'] \in marks'
  <2>1. /\ \A m \in marks : m \in ToSet(site.order) /\ \E k \in 1..Len(Turns) : k <= turn /\ m = Turns[k]
        /\ pc \in {"add", "fields", "save"} => Turns[turn] \in marks
    BY <1>5 DEF GenericOK, Sec
  <2>2. Len(Turns) \in Nat /\ \A k \in 1..Len(Turns) : k <= turn => k <= turn'
    BY <1>0, <1>1, GenericTurns
  <2>3. CASE marks' = marks /\ ~(pc = "find" /\ pc' = "add")
    <3>1. pc' \in {"add", "fields", "save"} => turn' = turn /\ pc \in {"add", "fields", "save"}
      BY <2>3, Moves DEF GenericMove
    <3>2. QED
      BY <2>1, <2>2, <2>3, <3>1
  <2>4. CASE FindSection /\ pc' = "add" /\ turn' = turn /\ marks' = marks \cup {Container}
             /\ Sec \in ToSet(site.order)
    <3>1. Container = Turns[turn] /\ Turns[turn] \in ToSet(site.order)
      BY <1>5, <2>4 DEF Container, Sec
    <3>2. turn \in 1..Len(Turns)
      BY <2>4, InPlace DEF FindSection, InSection
    <3>3. turn <= turn
      BY <1>0
    <3>4. QED
      BY <2>1, <2>4, <3>1, <3>2, <3>3
  <2>5. QED
    BY <1>4, <2>3, <2>4
<1>6. Sec' = Turns[turn']
  BY <1>0 DEF Sec
<1>7. QED
  BY <1>0, <1>1, <1>2, <1>3, <1>5, <1>6 DEF GenericOK

\* No section is begun a second time.
LEMMA NotBegunBack ==
  ASSUME kind = "generic", PlaceOK, GenericOK, [Next]_vars, NEW s, NotBegun(s)'
  PROVE  NotBegun(s)
<1>0. Turns' = Turns /\ Sec' = Turns[turn'] /\ turn \in 1..4 /\ ent \in Nat \ {0}
  BY Settled0 DEF Turns, Sec, PlaceOK
<1>1. CASE turn' = turn
  <2>1. Sec' = Sec /\ Later(s)' = Later(s)
    BY <1>0, <1>1 DEF Sec, Later
  <2>2. ent' = 1 /\ pc' \in {"find", "add"} => ent = 1 /\ pc \in {"find", "add"}
    BY <1>0, <1>1, Moves DEF GenericMove
  <2>3. QED
    BY <2>1, <2>2 DEF NotBegun
<1>2. CASE turn' # turn
  <2>1. turn' = turn + 1 /\ pc' \in {"find", "done"} /\ (pc' = "find" => turn < 2)
    BY <1>2, Moves DEF GenericMove
  <2>2. CASE Later(s)'
    <3>1. \A k \in 1..Len(Turns) : Turns[k] = s => turn + 1 < k
      BY <1>0, <2>1, <2>2 DEF Later
    <3>2. QED
      BY <1>0, <3>1, GenericTurns DEF Later, NotBegun
  <2>3. CASE Sec' = s /\ pc' = "find"
    <3>0. turn = 1
      BY <1>0, <2>1, <2>3
    <3>1. turn + 1 \in 1..Len(Turns) /\ Turns[turn + 1] = s
      BY <1>0, <2>1, <2>3, <3>0, GenericTurns
    <3>2. \A k \in 1..Len(Turns) : Turns[k] = s => k = turn + 1
      BY <3>1, TurnsAre, Zenon
    <3>3. QED
      BY <1>0, <3>2 DEF Later, NotBegun
  <2>4. QED
    BY <2>1, <2>2, <2>3 DEF NotBegun
<1>3. QED
  BY <1>1, <1>2

-----------------------------------------------------------------------------
(* The Add button of a section on its own                                  *)

\* The first section of the page among some.
LEMMA FirstIn ==
  ASSUME NEW T, T \cap ToSet(site.order) # {}, site.order \in Seq(Sections)
  PROVE  /\ First(T) \in T /\ (site.order[1] \in T => First(T) = site.order[1])
         /\ First(T) \in Sections
<1> DEFINE N == {k \in DOMAIN site.order : site.order[k] \in T}
           n == Len(site.order)
<1>1. n \in Nat /\ DOMAIN site.order = 1..n /\ \A k \in 1..n : site.order[k] \in Sections
  BY LenProperties, ElementOfSeq
<1>2. N # {} /\ N \in SUBSET (1..n) /\ n # 0
  BY <1>1 DEF ToSet
<1>3. \E x \in N : \A y \in N : x <= y
  BY <1>1, <1>2, Extremes
<1>4. Min(N) \in N /\ \A y \in N : Min(N) <= y
  BY <1>3 DEF Min
<1>5. First(T) = site.order[Min(N)]
  BY DEF First
<1>6. ASSUME site.order[1] \in T PROVE Min(N) = 1
  <2>1. 1 \in N
    BY <1>1, <1>2, <1>6
  <2>2. Min(N) \in 1..n
    BY <1>2, <1>4
  <2>3. Min(N) <= 1 /\ Min(N) \in Nat /\ 1 <= Min(N)
    BY <1>4, <2>1, <2>2
  <2>4. QED
    BY <2>3
<1>7. First(T) \in T /\ First(T) \in Sections
  BY <1>1, <1>4, <1>5
<1>8. QED
  BY <1>5, <1>6, <1>7

LEMMA OwnCandidate ==
  ASSUME PlaceOK, GenericOK, NEW s \in Sections, OnItsOwn(s), Sec = s, pc = "add", Candidates # {}
  PROVE  First(Candidates) = s
<1>1. kind = "generic" /\ ~site.wide /\ (s = "work" \/ Head(site.order) = "school")
  BY DEF OnItsOwn
<1>2. site.order \in Seq(Sections)
  BY Settings DEF PlaceOK
<1>3. /\ \A m \in marks : m \in ToSet(site.order) /\ \E k \in 1..Len(Turns) : k <= turn /\ m = Turns[k]
      /\ s \in marks
  BY <1>1 DEF GenericOK
<1>4. Len(Turns) = 2 /\ Turns[1] = "work" /\ Turns[2] = "school" /\ turn \in 1..2
  BY <1>1, GenericTurns, InPlace DEF InSection
<1>5. First(marks) = s
  <2>1. marks \cap ToSet(site.order) # {}
    BY <1>3
  <2>2. First(marks) \in marks /\ (site.order[1] \in marks => First(marks) = site.order[1])
    BY <1>2, <2>1, FirstIn
  <2>3. CASE s = "work"
    <3>1. turn = 1
      BY <1>4, <2>3 DEF Sec
    <3>2. \A m \in marks : m = "work"
      BY <1>3, <1>4, <3>1
    <3>3. QED
      BY <2>2, <2>3, <3>2
  <2>4. CASE s # "work"
    <3>1. s = "school"
      BY <1>4, <2>4 DEF Sec
    <3>2. site.order[1] = "school"
      BY <1>1, <2>4
    <3>3. QED
      BY <1>3, <2>2, <3>1, <3>2
  <2>5. QED
    BY <2>3, <2>4
<1>6. "form" \notin marks
  <2>1. ToSet(site.order) \subseteq Sections
    BY <1>2, LenProperties, ElementOfSeq DEF ToSet
  <2>2. "form" \notin Sections
    BY DEF Sections
  <2>3. QED
    BY <1>3, <2>1, <2>2
<1>7. ScopeOf(marks) = {s}
  BY <1>3, <1>5, <1>6 DEF ScopeOf
<1>8. Candidates = {s}
  BY <1>1, <1>7 DEF Candidates
<1>9. First({s}) = s
  <2>1. s \in ToSet(site.order)
    BY <1>3
  <2>2. {s} \cap ToSet(site.order) # {}
    BY <2>1
  <2>3. QED
    BY <1>2, <2>2, FirstIn
<1>10. QED
  BY <1>8, <1>9

-----------------------------------------------------------------------------
(* The inputs of a section on its own                                      *)

\* What the filler clicks is the last open row of the section in hand.
LEMMA OwnTarget ==
  ASSUME PlaceOK, RowsOK, kind = "generic", ~site.shared, pc = "fields", fld \in {1, 2}, Seen
  PROVE  Target.sec = Sec /\ LastOpen(Sec, Target.row)
<1>1. Sec \in Sections /\ site.order \in Seq(Sections) /\ rows \in [Sections -> Seq(RowT)] /\ Inputs # {}
  BY InPlace, Settings DEF PlaceOK, InSection, RowsOK, Seen
<1>2. Inputs = OpenOf(rows, screen, Reach) /\ Reach \in SUBSET Sections /\ Reach \subseteq {Sec}
  BY <1>1, InputsAre DEF Reach
<1>3. /\ Target \in Inputs /\ Target.row \in DOMAIN rows[Target.sec] /\ Target.sec = Sec
      /\ Target = [sec |-> Target.sec, row |-> Target.row]
  BY <1>1, <1>2, TargetIs
<1>4. screen = "form" /\ Sec \in Reach /\ rows[Sec][Target.row].open
  BY <1>1, <1>2, <1>3, OpenIs
<1>5. PICK m \in Nat : \A a \in Inputs :
        /\ a = [sec |-> a.sec, row |-> a.row] /\ a.sec \in ToSet(site.order) /\ a.row \in 1..m
        /\ a.row \in 1..Len(rows[a.sec])
  BY <1>1, <1>2, PlacesOf
<1>6. Target = LastOf(Inputs)
  BY DEF Target, ByLabel
<1>7. \A b \in Inputs \ {Target} : Before(b, Target)
  BY <1>1, <1>5, <1>6, Ends
<1>8. ASSUME NEW j \in DOMAIN rows[Sec], rows[Sec][j].open
      PROVE  j <= Target.row
  <2> DEFINE b == [sec |-> Sec, row |-> j]
  <2>1. b.sec = Sec /\ b.row = j /\ b = [sec |-> b.sec, row |-> b.row]
    OBVIOUS
  <2>2. j \in 1..Len(rows[Sec]) /\ j \in Nat /\ Target.row \in Nat
    BY <1>1, <1>3, <1>8, RowsAre
  <2> HIDE DEF b
  <2>3. b \in Inputs
    BY <1>1, <1>2, <1>4, <1>8, <2>1, <2>2, OpenIs
  <2>4. CASE b = Target
    BY <2>1, <2>2, <2>4
  <2>5. CASE b # Target
    <3>1. Before(b, Target)
      BY <1>7, <2>3, <2>5
    <3>2. Sec \in ToSet(site.order)
      BY <1>4 DEF Reach
    <3>3. Place(Sec) \in Int
      BY <1>1, <3>2, Places
    <3>4. QED
      BY <1>3, <2>1, <2>2, <3>1, <3>3 DEF Before
  <2>6. QED
    BY <2>4, <2>5
<1>9. LastOpen(Sec, Target.row)
  BY <1>3, <1>4, <1>8 DEF LastOpen
<1>10. QED
  BY <1>3, <1>9

\* How a row of a section on its own comes to be typed into.
LEMMA ToFields ==
  ASSUME kind = "generic", PlaceOK, GenericOK, [Next]_vars, pc' = "fields"
  PROVE  /\ Sec' = Sec /\ Entry' = Entry /\ pc \in {"add", "fields"}
         /\ pc = "add" => ClickAdd \/ (NoAdd /\ ent = 1)
<1>1. UNCHANGED <<turn, ent>> /\ pc \in {"add", "fields"}
  BY Moves DEF GenericMove
<1>2. Sec' = Sec /\ Entry' = Entry
  BY <1>1, Settled0 DEF Sec, Entry, Turns
<1>3. ASSUME pc = "add" PROVE ClickAdd \/ (NoAdd /\ ent = 1)
  <2>1. ClickAdd \/ NoAdd
    <3>1. ~(Render \/ Edit \/ ClickAddLate \/ UNCHANGED vars)
      BY <1>3 DEF Render, Edit, ClickAddLate, vars, control
    <3>2. ~(FindSection \/ FillField \/ EntryEnds \/ EntryEndsWorkday \/ ClickSave)
      BY <1>3, FieldIs DEF FindSection, EntryEnds, EntryEndsWorkday,
         ClickSave, AtField
    <3>3. ~SectionEnds
      BY GenericTurns DEF SectionEnds, NextSection
    <3>4. QED
      BY <3>1, <3>2, <3>3, NoWorkday, Zenon DEF Fill
  <2>2. ASSUME NoAdd PROVE ent = 1
    <3>1. ~(ent > 1)
      BY <2>2, GenericTurns DEF NoAdd, NextSection
    <3>2. QED
      BY <3>1 DEF PlaceOK
  <2>3. QED
    BY <2>1, <2>2
<1>4. QED
  BY <1>1, <1>2, <1>3

LEMMA PieceType ==
  ASSUME PlaceOK, RowsOK, WriteOK, GenericOK, AimOK, NEW s \in Sections, OnItsOwn(s), PieceOK(s), [Next]_vars,
         TypeIn, focus[1] = s
  PROVE  PieceOK(s)'
<1>0. kind = "generic" /\ ~site.shared /\ ~site.late
  BY DEF OnItsOwn
<1>1. /\ pc = "fields" /\ AtField /\ at = "type" /\ UNCHANGED <<kind, site, turn, ent, pc, crossed>>
      /\ rows' = SetTo(s, focus[2], focus[3], Entry)
  BY FieldIs DEF TypeIn, AtField, Put, SetTo, FillField
<1>2. PICK y, f, v : y = focus[2] /\ f = focus[3] /\ v = Entry
  OBVIOUS
<1>3. rows' = SetTo(s, y, f, v) /\ f \in {"name", "date"} /\ v \in Values /\ v \in Entries /\ y \in DOMAIN rows[s]
  BY <1>1, <1>2, FieldHas DEF WriteOK
<1>4. <<s, y>> \in crossed \/ (Sec = s /\ LastOpen(s, y))
  BY <1>0, <1>1, <1>2 DEF AimOK
<1>5. /\ RowsOK' /\ RowsStay
      /\ \A t \in Sections : \A k \in DOMAIN rows[t] : \A g \in {"name", "date"} :
           ~(t = s /\ k = y /\ g = f) => rows'[t][k][g] = rows[t][k][g]
      /\ \A t \in Sections : \A k \in DOMAIN rows[t] : rows'[t][k].open = rows[t][k].open
      /\ s \in Sections /\ y \in DOMAIN rows[s] => rows'[s][y][f] = v
  BY <1>3, SetField
<1>6. DOMAIN rows'[s] = DOMAIN rows[s]
  <2>1. DOMAIN rows = Sections
    BY DEF RowsOK
  <2>2. QED
    BY <1>3, <2>1 DEF SetTo
<1>7. Free(s)' = Free(s)
  BY <1>1, <1>6 DEF Free
<1>8. Entry' = Entry /\ Sec' = Sec /\ pc' = "fields"
  BY <1>1 DEF Entry, Sec, Turns
<1>9. NotBegun(s)' => NotBegun(s)
  BY <1>0, NotBegunBack
<1>10. \A k \in Free(s) : k # y => EntriesIn(rows'[s][k]) = EntriesIn(rows[s][k])
  BY <1>5 DEF EntriesIn, Free
<1>11. \A k \in Free(s) : LastOpen(s, k)' => LastOpen(s, k)
  BY <1>5, <1>6 DEF LastOpen, Free
<1>12. CASE y \notin Free(s)
  <2>1. \A k \in Free(s) : EntriesIn(rows'[s][k]) = EntriesIn(rows[s][k])
    BY <1>10, <1>12
  <2>2. QED
    BY <1>1, <1>7, <1>8, <1>9, <1>11, <2>1 DEF PieceOK
<1>13. CASE y \in Free(s)
  <2>1. Sec = s /\ LastOpen(s, y)
    BY <1>4, <1>13 DEF Free
  <2>2. EntriesIn(rows[s][y]) \subseteq {v}
    BY <1>1, <1>2, <1>13, <2>1 DEF PieceOK
  <2>3. EntriesIn(rows'[s][y]) \subseteq {v}
    <3>1. /\ f = "name" => rows'[s][y].date = rows[s][y].date
          /\ f = "date" => rows'[s][y].name = rows[s][y].name
      BY <1>3, <1>5
    <3>2. rows'[s][y][f] = v
      BY <1>3, <1>5
    <3>3. CASE f = "name"
      BY <2>2, <3>1, <3>2, <3>3 DEF EntriesIn
    <3>4. CASE f = "date"
      BY <2>2, <3>1, <3>2, <3>4 DEF EntriesIn
    <3>5. QED
      BY <1>3, <3>3, <3>4
  <2>4. \A k \in Free(s)' : \E e \in Entries \cup {"empty"} : EntriesIn(rows'[s][k]) \subseteq {e}
    BY <1>3, <1>7, <1>10, <2>3 DEF PieceOK
  <2>5. ~NotBegun(s)'
    <3>1. turn \in 1..Len(Turns) /\ Turns[turn] = s /\ turn \in Nat
      BY <1>1, <2>1, InPlace DEF InSection, Sec, PlaceOK
    <3>2. ~Later(s)
      BY <3>1 DEF Later
    <3>3. QED
      BY <1>1, <1>9, <3>2 DEF NotBegun
  <2>6. ASSUME NEW k \in Free(s)', LastOpen(s, k)' PROVE EntriesIn(rows'[s][k]) \subseteq {v}
    <3>1. EntriesIn(rows[s][k]) \subseteq {v}
      BY <1>1, <1>2, <1>7, <1>11, <2>1, <2>6 DEF PieceOK
    <3>2. QED
      BY <1>7, <1>10, <2>3, <2>6, <3>1
  <2>7. Entry' = v
    BY <1>2, <1>8
  <2>8. QED
    BY <2>4, <2>5, <2>6, <2>7 DEF PieceOK
<1>14. QED
  BY <1>12, <1>13

LEMMA OnlyCrossed == [Next]_vars => crossed \subseteq crossed'
<1> SUFFICES ASSUME [Next]_vars PROVE crossed \subseteq crossed'
  OBVIOUS
<1>1. CASE Edit
  BY <1>1 DEF Edit
<1>2. CASE UNCHANGED crossed
  BY <1>2
<1>3. Edit \/ UNCHANGED crossed
  BY KeysRest, FieldIs DEF keys, Parse
<1>4. QED
  BY <1>1, <1>2, <1>3

LEMMA AimInit == Init => AimOK
BY DEF Init, AimOK

LEMMA AimStep ==
  ASSUME PlaceOK, RowsOK, WriteOK, GenericOK, AimOK, [Next]_vars
  PROVE  AimOK'
<1> SUFFICES ASSUME kind = "generic", ~site.late, ~site.shared, at' = "type"
             PROVE  (<<focus[1], focus[2]>> \in crossed \/ (focus[1] = Sec /\ LastOpen(Sec, focus[2])))'
  BY Settled0 DEF AimOK
<1>0. ~Render /\ ~Parse
  BY DEF GenericOK, Render, Parse
<1>1. CASE ClickInput
  <2>1. /\ pc = "fields" /\ fld \in {1, 2} /\ Seen /\ UNCHANGED <<rows, kind, turn>>
        /\ focus' = <<Target.sec, Target.row, Field>>
    BY <1>1, FieldsAre, FieldIs DEF ClickInput, AtField, PlaceOK, FillField
  <2>2. Target.sec = Sec /\ LastOpen(Sec, Target.row)
    BY <2>1, OwnTarget
  <2>3. Sec' = Sec
    BY <2>1 DEF Sec, Turns
  <2>4. QED
    BY <2>1, <2>2, <2>3 DEF LastOpen
<1>2. CASE UNCHANGED vars
  <2>1. Sec' = Sec
    BY <1>2 DEF Sec, Turns, vars, control
  <2>2. UNCHANGED <<at, focus, crossed, rows>>
    BY <1>2 DEF vars, keys, page
  <2>3. QED
    BY <2>1, <2>2 DEF AimOK, LastOpen
<1>3. CASE Edit
  <2>1. UNCHANGED <<kind, site, turn, at>>
    BY <1>3 DEF Edit, control
  <2>2. Sec' = Sec /\ at = "type"
    BY <2>1 DEF Sec, Turns
  <2>3. PICK a, f : /\ f \in {"name", "date"} /\ rows' = SetTo(a.sec, a.row, f, "human")
                    /\ IF focus # <<a.sec, a.row, f>>
                       THEN focus' = <<a.sec, a.row, f>> /\ crossed' = crossed \cup {<<a.sec, a.row>>}
                       ELSE UNCHANGED <<focus, crossed>>
    BY <1>3, <2>2, FieldsAre DEF Edit, SetTo
  <2>4. CASE UNCHANGED <<focus, crossed>>
    <3>1. PICK x, y : x = a.sec /\ y = a.row
      OBVIOUS
    <3>2. rows' = SetTo(x, y, f, "human") /\ "human" \in Values
      BY <2>3, <3>1, ValuesAre
    <3>3. RowsStay /\ \A s \in Sections : \A k \in DOMAIN rows[s] : rows'[s][k].open = rows[s][k].open
      BY <2>3, <3>2, SetField, Zenon
    <3>4. \A s \in Sections : DOMAIN rows'[s] = DOMAIN rows[s]
      BY <3>2 DEF SetTo, RowsOK
    <3>5. Sec \in Sections
      BY <2>2, InPlace DEF WriteOK, AtField, InSection
    <3>6. QED
      BY <2>2, <2>4, <3>3, <3>4, <3>5 DEF AimOK, LastOpen
  <2>5. QED
    BY <2>3, <2>4
<1>4. FillField => ClickInput
  BY FieldIs DEF Look, FieldEnds
<1>5. at = "look" => FillField
  BY Resting
<1>6. QED
  BY <1>0, <1>1, <1>2, <1>3, <1>4, <1>5, Between

LEMMA PieceStep ==
  ASSUME PlaceOK, RowsOK, WriteOK, GenericOK, AimOK, NEW s \in Sections, OnItsOwn(s), PieceOK(s), [Next]_vars
  PROVE  PieceOK(s)'
<1>0. kind = "generic" /\ ~site.late /\ DOMAIN rows = Sections /\ crossed \subseteq crossed'
  BY OnlyCrossed DEF OnItsOwn, RowsOK
<1>1. NotBegun(s)' => NotBegun(s)
  BY <1>0, NotBegunBack
<1>2. pc' = "fields" /\ Sec' = s => Sec = s /\ Entry' = Entry /\ pc \in {"add", "fields"}
                                    /\ (pc = "add" => ClickAdd \/ (NoAdd /\ ent = 1))
  BY <1>0, ToFields
<1>3. ASSUME rows'[s] = rows[s], ~(ClickAdd /\ Sec = s) PROVE PieceOK(s)'
  <2>1. pc' = "fields" /\ Sec' = s => NotBegun(s) \/ (pc = "fields" /\ Sec = s /\ Entry' = Entry)
    BY <1>2, <1>3 DEF NotBegun
  <2>2. QED
    BY <1>0, <1>1, <1>3, <2>1, FewerEntries
<1>4. CASE ClickAdd \/ ClickAddLate
  <2> DEFINE c == First(Candidates)
  <2>1. /\ rows' = [rows EXCEPT ![c] = Append(@, Row("empty"))]
        /\ pc = "add" /\ Candidates # {}
    BY <1>0, <1>4 DEF ClickAdd, ClickAddLate, Added
  <2>2. Sec = s => c = s
    BY <2>1, OwnCandidate
  <2> HIDE DEF c
  <2>3. CASE c = s
    <3>1. rows'[s] = Append(rows[s], Row("empty"))
      BY <1>0, <2>1, <2>3
    <3>2. QED
      BY <1>0, <1>1, <3>1, RowComes
  <2>4. CASE c # s
    <3>1. rows'[s] = rows[s]
      BY <1>0, <2>1, <2>4
    <3>2. QED
      BY <1>3, <2>2, <2>4, <3>1
  <2>5. QED
    BY <2>3, <2>4
<1>5. CASE FillField
  <2>0. ~ClickAdd /\ ~FillInput /\ ~ChooseFromList
    BY <1>0, <1>5, FieldIs DEF AtField, ClickAdd, FillInput, ChooseFromList, Choice
  <2>1. CASE rows'[s] = rows[s]
    BY <1>3, <2>0, <2>1
  <2>2. CASE TypeIn /\ focus[1] = s
    BY <2>2, PieceType
  <2>3. CASE TypeIn /\ focus[1] # s
    <3>1. rows'[s] = rows[s]
      BY <1>0, <2>3 DEF TypeIn, Put
    <3>2. QED
      BY <2>1, <3>1
  <2>4. QED
    BY <1>5, <2>0, <2>1, <2>2, <2>3, FieldIs
<1>6. CASE ClickSave
  <2>1. pc' = "add"
    BY <1>6 DEF ClickSave, NextEntry
  <2>2. CASE UNCHANGED rows
    <3>1. ~ClickAdd
      BY <1>6 DEF ClickSave, ClickAdd
    <3>2. QED
      BY <1>3, <2>2, <3>1
  <2>3. CASE ~UNCHANGED rows
    <3>1. PICK x, y : rows' = [rows EXCEPT ![x][y].open = FALSE]
      BY <1>6, <2>3 DEF ClickSave
    <3>2. \A k \in DOMAIN rows[s] : \A g \in {"name", "date"} : rows'[s][k][g] = rows[s][k][g]
      BY <3>1, Closed
    <3>3. DOMAIN rows'[s] = DOMAIN rows[s]
      BY <1>0, <3>1
    <3>4. \A k \in Free(s)' : EntriesIn(rows'[s][k]) = EntriesIn(rows[s][k])
      BY <3>2, <3>3 DEF EntriesIn, Free
    <3>5. QED
      BY <1>0, <1>1, <2>1, <3>3, <3>4, FewerEntries
  <2>4. QED
    BY <2>2, <2>3
<1>7. CASE Edit
  <2>1. UNCHANGED <<kind, site, control>>
    BY <1>7 DEF Edit
  <2>2. PICK x, y, f : f \in {"name", "date"} /\ rows' = SetTo(x, y, f, "human")
    <3>1. PICK a, f : f \in {"name", "date"} /\ rows' = SetTo(a.sec, a.row, f, "human")
      BY <1>7, FieldsAre DEF Edit, SetTo
    <3>2. QED
      BY <3>1
  <2>3. /\ RowsOK' /\ RowsStay
        /\ \A t \in Sections : \A k \in DOMAIN rows[t] : \A g \in {"name", "date"} :
             ~(t = x /\ k = y /\ g = f) => rows'[t][k][g] = rows[t][k][g]
        /\ \A t \in Sections : \A k \in DOMAIN rows[t] : rows'[t][k].open = rows[t][k].open
        /\ x \in Sections /\ y \in DOMAIN rows[x] => rows'[x][y][f] = "human"
    <3>1. "human" \in Values
      BY ValuesAre
    <3>2. QED
      BY <2>2, <3>1, SetField, Zenon
  <2>4. "human" \notin Entries
    BY Settings
  <2>5. DOMAIN rows'[s] = DOMAIN rows[s]
    BY <1>0, <2>2 DEF SetTo
  <2>6. ASSUME NEW k \in Free(s)' PROVE EntriesIn(rows'[s][k]) \subseteq EntriesIn(rows[s][k])
    <3>1. k \in DOMAIN rows[s]
      BY <2>5, <2>6 DEF Free
    <3>2. /\ rows'[s][k].name = rows[s][k].name \/ rows'[s][k].name = "human"
          /\ rows'[s][k].date = rows[s][k].date \/ rows'[s][k].date = "human"
      BY <2>2, <2>3, <3>1
    <3>3. QED
      BY <2>4, <3>2 DEF EntriesIn
  <2>7. pc' = "fields" /\ Sec' = s => pc = "fields" /\ Sec = s /\ Entry' = Entry
    BY <2>1 DEF control, Sec, Entry, Turns
  <2>8. QED
    BY <1>0, <1>1, <2>3, <2>5, <2>6, <2>7, FewerEntries
<1>8. CASE UNCHANGED rows /\ ~ClickAdd
  BY <1>3, <1>8
<1>9. ~Render
  BY <1>0 DEF Render, GenericOK
<1>10. ClickAdd \/ ClickAddLate \/ FillField \/ ClickSave \/ Edit \/ UNCHANGED rows
  BY <1>0, <1>9, NoWorkday, Zenon DEF Fill, FindSection, NoAdd, SectionEnds, EntryEnds,
     EntryEndsWorkday, page, vars
<1>11. QED
  BY <1>4, <1>5, <1>6, <1>7, <1>8, <1>10

PieceInv == \A s \in Sections : OnItsOwn(s) => PieceOK(s)

LEMMA PieceInit == Init => PieceInv
<1> SUFFICES ASSUME Init, NEW s \in Sections PROVE PieceOK(s)
  BY DEF PieceInv
<1>1. /\ rows = [t \in Sections |-> [k \in DOMAIN site.given[t] |-> Row(site.given[t][k])]]
      /\ site \in Sites /\ pc # "fields"
  BY DEF Init
<1>2. ASSUME NEW k \in DOMAIN rows[s] PROVE EntriesIn(rows[s][k]) = {}
  <2>1. site.given[s] \in Seq({"empty", "none", "parsed"})
    BY <1>1, Settings
  <2>2. k \in DOMAIN site.given[s] /\ rows[s][k] = Row(site.given[s][k])
    BY <1>1, <1>2
  <2>3. site.given[s][k] \in {"empty", "none", "parsed"}
    <3>1. k \in 1..Len(site.given[s])
      BY <2>1, <2>2, LenProperties
    <3>2. QED
      BY <2>1, <3>1, ElementOfSeq
  <2>4. QED
    BY <2>2, <2>3, Settings DEF Row, EntriesIn
<1>3. \A k \in DOMAIN rows[s] : EntriesIn(rows[s][k]) \subseteq {"empty"}
  BY <1>2, Zenon
<1>4. \A k \in DOMAIN rows[s] : \E e \in Entries \cup {"empty"} : EntriesIn(rows[s][k]) \subseteq {e}
  BY <1>3
<1>5. Free(s) \subseteq DOMAIN rows[s]
  BY DEF Free
<1>6. /\ \A k \in Free(s) : \E e \in Entries \cup {"empty"} : EntriesIn(rows[s][k]) \subseteq {e}
      /\ NotBegun(s) => \A k \in Free(s) : EntriesIn(rows[s][k]) = {}
  BY <1>2, <1>4, <1>5, Zenon
<1>7. QED
  BY <1>1, <1>6 DEF PieceOK

\* Whatever fails, is closed or is typed meanwhile: no row of a section whose rows
\* are its own mixes two entries, unless the user went there while the filler typed.
THEOREM RowsOfOnePiece == Spec => []RowsAreOfOnePiece
<1> DEFINE IInv == PlaceOK /\ RowsOK /\ WriteOK /\ GenericOK /\ AimOK /\ PieceInv
<1>1. IInv => RowsAreOfOnePiece
  <2> SUFFICES ASSUME RowsOK, PieceInv, NEW s \in Sections, OnItsOwn(s), NEW k \in DOMAIN rows[s],
                      <<s, k>> \notin crossed
               PROVE  Cardinality({rows[s][k].name, rows[s][k].date} \cap Entries) <= 1
    BY DEF RowsAreOfOnePiece
  <2>1. PICK e : EntriesIn(rows[s][k]) \subseteq {e}
    BY DEF PieceInv, PieceOK, Free
  <2>2. IsFiniteSet({e}) /\ Cardinality({e}) = 1
    BY FS_Singleton
  <2>3. Cardinality(EntriesIn(rows[s][k])) <= 1
    BY <2>1, <2>2, FS_Subset
  <2>4. QED
    BY <2>3 DEF EntriesIn
<1>2. IInv /\ [Next]_vars => IInv'
  <2> SUFFICES ASSUME PlaceOK, RowsOK, WriteOK, GenericOK, AimOK, PieceInv, [Next]_vars
               PROVE  PlaceOK' /\ RowsOK' /\ WriteOK' /\ GenericOK' /\ AimOK' /\ PieceInv'
    OBVIOUS
  <2>1. \A s \in Sections : OnItsOwn(s)' = OnItsOwn(s)
    BY Settled0 DEF OnItsOwn
  <2>2. PieceInv'
    BY <2>1, PieceStep DEF PieceInv
  <2>3. QED
    BY <2>2, PlaceStep, RowsStep, WriteStep, GenericStep, AimStep
<1>3. Init => IInv
  BY PlaceInit, RowsInit, WriteInit, GenericInit, AimInit, PieceInit
<1>4. QED
  BY <1>1, <1>2, <1>3, PTL DEF Spec
=============================================================================
