----------------------------- MODULE AtsForm_proofs -----------------------------
(***************************************************************************)
(* Proofs about AtsForm, for any of the handlers, any sites and values the *)
(* form may hold, and any number of steps, late clicks, edits and          *)
(* overlays: what was filled before a pass is kept, one pass sends one     *)
(* application, the questions for the user stay open, and essays differ.   *)
(***************************************************************************)
EXTENDS AtsForm, FiniteSetTheorems, WellFoundedInduction, TLAPS

LEMMA Bounds ==
  /\ MaxMoves \in Nat \ {0} /\ MaxLate \in Nat /\ MaxEdits \in Nat /\ MaxOverlays \in Nat
  /\ Starts \subseteq [Text -> Values]
  /\ \A s \in Sites : s.shown \subseteq Text /\ s.pages \in {1, 2} /\ s.essays \in Seq(STRING)
BY AtsFormAssumption

-----------------------------------------------------------------------------
(* The handlers                                                            *)

Marks == {"none", "no", "yes"}

Proper(g) == g.next \in {<<>>, <<"next">>} /\ Len(g.parts) \in Nat
             /\ g.absent \in Marks /\ g.noFile \in Marks

LEMMA HandlerIs ==
  ASSUME NEW parts, Len(parts) \in Nat, NEW next \in {<<>>, <<"next">>},
         NEW apply, NEW submit, NEW absent \in Marks, NEW noFile \in Marks, NEW then
  PROVE  Proper(Handler(parts, absent, noFile, apply, next, then, submit))
BY DEF Proper, Handler

LEMMA Orders ==
  /\ Len(PersonalFirst) \in Nat /\ Len(OwnFirst) \in Nat /\ Len(AshbyParts) \in Nat
  /\ Len(GreenhouseParts) \in Nat /\ Len(LeverParts) \in Nat
  /\ Len(<<"personal", "upload", "auth", "eeo">>) \in Nat
  /\ Len(<<"personal", "upload", "auth", "generic">>) \in Nat
  /\ Len(<<"upload", "own", "generic">>) \in Nat
BY DEF PersonalFirst, OwnFirst, AshbyParts, GreenhouseParts, LeverParts

\* The own Next list of a handler has the Next button only.
LEMMA HandlersAre == ASSUME NEW g \in Supported PROVE Proper(g)
<1>1. Proper(ADP) /\ Proper(Avature) /\ Proper(Breezy) /\ Proper(Cornerstone)
  BY HandlerIs, Orders DEF Marks, ADP, Avature, Breezy, Cornerstone
<1>2. Proper(ICIMS) /\ Proper(Paylocity) /\ Proper(SuccessFactors) /\ Proper(UKG)
  BY HandlerIs, Orders DEF Marks, ICIMS, Paylocity, SuccessFactors, UKG
<1>3. Proper(BambooHR) /\ Proper(JazzHR) /\ Proper(Jobvite) /\ Proper(Recruitee)
  BY HandlerIs, Orders DEF Marks, BambooHR, JazzHR, Jobvite, Recruitee
<1>4. Proper(Taleo) /\ Proper(Workable) /\ Proper(SmartRecruiters) /\ Proper(Phenom)
  BY HandlerIs, Orders DEF Marks, Taleo, Workable, SmartRecruiters, Phenom
<1>5. Proper(Greenhouse) /\ Proper(Lever) /\ Proper(Ashby) /\ Proper(Generic)
  BY HandlerIs, Orders DEF Marks, Greenhouse, Lever, Ashby, Generic
<1>6. QED
  BY <1>1, <1>2, <1>3, <1>4, <1>5 DEF Supported

LEMMA OurHandler == ASSUME h \in Handlers PROVE Proper(h)
BY HandlersAre, HandlersAssumption

LEMMA LeastOf ==
  ASSUME NEW S, S \subseteq Nat, S # {}
  PROVE  Min(S) \in S
<1>1. PICK d \in S : \A k \in S : ~(<<k, d>> \in OpToRel(<, Nat))
  BY NatLessThanWellFounded, WFMin
<1>2. \A k \in S : d <= k
  <2>1. ASSUME NEW k \in S, k < d PROVE <<k, d>> \in OpToRel(<, Nat)
    <3>1. k \in Nat /\ d \in Nat
      OBVIOUS
    <3>2. QED
      BY <2>1, <3>1 DEF OpToRel
  <2>2. \A k \in S : ~(k < d)
    BY <1>1, <2>1, Zenon
  <2>3. \A k \in S : k \in Nat /\ d \in Nat
    OBVIOUS
  <2>4. \A k \in Nat : ~(k < d) /\ d \in Nat => d <= k
    OBVIOUS
  <2>5. QED
    BY <2>2, <2>3, <2>4, Zenon
<1>3. \E x \in S : \A y \in S : x <= y
  BY <1>2
<1>4. QED
  BY <1>3 DEF Min

LEMMA GreatestOf ==
  ASSUME NEW n \in Nat, NEW S, S \subseteq 1..n, S # {}
  PROVE  Max(S) \in S
<1> DEFINE T == {n - k : k \in S}
<1>0. S \subseteq Nat
  OBVIOUS
<1>1. T \subseteq Nat /\ T # {}
  OBVIOUS
<1>2. PICK d \in T : \A k \in T : ~(<<k, d>> \in OpToRel(<, Nat))
  BY <1>1, NatLessThanWellFounded, WFMin
<1>3. PICK m \in S : d = n - m
  BY <1>2
<1>4. \A k \in S : k <= m
  <2>1. ASSUME NEW k \in S, m < k PROVE FALSE
    <3>1. n - k \in T /\ n - k \in Nat /\ n - m \in Nat /\ n - k < n - m
      BY <1>1, <2>1
    <3>2. <<n - k, d>> \in OpToRel(<, Nat)
      BY <1>3, <3>1 DEF OpToRel
    <3>3. QED
      BY <1>2, <3>1, <3>2, Zenon
  <2>2. \A k \in S : k \in Nat /\ m \in Nat
    BY <1>0
  <2>3. QED
    BY <2>1, <2>2
<1>5. \E x \in S : \A y \in S : x >= y
  BY <1>4
<1>6. QED
  BY <1>5 DEF Max

\* The first selector that finds something.
LEMMA FirstAhead ==
  ASSUME item \in Nat \ {0}, Ahead # {}
  PROVE  Min(Ahead) \in Ahead /\ Min(Ahead) \in Nat /\ Min(Ahead) >= item
<1>1. Ahead \subseteq Nat /\ \A k \in Ahead : k >= item
  BY DEF Ahead
<1>2. Min(Ahead) \in Ahead
  BY <1>1, LeastOf
<1>3. QED
  BY <1>1, <1>2

-----------------------------------------------------------------------------
(* Where the pass is                                                       *)

PlaceOK ==
  /\ h \in Handlers /\ site \in Sites /\ mode \in {"rules", "prefill"}
  /\ pc \in {"apply", "fill", "again", "next", "submit", "check", "recheck", "judge", "done"}
  /\ pc \notin {"fill", "again", "done"} => mode = "rules"
  /\ pc \in {"check", "recheck"} => h = Ashby
  /\ part \in 1..Len(h.parts) + 1 /\ cur \in Nat \ {0} /\ item \in Nat \ {0}
  /\ whose \in {"own", "super"} /\ round \in 1..3 /\ moves \in 0..MaxMoves
  /\ pc \in {"apply", "fill", "again"} => moves = 0
  /\ pc = "next" => moves < MaxMoves
  /\ pass \in 1..2 /\ verdict \in {"none", "yes", "no"}

LEMMA PlaceInit == Init => PlaceOK
<1> SUFFICES ASSUME Init PROVE PlaceOK
  OBVIOUS
<1>1. Len(h.parts) \in Nat
  BY OurHandler DEF Init, Proper
<1>2. QED
  BY <1>1, Bounds DEF Init, PlaceOK

\* The steps of the fill that stay in the pass.
FillStep ==
  \/ Absent \/ Keep \/ Look \/ Type \/ TypeFails \/ TextEnds \/ NothingFailed \/ Upload
  \/ FillWorkAuthorization \/ FillCustomFields \/ FillDemographics \/ FillConsent \/ SelectLocation
  \/ FillYesNoQuestions \/ FillRadioQuestions \/ FillParagraph \/ ParagraphsEnd \/ FillRemaining

LEMMA InParts == ASSUME Part # "none" PROVE pc = "fill" /\ part <= Len(h.parts)
BY DEF Part

LEMMA FillStepIs ==
  ASSUME FillStep
  PROVE  /\ UNCHANGED <<setup, pc, clicks, verdict, pass, browser, left, early, start>>
         /\ cur' \in {cur, cur + 1, 1}
         /\ part' = part \/ (part' = part + 1 /\ part <= Len(h.parts))
<1>1. CASE Absent \/ Keep \/ Look
  BY <1>1 DEF Absent, Keep, Look, ledger
<1>2. CASE Type \/ TypeFails
  BY <1>2 DEF Type, TypeFails, ledger
<1>3. CASE TextEnds \/ NothingFailed \/ Upload
  BY <1>3, InParts DEF TextEnds, NothingFailed, Upload, PartEnds, ledger
<1>4. CASE FillWorkAuthorization \/ FillCustomFields \/ FillDemographics \/ FillConsent
           \/ SelectLocation
  <2>1. PICK p \in {"auth", "custom", "eeo", "consent", "place"},
             s \in {"auth", "eeo", "consent", "place"} : Choose(p, s)
    BY <1>4 DEF FillWorkAuthorization, FillCustomFields, FillDemographics, FillConsent,
       SelectLocation
  <2>2. QED
    BY <2>1, InParts DEF Choose, PartEnds, ledger
<1>5. CASE FillYesNoQuestions \/ FillRadioQuestions
  BY <1>5, InParts DEF FillYesNoQuestions, FillRadioQuestions, PartEnds, ledger
<1>6. CASE FillParagraph
  BY <1>6 DEF FillParagraph, ledger
<1>7. CASE ParagraphsEnd \/ FillRemaining
  BY <1>7, InParts DEF ParagraphsEnd, FillRemaining, PartEnds, ledger
<1>8. QED
  BY <1>1, <1>2, <1>3, <1>4, <1>5, <1>6, <1>7, Zenon DEF FillStep

\* What is left of a raise: the pass, or its first half, ends.
LEMMA RaiseIs ==
  ASSUME Raise, mode \in {"rules", "prefill"}
  PROVE  /\ Labels /\ typing' = FALSE
         /\ UNCHANGED <<setup, form, browser, used, results, moves, ledger, left>>
         /\ \/ mode = "rules" /\ Finish("no") /\ UNCHANGED <<part, cur>>
            \/ mode # "rules" /\ pc = "fill" /\ HalfPass
            \/ /\ mode # "rules" /\ pc # "fill" /\ cur' = Listed + 1
               /\ UNCHANGED <<pc, part, whose, item, round, verdict>>
<1>1. CASE mode = "rules"
  BY <1>1 DEF Raise
<1>2. CASE mode # "rules" /\ pc = "fill"
  BY <1>2 DEF Raise
<1>3. CASE mode # "rules" /\ pc # "fill"
  BY <1>3 DEF Raise
<1>4. QED
  BY <1>1, <1>2, <1>3

\* A list of selectors ends.
LEMMA ListEndIs ==
  ASSUME PlaceOK, Listing \/ pc \in {"apply", "next", "submit"}, Succeeds \/ Fails,
         UNCHANGED <<setup, part, cur, pass>>
  PROVE  PlaceOK'
<1>1. h' = h /\ Len(h.parts)' = Len(h.parts) /\ MaxMoves \in Nat \ {0}
  BY Bounds DEF setup
<1>2. CASE pc = "apply" /\ Enter("fill") /\ UNCHANGED <<moves, verdict>>
  BY <1>1, <1>2 DEF PlaceOK, Enter, setup
<1>3. CASE pc = "next" /\ moves' = moves + 1 /\ UNCHANGED verdict
           /\ Enter(IF moves + 1 < MaxMoves THEN "next" ELSE "submit")
  BY <1>1, <1>3 DEF PlaceOK, Enter, setup
<1>4. CASE pc = "submit" /\ Enter("judge") /\ UNCHANGED <<moves, verdict>>
  BY <1>1, <1>4 DEF PlaceOK, Enter, setup
<1>5. CASE pc = "next" /\ Enter("submit") /\ UNCHANGED <<moves, verdict>>
  BY <1>1, <1>5 DEF PlaceOK, Enter, setup
<1>6. CASE pc \in {"apply", "submit"} /\ Finish("no") /\ UNCHANGED moves
  BY <1>1, <1>6 DEF PlaceOK, Enter, Finish, setup
<1>7. QED
  BY <1>2, <1>3, <1>4, <1>5, <1>6 DEF Succeeds, Fails

LEMMA ListedIs == Listed \in {2, 3} /\ Len(TextSeq) = 3
BY DEF Listed, TextSeq

LEMMA PlaceStep ==
  ASSUME PlaceOK, [Next]_vars
  PROVE  PlaceOK'
<1> DEFINE place == <<setup, pc, part, cur, clicks, pass, verdict>>
<1>0. MaxMoves \in Nat \ {0} /\ Len(h.parts) \in Nat
  BY Bounds, OurHandler DEF PlaceOK, Proper
<1>1. UNCHANGED place => PlaceOK'
  BY DEF PlaceOK, setup, clicks
<1>2. CASE UNCHANGED vars
  BY <1>1, <1>2 DEF vars, filling, ledger
<1>3. CASE Environment
  BY <1>1, <1>3 DEF Environment, Land, Parse, Edit, Cover, filling, ledger
<1>4. CASE FillStep
  BY <1>0, <1>4, FillStepIs DEF PlaceOK, setup, clicks
<1>5. CASE Raise
  <2>1. UNCHANGED <<setup, moves, pass>> /\ Listed + 1 \in {3, 4}
    BY <1>5, ListedIs DEF Raise, ledger
  <2>2. CASE Finish("no") /\ UNCHANGED <<part, cur>>
    BY <1>0, <2>1, <2>2 DEF PlaceOK, Finish, Enter, setup
  <2>3. CASE pc = "fill" /\ HalfPass
    BY <1>0, <2>1, <2>3 DEF PlaceOK, HalfPass, setup
  <2>4. CASE cur' \in {3, 4} /\ UNCHANGED <<pc, part, whose, item, round, verdict>>
    BY <1>0, <2>1, <2>4 DEF PlaceOK, setup
  <2>5. QED
    BY <1>5, <2>1, <2>2, <2>3, <2>4, RaiseIs DEF PlaceOK
<1>6. CASE FillEnds
  BY <1>0, <1>6 DEF PlaceOK, FillEnds, Enter, HalfPass, setup, ledger
<1>7. CASE PrefillEnds
  BY <1>0, <1>7 DEF PlaceOK, PrefillEnds, setup, clicks, ledger
<1>8. CASE Hit \/ GiveUp
  <2>1. (Succeeds \/ Fails) /\ Listing /\ UNCHANGED <<setup, part, cur, pass>>
    BY <1>8 DEF Hit, GiveUp, filling, ledger
  <2>2. QED
    BY <2>1, ListEndIs
<1>9. CASE WithoutList
  <2>1. (Succeeds \/ Fails) /\ pc \in {"apply", "next"} /\ UNCHANGED <<setup, part, cur, pass>>
    BY <1>9 DEF WithoutList, filling, ledger
  <2>2. QED
    BY <2>1, ListEndIs
<1>10. CASE HitLate \/ Intercepted \/ AshbyCovered
  <2>1. Min(Ahead) + 1 \in Nat \ {0}
    BY <1>10, FirstAhead DEF HitLate, Intercepted, AshbyCovered, PlaceOK
  <2>2. UNCHANGED <<setup, pc, part, cur, whose, round, moves, pass, verdict>>
        /\ item' \in {item, Min(Ahead) + 1}
    BY <1>10 DEF HitLate, Intercepted, AshbyCovered, filling, ledger
  <2>3. QED
    BY <1>0, <2>1, <2>2 DEF PlaceOK, setup
<1>11. CASE ToSuper \/ Round
  <2>1. round' \in 1..3 /\ whose' \in {"own", "super"} /\ item' = 1
        /\ UNCHANGED <<setup, pc, part, cur, moves, pass, verdict>>
    BY <1>11 DEF ToSuper, Round, Rounds, PlaceOK, filling, ledger
  <2>2. QED
    BY <1>0, <2>1 DEF PlaceOK, setup
<1>12. CASE Judge
  BY <1>0, <1>12 DEF PlaceOK, Judge, Finish, Enter, setup, filling, ledger
<1>13. CASE AshbyClick
  <2>1. Min(Ahead) + 1 \in Nat \ {0} /\ Min(Ahead) \in Nat \ {0}
    BY <1>13, FirstAhead DEF AshbyClick, PlaceOK
  <2>2. pc = "submit" /\ h = Ashby /\ pc' \in {"check", "submit"}
        /\ item' \in {Min(Ahead), Min(Ahead) + 1}
        /\ UNCHANGED <<setup, part, cur, whose, round, moves, pass, verdict>>
    BY <1>13 DEF AshbyClick, AshbySubmits, filling
  <2>3. QED
    BY <1>0, <2>1, <2>2 DEF PlaceOK, setup
<1>14. CASE Check
  BY <1>0, <1>14 DEF PlaceOK, Check, setup, filling, clicks, ledger
<1>15. CASE Recheck
  <2>1. pc = "recheck" /\ pc' \in {"judge", "submit"} /\ item' \in {item, item + 1}
        /\ UNCHANGED <<setup, part, cur, whose, round, moves, pass, verdict>>
    BY <1>15 DEF Recheck, filling
  <2>2. QED
    BY <1>0, <2>1 DEF PlaceOK, setup
<1>16. CASE AshbyEnds
  BY <1>0, <1>16 DEF PlaceOK, AshbyEnds, AshbySubmits, Finish, Enter, setup, filling, ledger
<1>17. QED
  BY <1>2, <1>3, <1>4, <1>5, <1>6, <1>7, <1>8, <1>9, <1>10, <1>11, <1>12, <1>13, <1>14, <1>15,
     <1>16, Zenon DEF Next, Program, Navigation, Fill, FillStep

-----------------------------------------------------------------------------
(* The text fields                                                         *)

Chosen == typing => AtField /\ Found /\ start[Field] = "empty"
TextOK == /\ val \in [Text -> Values] /\ start \in [Text -> Values] /\ typing \in BOOLEAN
          /\ \A f \in Text : start[f] # "empty" => val[f] # "empty"
          /\ FilledBeforeThePassIsKept

\* While a field is typed into, the pass is at it.
LEMMA AtFieldIs ==
  ASSUME AtField
  PROVE  /\ pc \in {"fill", "again"} /\ Part \in {"own", "personal", "generic", "none"}
         /\ Part = "none" => pc = "again"
         /\ cur \in Nat \ {0} => Field \in Text
<1>1. TextSeq[1] \in Text /\ TextSeq[2] \in Text /\ TextSeq[3] \in Text
  BY DEF TextSeq, Text
<1>2. cur \in Nat => cur <= 3
  BY ListedIs DEF AtField
<1>3. cur \in Nat \ {0} => cur = 1 \/ cur = 2 \/ cur = 3
  BY <1>2
<1>4. Part = "own" \/ Part = "personal" \/ Part = "generic" \/ pc = "again"
  BY DEF AtField, ByOwn, ByConfidence
<1>5. QED
  BY <1>1, <1>2, <1>3, <1>4 DEF Part, Field

LEMMA SameField ==
  ASSUME UNCHANGED <<h, site, pc, part, cur, results>>
  PROVE  AtField' = AtField /\ Found' = Found /\ Field' = Field
BY DEF AtField, Found, Field, ByOwn, ByConfidence, Part, Confident, Listed

\* Elsewhere nothing is typed.
LEMMA NotTyping ==
  ASSUME Chosen, cur \in Nat \ {0},
         \/ pc \notin {"fill", "again"} \/ cur > Listed
         \/ Part \notin {"own", "personal", "generic", "none"}
         \/ ~Found \/ ~AtField
  PROVE  ~typing
<1> SUFFICES ASSUME typing PROVE FALSE
  OBVIOUS
<1>1. AtField /\ Found
  BY DEF Chosen
<1>2. ~(cur > Listed)
  BY <1>1, ListedIs DEF AtField
<1>3. QED
  BY <1>1, <1>2, AtFieldIs

LEMMA ChosenStep ==
  ASSUME PlaceOK, TextOK, Chosen, [Next]_vars
  PROVE  Chosen'
<1>0. cur \in Nat \ {0}
  BY DEF PlaceOK
<1>1. ASSUME UNCHANGED <<h, site, pc, part, cur, results, typing, start>> PROVE Chosen'
  BY <1>1, SameField DEF Chosen
<1>2. ASSUME UNCHANGED typing, ~typing PROVE Chosen'
  BY <1>2 DEF Chosen
<1>3. CASE UNCHANGED vars \/ Environment
  <2>1. UNCHANGED <<h, site, pc, part, cur, results, typing, start>>
    BY <1>3 DEF vars, Environment, Land, Parse, Edit, Cover, setup, filling, ledger
  <2>2. QED
    BY <1>1, <2>1
<1>4. CASE Navigation
  <2>1. pc \notin {"fill", "again"}
    BY <1>4 DEF Navigation, Hit, HitLate, Intercepted, ToSuper, Round, GiveUp, WithoutList,
       Judge,
               AshbyClick, AshbyCovered, Check, Recheck, AshbyEnds, AshbySubmits, Listing
  <2>2. UNCHANGED typing
    BY <1>4 DEF Navigation, Hit, HitLate, Intercepted, ToSuper, Round, GiveUp, WithoutList,
       Judge,
               AshbyClick, AshbyCovered, Check, Recheck, AshbyEnds, filling
  <2>3. QED
    BY <1>0, <1>2, <2>1, <2>2, NotTyping
<1>5. CASE Absent \/ Keep
  <2>1. ~typing
    BY <1>0, <1>5, NotTyping DEF Absent, Keep
  <2>2. UNCHANGED typing
    BY <1>5, <2>1 DEF Absent, Keep
  <2>3. QED
    BY <1>2, <2>1, <2>2
<1>6. CASE Look
  <2>1. UNCHANGED <<h, site, pc, part, cur, results, start>> /\ AtField /\ Found
        /\ val[Field] = "empty"
    BY <1>6 DEF Look, setup, ledger
  <2>2. start[Field] = "empty"
    BY <1>0, <2>1, AtFieldIs DEF TextOK
  <2>3. QED
    BY <2>1, <2>2, SameField DEF Chosen
<1>7. CASE Type \/ TypeFails \/ Raise
  BY <1>7 DEF Type, TypeFails, Raise, Chosen
<1>8. CASE TextEnds \/ NothingFailed \/ Upload
  <2>1. cur > Listed \/ Part = "upload" \/ (Part = "generic" /\ cur = 1 /\ "no" \notin Range(results))
    BY <1>8 DEF TextEnds, NothingFailed, Upload
  <2>2. Part = "generic" /\ cur = 1 /\ "no" \notin Range(results) => ~AtField
    BY DEF AtField, ByOwn, ByConfidence, Part
  <2>3. ~typing
    BY <1>0, <2>1, <2>2, NotTyping
  <2>4. UNCHANGED typing
    BY <1>8 DEF TextEnds, NothingFailed, Upload
  <2>5. QED
    BY <1>2, <2>3, <2>4
<1>9. CASE FillWorkAuthorization \/ FillCustomFields \/ FillDemographics \/ FillConsent
           \/ SelectLocation
  <2>1. PICK p \in {"auth", "custom", "eeo", "consent", "place"},
             s \in {"auth", "eeo", "consent", "place"} : Choose(p, s)
    BY <1>9 DEF FillWorkAuthorization, FillCustomFields, FillDemographics, FillConsent,
       SelectLocation
  <2>2. Part = p /\ UNCHANGED typing
    BY <2>1 DEF Choose
  <2>3. QED
    BY <1>0, <1>2, <2>1, <2>2, NotTyping
<1>10. CASE FillYesNoQuestions \/ FillRadioQuestions \/ FillParagraph \/ ParagraphsEnd
            \/ FillRemaining
  <2>1. Part \in {"pairs", "radios", "essays", "rest"} /\ UNCHANGED typing
    BY <1>10 DEF FillYesNoQuestions, FillRadioQuestions, FillParagraph, ParagraphsEnd,
       FillRemaining
  <2>2. QED
    BY <1>0, <1>2, <2>1, NotTyping
<1>11. CASE FillEnds
  BY <1>2, <1>11 DEF FillEnds
<1>12. CASE PrefillEnds
  <2>1. cur > Listed /\ UNCHANGED typing
    BY <1>12 DEF PrefillEnds
  <2>2. QED
    BY <1>0, <1>2, <2>1, NotTyping
<1>13. QED
  BY <1>3, <1>4, <1>5, <1>6, <1>7, <1>8, <1>9, <1>10, <1>11, <1>12, Zenon
    DEF Next, Program, Fill

\* What writes into the text fields: the program where it found nothing when the
\* pass began, and Ashby's fix the zip code and the location.
LEMMA TextStep ==
  ASSUME PlaceOK, TextOK, Chosen, [Next]_vars
  PROVE  TextOK'
<1>0. /\ cur \in Nat \ {0} /\ site.shown \subseteq Text
      /\ {"ours", "parsed", "human"} \subseteq Values /\ "empty" \notin {"ours", "parsed", "human"}
  BY Bounds DEF PlaceOK, Values
<1>1. ASSUME UNCHANGED <<val, start, setup>>, typing' \in BOOLEAN PROVE TextOK'
  BY <1>1 DEF TextOK, FilledBeforeThePassIsKept, setup, Fixed
<1>2. CASE UNCHANGED vars \/ Land \/ Cover
  <2>1. UNCHANGED <<val, start, setup, typing>>
    BY <1>2 DEF vars, Land, Cover, setup, form, filling, ledger
  <2>2. QED
    BY <1>1, <2>1 DEF TextOK
<1>3. CASE Parse
  <2>1. PICK fs \in SUBSET site.shown : val' = [f \in Text |-> IF f \in fs THEN "parsed" ELSE val[f]]
    BY <1>3 DEF Parse
  <2>2. UNCHANGED <<start, setup, typing>>
    BY <1>3 DEF Parse, setup, filling, ledger
  <2>3. val' \in [Text -> Values] /\ \A f \in Text : val'[f] \in {val[f], "parsed"}
    BY <1>0, <2>1 DEF TextOK
  <2>4. QED
    BY <2>2, <2>3 DEF TextOK, FilledBeforeThePassIsKept, setup, Fixed
<1>4. CASE Edit
  <2>1. PICK f \in site.shown : val' = [val EXCEPT ![f] = "human"]
    BY <1>4 DEF Edit
  <2>2. UNCHANGED <<start, setup, typing>>
    BY <1>4 DEF Edit, setup, filling, ledger
  <2>3. val' \in [Text -> Values] /\ \A g \in Text : val'[g] \in {val[g], "human"}
    BY <1>0, <2>1 DEF TextOK
  <2>4. QED
    BY <2>2, <2>3 DEF TextOK, FilledBeforeThePassIsKept, setup, Fixed
<1>5. CASE Navigation /\ ~Check
  <2>1. UNCHANGED <<val, start, setup, typing>>
    BY <1>5 DEF Navigation, Hit, HitLate, Intercepted, ToSuper, Round, GiveUp, WithoutList,
       Judge,
               AshbyClick, AshbyCovered, Recheck, AshbyEnds, setup, form, filling, ledger
  <2>2. QED
    BY <1>1, <2>1 DEF TextOK
<1>6. CASE Check
  <2>1. val' = val \/ val' = [f \in Text |-> IF f \in Fixed THEN "ours" ELSE val[f]]
    BY <1>6 DEF Check, Fix
  <2>2. h = Ashby /\ mode = "rules" /\ UNCHANGED <<start, setup, typing>>
    BY <1>6 DEF PlaceOK, Check, setup, filling, ledger
  <2>3. /\ val' \in [Text -> Values]
        /\ \A f \in Text : val'[f] = val[f] \/ (f \in Fixed /\ val'[f] = "ours")
    BY <1>0, <2>1 DEF TextOK
  <2>4. QED
    BY <2>2, <2>3 DEF TextOK, FilledBeforeThePassIsKept, setup, Fixed
<1>7. CASE Type
  <2>1. AtField /\ typing /\ val' = [val EXCEPT ![Field] = "ours"] /\ typing' = FALSE
        /\ UNCHANGED <<start, setup>>
    BY <1>7 DEF Type, setup, ledger
  <2>2. Field \in Text /\ start[Field] = "empty"
    BY <1>0, <2>1, AtFieldIs DEF Chosen
  <2>3. /\ val' \in [Text -> Values]
        /\ \A f \in Text : val'[f] = val[f] \/ (start[f] = "empty" /\ val'[f] = "ours")
    BY <1>0, <2>1, <2>2 DEF TextOK
  <2>4. QED
    BY <2>1, <2>3 DEF TextOK, FilledBeforeThePassIsKept, setup, Fixed
<1>8. CASE Absent \/ Keep \/ Look \/ TypeFails
  BY <1>1, <1>8 DEF TextOK, Absent, Keep, Look, TypeFails, setup, form, ledger
<1>9. CASE TextEnds \/ NothingFailed \/ Upload
  BY <1>1, <1>9 DEF TextOK, TextEnds, NothingFailed, Upload, setup, form, ledger
<1>10. CASE FillWorkAuthorization \/ FillCustomFields \/ FillDemographics \/ FillConsent
            \/ SelectLocation
  <2>1. PICK p \in {"auth", "custom", "eeo", "consent", "place"},
             s \in {"auth", "eeo", "consent", "place"} : Choose(p, s)
    BY <1>10 DEF FillWorkAuthorization, FillCustomFields, FillDemographics, FillConsent,
       SelectLocation
  <2>2. QED
    BY <1>1, <2>1 DEF TextOK, Choose, setup, ledger
<1>11. CASE FillYesNoQuestions \/ FillRadioQuestions \/ FillParagraph \/ ParagraphsEnd
            \/ FillRemaining
  BY <1>1, <1>11 DEF TextOK, FillYesNoQuestions, FillRadioQuestions, FillParagraph,
     ParagraphsEnd,
                     FillRemaining, setup, form, ledger
<1>12. CASE Raise \/ FillEnds
  BY <1>1, <1>12 DEF TextOK, Raise, FillEnds, setup, form, ledger
<1>13. CASE PrefillEnds
  <2>1. UNCHANGED <<val, setup, typing>> /\ start' \in {start, val}
    BY <1>13 DEF PrefillEnds, setup, form, ledger
  <2>2. QED
    BY <1>1, <2>1 DEF TextOK, FilledBeforeThePassIsKept, setup, Fixed
<1>14. QED
  BY <1>2, <1>3, <1>4, <1>5, <1>6, <1>7, <1>8, <1>9, <1>10, <1>11, <1>12, <1>13, Zenon
     DEF Next, Program, Fill, Environment

LEMMA TextInit == Init => TextOK /\ Chosen
<1> SUFFICES ASSUME Init PROVE TextOK /\ Chosen
  OBVIOUS
<1>1. val \in [Text -> Values] /\ start = val /\ typing = FALSE
  BY Bounds DEF Init
<1>2. QED
  BY <1>1 DEF TextOK, Chosen, FilledBeforeThePassIsKept

\* Of any handler on any site: what a text field held when the pass began is not
\* replaced by it, but for Ashby's fix of the zip code and the location.
THEOREM FilledIsNotReplaced == Spec => []FilledBeforeThePassIsKept
<1>1. PlaceOK /\ TextOK /\ Chosen /\ [Next]_vars => PlaceOK' /\ TextOK' /\ Chosen'
  BY PlaceStep, TextStep, ChosenStep
<1>2. TextOK => FilledBeforeThePassIsKept
  BY DEF TextOK
<1>3. QED
  BY PlaceInit, TextInit, <1>1, <1>2, PTL DEF Spec

-----------------------------------------------------------------------------
(* The questions of Ashby                                                  *)

Answered == ans \in [Questions -> {"none", "ours", "human"}]

\* A question for the user that no search for another one ends at.
Separate(q) == Topic(q) \in ManualForPairs /\ \A p \in Questions \ {q} : Reach(p) # q

\* Only questions at which the search for one that has an answer ends are clicked.
LEMMA ClicksKeep ==
  ASSUME Answered, NEW qs, Clicks(qs), UNCHANGED site,
         \A q \in Questions \cap qs : ~Separate(q)
  PROVE  Answered' /\ \A q \in Questions : Separate(q) => ans'[q] = ans[q]
<1>1. PICK got \in [qs -> {"ours", "none", "same"}] :
        ans' = [q \in Questions |-> IF q \in qs /\ got[q] # "same" THEN got[q] ELSE ans[q]]
  BY DEF Clicks
<1>2. /\ ans' \in [Questions -> {"none", "ours", "human"}]
      /\ \A q \in Questions : q \notin qs => ans'[q] = ans[q]
  BY <1>1 DEF Answered
<1>3. Questions' = Questions
  BY DEF Questions
<1>4. QED
  BY <1>2, <1>3 DEF Answered

\* The topics for the user have no answer in either pass.
LEMMA ManualHaveNoAnswer ==
  ASSUME NEW q, Topic(q) \in ManualForPairs
  PROVE  PairAnswer(q) = "none" /\ GroupAnswer(q) = "none"
BY DEF PairAnswer, GroupAnswer, ResolveYesNo, ManualForPairs, ManualForRadios

LEMMA QuestionsStep ==
  ASSUME Answered, [Next]_vars
  PROVE  Answered' /\ \A q \in Questions : Separate(q) => ans'[q] = ans[q]
<1>1. ASSUME UNCHANGED <<ans, site>>
      PROVE  Answered' /\ \A q \in Questions : Separate(q) => ans'[q] = ans[q]
  BY <1>1 DEF Answered, Questions
<1>2. CASE UNCHANGED vars \/ Environment
  BY <1>1, <1>2 DEF vars, Environment, Land, Parse, Edit, Cover, setup, form
<1>3. CASE Navigation
  BY <1>1, <1>3 DEF Navigation, Hit, HitLate, Intercepted, ToSuper, Round, GiveUp, WithoutList,
     Judge,
               AshbyClick, AshbyCovered, Check, Recheck, AshbyEnds, setup, form
<1>4. CASE FillYesNoQuestions
  <2> DEFINE asked == {q \in Questions : PairAnswer(q) # "none"}
             qs    == {Reach(q) : q \in asked} \cap Questions
  <2>1. Clicks(qs) /\ UNCHANGED site
    BY <1>4 DEF FillYesNoQuestions, setup
  <2>2. ASSUME NEW q \in qs, Separate(q) PROVE FALSE
    <3>1. PICK p \in asked : Reach(p) = q
      OBVIOUS
    <3>2. p = q
      BY <2>2, <3>1 DEF Separate
    <3>3. QED
      BY <2>2, <3>2, ManualHaveNoAnswer DEF Separate
  <2> HIDE DEF qs
  <2>3. QED
    BY <2>1, <2>2, ClicksKeep
<1>5. CASE FillRadioQuestions
  <2>1. Clicks({q \in Groups : ans[q] = "none" /\ GroupAnswer(q) # "none"}) /\ UNCHANGED site
    BY <1>5 DEF FillRadioQuestions, setup
  <2>2. QED
    BY <2>1, ClicksKeep, ManualHaveNoAnswer DEF Separate
<1>6. CASE FillStep /\ ~FillYesNoQuestions /\ ~FillRadioQuestions
  <2>1. CASE Absent \/ Keep \/ Look \/ Type \/ TypeFails \/ TextEnds \/ NothingFailed \/ Upload
    BY <1>1, <2>1 DEF Absent, Keep, Look, Type, TypeFails, TextEnds, NothingFailed, Upload,
       setup, form
  <2>2. CASE FillParagraph \/ ParagraphsEnd \/ FillRemaining
    BY <1>1, <2>2 DEF FillParagraph, ParagraphsEnd, FillRemaining, setup, form
  <2>3. CASE FillWorkAuthorization \/ FillCustomFields \/ FillDemographics \/ FillConsent
             \/ SelectLocation
    <3>1. PICK p \in {"auth", "custom", "eeo", "consent", "place"},
               s \in {"auth", "eeo", "consent", "place"} : Choose(p, s)
      BY <2>3 DEF FillWorkAuthorization, FillCustomFields, FillDemographics, FillConsent,
                  SelectLocation
    <3>2. QED
      BY <1>1, <3>1 DEF Choose, setup
  <2>4. QED
    BY <1>6, <2>1, <2>2, <2>3 DEF FillStep
<1>7. CASE Raise \/ FillEnds \/ PrefillEnds
  BY <1>1, <1>7 DEF Raise, FillEnds, PrefillEnds, setup, form
<1>8. QED
  BY <1>2, <1>3, <1>4, <1>5, <1>6, <1>7, Zenon DEF Next, Program, Fill, FillStep

LEMMA QuestionsInit == Init => Answered
<1> SUFFICES ASSUME Init PROVE Answered
  OBVIOUS
<1>1. PICK who \in {"none", "human"} : ans = [q \in Questions |-> who]
  BY DEF Init
<1>2. QED
  BY <1>1 DEF Answered

\* Neither the pass over what has a Yes and a No nor that over the radio groups
\* changes a question on gender, race, veteran status, disability or age, on any
\* page, but where the search for the options of another question ends at it.
THEOREM EeoIsLeft == Spec => EeoIsLeftToTheUser
<1>1. Answered /\ [Next]_vars =>
        [\A q \in Questions :
           Topic(q) \in ManualForPairs /\ (\A p \in Questions \ {q} : Reach(p) # q)
           => ans'[q] = ans[q]]_vars
  BY QuestionsStep DEF Separate
<1>2. Answered /\ [Next]_vars => Answered'
  BY QuestionsStep
<1>3. QED
  BY QuestionsInit, <1>1, <1>2, PTL DEF Spec, EeoIsLeftToTheUser

-----------------------------------------------------------------------------
(* What the site gets                                                      *)

BrowserOK ==
  /\ page \in Posting..Elsewhere /\ moving \in Posting..Elsewhere /\ errors \in BOOLEAN
  /\ sent \in Nat /\ early \in 0..sent
  /\ left \in [late : 0..MaxLate, edits : 0..MaxEdits, overlays : 0..MaxOverlays]

\* A click that the list, the step or the check takes for the submission.
Taken == pc \in {"judge", "done"} \/ (pc = "check" /\ ~errors)

SentOK ==
  /\ pc = "apply" => early = sent
  /\ ~(h = Ashby /\ site.lag) =>
       sent <= (MaxLate - left.late) + early + IF Taken THEN 1 ELSE 0

LEMMA LoadsIs ==
  ASSUME PlaceOK, BrowserOK, NEW q \in 0..4, Loads(q)
  PROVE  /\ page' \in Posting..Elsewhere /\ moving' \in Posting..Elsewhere /\ errors' \in BOOLEAN
         /\ site.lag \/ ~errors'
<1>1. moving' = q /\ page' \in {page, q} /\ errors' \in {errors, FALSE} /\ (site.lag \/ ~errors')
  BY DEF Loads
<1>2. q \in Posting..Elsewhere
  BY DEF Posting, Elsewhere
<1>3. QED
  BY <1>1, <1>2 DEF BrowserOK

\* A click sends one application at most, after which no errors are on a screen
\* that follows at once; and Next sends none.
LEMMA ClickIs ==
  ASSUME PlaceOK, BrowserOK, NEW c, Click(c)
  PROVE  /\ page' \in Posting..Elsewhere /\ moving' \in Posting..Elsewhere /\ errors' \in BOOLEAN
         /\ sent' = sent \/ (sent' = sent + 1 /\ (site.lag \/ ~errors'))
         /\ early' = IF pc = "apply" THEN sent' ELSE early
         /\ c = "next" /\ c \in Controls => sent' = sent
<1> DEFINE p == IF page = Posting THEN 1 ELSE page
           ofForm == page \in {1, 2} \/ (page = Posting /\ c \notin {"apply", "main"})
<1>0. site.pages \in {1, 2} /\ Posting = 0 /\ Thanks = 3 /\ Elsewhere = 4 /\ page \in 0..4
  BY Bounds DEF PlaceOK, BrowserOK, Posting, Thanks, Elsewhere
<1>2. early' = IF pc = "apply" THEN sent' ELSE early
  BY DEF Click
<1>3. CASE ~ofForm
  <2>1. Loads(IF page = Posting THEN 1 ELSE Elsewhere) /\ sent' = sent
    BY <1>3 DEF Click
  <2>2. (IF page = Posting THEN 1 ELSE Elsewhere) \in 0..4
    BY <1>0
  <2>3. QED
    BY <1>2, <2>1, <2>2, LoadsIs
<1>4. CASE ofForm /\ ~Complete(p)
  <2>1. errors' = TRUE /\ UNCHANGED <<page, moving, sent>>
    BY <1>4 DEF Click
  <2>2. QED
    BY <1>2, <2>1 DEF BrowserOK
<1>5. CASE ofForm /\ Complete(p) /\ p < site.pages
  <2>1. Loads(p + 1) /\ sent' = sent
    BY <1>5 DEF Click
  <2>2. p + 1 \in 0..4
    BY <1>0, <1>5
  <2>3. QED
    BY <1>2, <2>1, <2>2, LoadsIs
<1>6. CASE ofForm /\ Complete(p) /\ ~(p < site.pages)
  <2>1. Loads(Thanks) /\ sent' = sent + 1
    BY <1>6 DEF Click
  <2>2. "next" \notin FormControls(p)
    BY <1>6 DEF FormControls
  <2>3. "next" \notin Controls
    <3>1. CASE page = 0
      <4>1. p = 1
        BY <1>0, <3>1
      <4>2. QED
        BY <1>0, <2>2, <3>1, <4>1 DEF Controls
    <3>2. CASE page \in {1, 2}
      <4>1. p = page
        BY <1>0, <3>2
      <4>2. QED
        BY <1>0, <2>2, <3>2, <4>1 DEF Controls
    <3>3. QED
      BY <1>0, <1>6, <3>1, <3>2
  <2>4. Thanks \in 0..4
    BY <1>0
  <2>5. QED
    BY <1>2, <2>1, <2>3, <2>4, LoadsIs
<1>7. QED
  BY <1>3, <1>4, <1>5, <1>6

\* The lists of Next have the Next button only.
LEMMA NextIsNext ==
  ASSUME PlaceOK, pc = "next", Ahead # {}
  PROVE  List[Min(Ahead)] = "next" /\ List[Min(Ahead)] \in Controls
<1>1. Min(Ahead) \in Ahead
  BY FirstAhead DEF PlaceOK
<1>2. List \in {<<>>, <<"next">>}
  BY OurHandler DEF PlaceOK, List, Proper
<1>3. Min(Ahead) \in 1..Len(List) /\ List[Min(Ahead)] \in Controls
  BY <1>1 DEF Ahead, PlaceOK
<1>4. QED
  BY <1>2, <1>3

\* A click of a list, on time or late.
LEMMA ListClick ==
  ASSUME PlaceOK, BrowserOK, Ahead # {}, Click(List[Min(Ahead)])
  PROVE  /\ page' \in Posting..Elsewhere /\ moving' \in Posting..Elsewhere /\ errors' \in BOOLEAN
         /\ sent' = sent \/ (sent' = sent + 1 /\ pc # "next" /\ (site.lag \/ ~errors'))
         /\ early' = IF pc = "apply" THEN sent' ELSE early
BY ClickIs, NextIsNext

LEMMA BrowserInit == Init => BrowserOK /\ SentOK
<1> SUFFICES ASSUME Init PROVE BrowserOK /\ SentOK
  OBVIOUS
<1>1. page \in {0, 1} /\ moving = page /\ errors = FALSE /\ sent = 0 /\ early = 0
  BY DEF Init, Posting
<1>2. left = [late |-> MaxLate, edits |-> MaxEdits, overlays |-> MaxOverlays]
  BY DEF Init
<1>3. BrowserOK
  <2>1. left \in [late : 0..MaxLate, edits : 0..MaxEdits, overlays : 0..MaxOverlays]
    BY Bounds, <1>2
  <2>2. page \in Posting..Elsewhere /\ moving \in Posting..Elsewhere
    BY <1>1 DEF Posting, Elsewhere
  <2>3. sent \in Nat /\ early \in 0..sent
    BY <1>1
  <2>4. errors \in BOOLEAN
    BY <1>1, Zenon
  <2>5. QED
    BY <2>1, <2>2, <2>3, <2>4 DEF BrowserOK
<1>4. SentOK
  BY Bounds, <1>1, <1>2 DEF SentOK
<1>5. QED
  BY <1>3, <1>4

LEMMA BrowserStep ==
  ASSUME PlaceOK, BrowserOK, SentOK, [Next]_vars
  PROVE  BrowserOK' /\ SentOK'
<1>0. MaxLate \in Nat /\ MaxEdits \in Nat /\ MaxOverlays \in Nat
  BY Bounds
<1>1. ASSUME UNCHANGED <<setup, page, moving, errors, sent, early, left>>,
             pc' = "apply" => pc = "apply", Taken => Taken'
      PROVE  BrowserOK' /\ SentOK'
  BY <1>0, <1>1 DEF BrowserOK, SentOK, setup
<1>2. CASE UNCHANGED vars
  BY <1>1, <1>2 DEF vars, browser, ledger, Taken
<1>3. CASE Land
  <2>1. UNCHANGED <<setup, sent, pc, early, left>> /\ page' = moving /\ UNCHANGED moving
        /\ errors' = FALSE
    BY <1>3 DEF Land, ledger
  <2>2. BrowserOK'
    BY <2>1 DEF BrowserOK
  <2>3. Taken => Taken'
    BY <2>1 DEF Taken
  <2>4. SentOK'
    BY <1>0, <2>1, <2>3 DEF BrowserOK, SentOK, setup
  <2>5. QED
    BY <2>2, <2>4
<1>4. CASE Parse
  BY <1>1, <1>4 DEF Parse, browser, ledger, Taken
<1>5. CASE Edit \/ Cover
  <2>1. UNCHANGED <<setup, page, moving, errors, sent, early, pc>>
    BY <1>5 DEF Edit, Cover, browser, ledger
  <2>2. left' \in [late : 0..MaxLate, edits : 0..MaxEdits, overlays : 0..MaxOverlays]
        /\ left'.late = left.late
    BY <1>0, <1>5 DEF Edit, Cover, BrowserOK
  <2>3. QED
    BY <1>0, <2>1, <2>2 DEF BrowserOK, SentOK, Taken, setup
<1>6. CASE Hit
  <2>1. UNCHANGED <<setup, left>> /\ Ahead # {} /\ Click(List[Min(Ahead)]) /\ Succeeds
    BY <1>6 DEF Hit
  <2>2. \/ pc = "apply" /\ pc' = "fill"
        \/ pc = "next" /\ pc' \in {"next", "submit"}
        \/ pc = "submit" /\ pc' = "judge"
    BY <2>1 DEF Succeeds, Enter
  <2>3. QED
    BY <1>0, <2>1, <2>2, ListClick DEF BrowserOK, SentOK, Taken, setup
<1>7. CASE HitLate
  <2>1. UNCHANGED <<setup, pc>> /\ Ahead # {} /\ Click(List[Min(Ahead)]) /\ left.late > 0
        /\ left' = [left EXCEPT !.late = @ - 1] /\ pc \in {"apply", "next", "submit"}
    BY <1>7 DEF HitLate, Listing
  <2>2. left' \in [late : 0..MaxLate, edits : 0..MaxEdits, overlays : 0..MaxOverlays]
        /\ left'.late = left.late - 1
    BY <1>0, <2>1 DEF BrowserOK
  <2>3. QED
    BY <1>0, <2>1, <2>2, ListClick DEF BrowserOK, SentOK, Taken, setup
<1>8. CASE Intercepted \/ ToSuper \/ Round \/ AshbyCovered
  BY <1>1, <1>8 DEF Intercepted, ToSuper, Round, AshbyCovered, browser, ledger, Taken
<1>9. CASE GiveUp \/ WithoutList
  <2>1. UNCHANGED <<setup, page, moving, errors, sent, early, left>> /\ (Succeeds \/ Fails)
    BY <1>9 DEF GiveUp, WithoutList, browser, ledger
  <2>2. pc' # "apply" /\ ~Taken
    BY <2>1 DEF Succeeds, Fails, Enter, Finish, Taken
  <2>3. QED
    BY <1>1, <2>1, <2>2
<1>10. CASE Judge
  BY <1>1, <1>10 DEF Judge, Finish, Enter, browser, ledger, Taken
<1>11. CASE AshbyClick
  <2>1. UNCHANGED setup /\ Ahead # {} /\ Click(List[Min(Ahead)]) /\ pc = "submit" /\ h = Ashby
    BY <1>11 DEF AshbyClick, AshbySubmits
  <2>2. CASE pc' = "check" /\ UNCHANGED left
    BY <1>0, <2>1, <2>2, ListClick DEF BrowserOK, SentOK, Taken, setup
  <2>3. CASE left.late > 0 /\ left' = [left EXCEPT !.late = @ - 1] /\ UNCHANGED pc
    <3>1. left' \in [late : 0..MaxLate, edits : 0..MaxEdits, overlays : 0..MaxOverlays]
          /\ left'.late = left.late - 1
      BY <1>0, <2>3 DEF BrowserOK
    <3>2. QED
      BY <1>0, <2>1, <2>3, <3>1, ListClick DEF BrowserOK, SentOK, Taken, setup
  <2>4. QED
    BY <1>11, <2>2, <2>3 DEF AshbyClick
<1>12. CASE Check
  BY <1>1, <1>12 DEF Check, browser, ledger, Taken
<1>13. CASE Recheck
  <2>1. UNCHANGED <<setup, left>> /\ pc = "recheck" /\ pc' \in {"judge", "submit"} /\ h = Ashby
    BY <1>13 DEF Recheck, PlaceOK
  <2>2. CASE UNCHANGED <<page, moving, errors, sent, early>>
    BY <1>0, <2>1, <2>2 DEF BrowserOK, SentOK, Taken, setup
  <2>3. CASE Click(h.submit[item]) /\ (~errors' => pc' = "judge")
    BY <1>0, <2>1, <2>3, ClickIs DEF BrowserOK, SentOK, Taken, setup
  <2>4. QED
    BY <1>13, <2>2, <2>3 DEF Recheck
<1>14. CASE AshbyEnds
  BY <1>1, <1>14 DEF AshbyEnds, AshbySubmits, Finish, Enter, browser, ledger, Taken
<1>15. CASE FillStep
  <2>1. UNCHANGED <<setup, pc, page, moving, errors, sent, early, left>>
    BY <1>15, FillStepIs DEF browser
  <2>2. QED
    BY <1>1, <2>1 DEF Taken
<1>16. CASE Raise
  <2>1. UNCHANGED <<setup, page, moving, errors, sent, early, left>> /\ pc' \in {"done", "again", pc}
    BY <1>16, RaiseIs DEF PlaceOK, Finish, Enter, HalfPass, browser, ledger
  <2>2. Part # "none" \/ pc = "again"
    BY <1>16 DEF Raise, Labels, ByConfidence
  <2>3. pc \in {"fill", "again"}
    BY <2>2, InParts
  <2>4. QED
    BY <1>1, <2>1, <2>3 DEF Taken
<1>17. CASE FillEnds
  BY <1>1, <1>17 DEF FillEnds, Enter, HalfPass, browser, ledger, Taken
<1>18. CASE PrefillEnds
  <2>1. pc = "again" /\ pc' \in {"fill", "done"} /\ UNCHANGED <<setup, page, moving, errors, sent, left>>
        /\ early' = early
    BY <1>18 DEF PrefillEnds, browser
  <2>2. QED
    BY <1>1, <2>1 DEF Taken
<1>19. QED
  BY <1>2, <1>3, <1>4, <1>5, <1>6, <1>7, <1>8, <1>9, <1>10, <1>11, <1>12, <1>13, <1>14, <1>15,
     <1>16, <1>17, <1>18, Zenon DEF Next, Program, Environment, Navigation, Fill, FillStep

\* However many lists, rounds and steps there are, a pass of any handler sends one
\* application, and one more for each click that timed out after the site got it.
THEOREM SentOnce == Spec => []NoSecondApplication
<1>1. BrowserOK /\ SentOK => NoSecondApplication
  BY Bounds DEF BrowserOK, SentOK, NoSecondApplication
<1>2. PlaceOK /\ BrowserOK /\ SentOK /\ [Next]_vars => PlaceOK' /\ BrowserOK' /\ SentOK'
  BY PlaceStep, BrowserStep
<1>3. QED
  BY PlaceInit, BrowserInit, <1>1, <1>2, PTL DEF Spec

-----------------------------------------------------------------------------
(* The essays of Ashby                                                     *)

Given == ToSet(Resume.descs) \cup ToSet(Fallbacks)

LEMMA Resumes ==
  /\ Resume.descs \in Seq(STRING) /\ Fallbacks \in Seq(STRING) /\ Fallbacks # <<>>
  /\ "summary" \notin Given
BY AnswersAssumption DEF Given

\* A text for a topic that takes one description is a description not used yet.
LEMMA OneOfIs ==
  ASSUME NEW topic, NEW taken, Free(Resume.descs, taken) # {}
  PROVE  OneOf(topic, taken) \notin taken /\ OneOf(topic, taken) \in Given
<1> DEFINE free == Free(Resume.descs, taken)
           fit == {k \in free : topic \in Resume.fits[Resume.descs[k]]}
<1>1. free \subseteq DOMAIN Resume.descs /\ DOMAIN Resume.descs = 1..Len(Resume.descs)
      /\ Len(Resume.descs) \in Nat
  BY Resumes DEF Free
<1>2. \A k \in free : Resume.descs[k] \notin taken /\ Resume.descs[k] \in Given
  BY <1>1 DEF Free, Given, ToSet
<1>3. Max(free) \in free
  BY <1>1, GreatestOf
<1>4. Min(free) \in free
  <2>1. free \subseteq Nat
    BY <1>1
  <2>2. QED
    BY <2>1, LeastOf
<1>5. fit # {} => Min(fit) \in free
  <2>1. fit \subseteq free /\ fit \subseteq Nat
    BY <1>1
  <2>2. fit # {} => Min(fit) \in fit
    BY <2>1, LeastOf
  <2>3. QED
    BY <2>1, <2>2
<1>6. \E k \in free : OneOf(topic, taken) = Resume.descs[k]
  BY <1>3, <1>4, <1>5 DEF OneOf
<1>7. QED
  BY <1>2, <1>6

LEMMA DefaultIs ==
  ASSUME NEW taken
  PROVE  /\ DefaultAnswer(taken) \notin taken \/ Given \subseteq taken
         /\ DefaultAnswer(taken) \in Given
<1> DEFINE texts == Resume.descs \o Fallbacks
           free == Free(texts, taken)
           n == Len(Resume.descs)
           m == Len(Fallbacks)
<1>1. /\ n \in Nat /\ m \in Nat \ {0} /\ DOMAIN texts = 1..n + m
      /\ DOMAIN Resume.descs = 1..n /\ DOMAIN Fallbacks = 1..m
  BY Resumes
<1>2. \A k \in 1..n : texts[k] = Resume.descs[k]
  BY Resumes
<1>3. \A k \in 1..m : texts[n + k] = Fallbacks[k]
  BY Resumes
<1>4. \A k \in 1..n + m : texts[k] \in Given
  <2>1. \A k \in 1..n : texts[k] \in Given
    BY <1>1, <1>2 DEF Given, ToSet
  <2>2. \A k \in 1..m : texts[n + k] \in Given
    BY <1>1, <1>3 DEF Given, ToSet
  <2>3. \A k \in 1..n + m : k \in 1..n \/ (k - n \in 1..m /\ k = n + (k - n))
    BY <1>1
  <2>4. QED
    BY <2>1, <2>2, <2>3
<1>5. CASE free # {}
  <2>1. free \subseteq Nat
    BY <1>1 DEF Free
  <2>2. Min(free) \in free
    BY <1>5, <2>1, LeastOf
  <2>3. DefaultAnswer(taken) = texts[Min(free)]
    BY <1>5 DEF DefaultAnswer
  <2>4. QED
    BY <1>1, <1>4, <2>2, <2>3 DEF Free
<1>6. CASE free = {}
  <2>1. \A k \in 1..n + m : texts[k] \in taken
    BY <1>1, <1>6 DEF Free
  <2>2. \A k \in 1..n : Resume.descs[k] \in taken
    BY <1>1, <1>2, <2>1
  <2>3. \A k \in 1..m : Fallbacks[k] \in taken
    <3>1. \A k \in 1..m : n + k \in 1..n + m
      BY <1>1
    <3>2. QED
      BY <1>3, <2>1, <3>1
  <2>4. Given \subseteq taken
    BY <1>1, <2>2, <2>3 DEF Given, ToSet
  <2>5. DefaultAnswer(taken) = Head(Fallbacks)
    BY <1>6 DEF DefaultAnswer
  <2>6. Head(Fallbacks) = Fallbacks[1] /\ 1 \in DOMAIN Fallbacks
    BY <1>1, Resumes
  <2>7. QED
    BY <2>4, <2>5, <2>6 DEF Given, ToSet
<1>7. QED
  BY <1>5, <1>6

\* An essay that asks for no link gets a text no other one has, unless all are
\* used; and never the summary.
LEMMA ParagraphIs ==
  ASSUME NEW topic, topic \notin DOMAIN Resume.links, NEW taken
  PROVE  /\ ParagraphAnswer(topic, taken) \notin taken \/ Given \subseteq taken
         /\ ParagraphAnswer(topic, taken) # "summary"
<1> DEFINE answer == ParagraphAnswer(topic, taken)
<1>1. \A t \in DOMAIN Composed : Composed[t] # "summary"
  BY DEF Composed
<1>2. CASE topic \in TakesOne /\ Free(Resume.descs, taken) # {}
  BY <1>2, OneOfIs, Resumes DEF ParagraphAnswer
<1>3. CASE /\ ~(topic \in TakesOne /\ Free(Resume.descs, taken) # {})
           /\ topic \in DOMAIN Composed /\ Composed[topic] \notin taken
  <2>1. answer = Composed[topic]
    BY <1>3 DEF ParagraphAnswer
  <2>2. QED
    BY <1>1, <1>3, <2>1
<1>4. CASE /\ ~(topic \in TakesOne /\ Free(Resume.descs, taken) # {})
           /\ ~(topic \in DOMAIN Composed /\ Composed[topic] \notin taken)
  <2>1. answer = DefaultAnswer(taken)
    BY <1>4 DEF ParagraphAnswer
  <2>2. QED
    BY <2>1, DefaultIs, Resumes
<1>5. QED
  BY <1>2, <1>3, <1>4

LEMMA AshbyPart ==
  ASSUME h = Ashby, part \in Nat \ {0}
  PROVE  /\ Len(h.parts) = 7
         /\ pc = "fill" /\ part = 6 => Part = "essays"
         /\ pc = "fill" /\ part = 7 => Part = "rest"
         /\ Part = "essays" => part = 6
         /\ Part = "rest" => part = 7
         /\ Part \notin {"personal", "generic"}
<1>1. h.parts = AshbyParts
  BY DEF Ashby, Handler
<1>2. Len(AshbyParts) = 7 /\ AshbyParts[1] = "upload" /\ AshbyParts[2] = "own"
      /\ AshbyParts[3] = "place" /\ AshbyParts[4] = "pairs" /\ AshbyParts[5] = "radios"
      /\ AshbyParts[6] = "essays" /\ AshbyParts[7] = "rest"
  BY DEF AshbyParts
<1>3. part <= 7 => part \in {1, 2, 3, 4, 5, 6, 7}
  OBVIOUS
<1>4. CASE pc = "fill" /\ part <= 7
  <2>1. Part = AshbyParts[part]
    BY <1>1, <1>2, <1>4 DEF Part
  <2>2. QED
    BY <1>1, <1>2, <1>3, <1>4, <2>1
<1>5. CASE ~(pc = "fill" /\ part <= 7)
  <2>1. Part = "none"
    BY <1>1, <1>2, <1>5 DEF Part
  <2>2. QED
    BY <1>1, <1>2, <1>5, <2>1
<1>6. QED
  BY <1>4, <1>5

\* The essays the running pass wrote that ask for no link.
Plain(e) == site.essays[e] \notin DOMAIN Resume.links
OfPass(e) == essay[e].by = "ours" /\ essay[e].pass = pass

InEssays == pc = "fill" /\ part = 6
Before   == pc \in {"apply", "fill"} /\ part < 6

\* What is written in a pass is a used answer, of an essay that was before, and
\* there are not more of them than essays the pass went through.
EssayOK ==
  /\ site.essays # <<>> => h = Ashby
  /\ h = Ashby => /\ pc \in {"apply", "again"} => part = 1
                  /\ \A e \in Essays : essay[e].by = "ours" => essay[e].pass <= pass
                  /\ \A e \in Essays : essay[e].by = "ours" => essay[e].pass \in 1..2
                  /\ Before => \A e \in Essays : ~OfPass(e)
                  /\ ~InEssays => used = {}
                  /\ InEssays => /\ IsFiniteSet(used) /\ Cardinality(used) < cur
                                 /\ \A e \in Essays : OfPass(e) => e < cur /\ essay[e].text \in used
                  /\ pc = "fill" /\ part <= 7 =>
                       \A e \in Essays : Plain(e) /\ OfPass(e) => essay[e].text # "summary"
  /\ DOMAIN essay = Essays
  /\ AnswersRepeatOnlyWhenSpent

LEMMA EssaysAre ==
  ASSUME PlaceOK
  PROVE  /\ Essays = 1..Len(site.essays) /\ Len(site.essays) \in Nat
         /\ IsFiniteSet(Essays) /\ Cardinality(Essays) = Len(site.essays)
         /\ site.essays = <<>> => Essays = {}
<1>1. Len(site.essays) \in Nat /\ Essays = 1..Len(site.essays)
      /\ (site.essays = <<>> => Len(site.essays) = 0)
  BY Bounds DEF PlaceOK, Essays
<1>2. IsFiniteSet(1..Len(site.essays)) /\ Cardinality(1..Len(site.essays)) = Len(site.essays)
  BY <1>1, FS_Interval
<1>3. site.essays = <<>> => Essays = {}
  BY <1>1
<1>4. QED
  BY <1>1, <1>2, <1>3

LEMMA EssayInit == Init => EssayOK
<1> SUFFICES ASSUME Init PROVE EssayOK
  OBVIOUS
<1>1. (h # Ashby => site.essays = <<>>) /\ part = 1 /\ used = {}
  BY DEF Init
<1>2. DOMAIN essay = Essays /\ \A e \in Essays : essay[e].by # "ours"
  BY DEF Init, Blank
<1>3. ~InEssays
  BY <1>1 DEF InEssays
<1>4. QED
  BY <1>1, <1>2, <1>3 DEF EssayOK, AnswersRepeatOnlyWhenSpent, OfPass

\* Steps that write no essay, by where they leave the pass.
LEMMA EssaySame ==
  ASSUME PlaceOK, EssayOK, UNCHANGED <<h, site, essay>>,
         h = Ashby => /\ used' = {} /\ (pc' \in {"apply", "again"} => part' = 1)
                      /\ InEssays' => Before /\ pass' = pass /\ cur' = 1
                      /\ \/ pass' = pass /\ (Before' => Before)
                            /\ (pc' = "fill" /\ part' <= 7 => Before \/ (pc = "fill" /\ part <= 7))
                         \/ pass = 1 /\ pass' = 2
  PROVE  EssayOK'
<1>0. pass \in 1..2
  BY DEF PlaceOK
<1>1. Essays' = Essays /\ \A e \in Essays : Plain(e)' = Plain(e)
  BY DEF Essays, Plain
<1>2. AnswersRepeatOnlyWhenSpent'
  BY <1>1 DEF EssayOK, AnswersRepeatOnlyWhenSpent
<1>3. \A e \in Essays : OfPass(e)' => OfPass(e) /\ pass' = pass
  <2>1. ASSUME h = Ashby, NEW e \in Essays, OfPass(e)' PROVE OfPass(e) /\ pass' = pass
    BY <1>0, <2>1 DEF EssayOK, OfPass
  <2>2. h # Ashby => Essays = {}
    BY EssaysAre DEF EssayOK
  <2>3. QED
    BY <2>1, <2>2
<1>4. ASSUME h = Ashby, NEW e \in Essays, OfPass(e)' PROVE ~Before'
  BY <1>0, <1>3, <1>4 DEF EssayOK
<1>5. ASSUME h = Ashby, pc' = "fill", part' <= 7, NEW e \in Essays, Plain(e), OfPass(e)'
      PROVE  essay[e].text # "summary"
  <2>1. OfPass(e) /\ pass' = pass /\ (Before \/ (pc = "fill" /\ part <= 7))
    BY <1>0, <1>3, <1>5
  <2>2. QED
    BY <1>5, <2>1 DEF EssayOK
<1>6. ASSUME h = Ashby, NEW e \in Essays, essay[e].by = "ours"
      PROVE  essay[e].pass \in 1..2 /\ essay[e].pass <= pass'
  BY <1>0, <1>6 DEF EssayOK
<1>7. ASSUME h = Ashby, InEssays'
      PROVE  IsFiniteSet(used') /\ Cardinality(used') < cur' /\ \A e \in Essays : ~OfPass(e)'
  <2>1. Cardinality({}) = 0 /\ IsFiniteSet({})
    BY FS_EmptySet
  <2>2. \A e \in Essays : ~OfPass(e)'
    BY <1>3, <1>7 DEF EssayOK
  <2>3. QED
    BY <1>7, <2>1, <2>2
<1>8. QED
  BY <1>1, <1>2, <1>4, <1>5, <1>6, <1>7 DEF EssayOK

\* An essay gets an answer.
LEMMA ParagraphKeeps ==
  ASSUME PlaceOK, EssayOK, FillParagraph
  PROVE  EssayOK'
<1> DEFINE text == ParagraphAnswer(site.essays[cur], used)
<1>0. pass \in 1..2 /\ cur \in Nat \ {0} /\ part \in Nat \ {0}
  BY OurHandler DEF PlaceOK, Proper
<1>1. /\ cur <= Len(site.essays) /\ cur' = cur + 1 /\ Part = "essays"
      /\ UNCHANGED <<h, site, pc, part, pass>>
      /\ \/ UNCHANGED <<essay, used>>
         \/ used' = used \cup {text} /\ UNCHANGED essay
         \/ used' = used \cup {text} /\ essay[cur].by = "none"
            /\ essay' = [essay EXCEPT ![cur] = [by |-> "ours", pass |-> pass, text |-> text]]
  BY DEF FillParagraph, Remember, Written, setup, ledger
<1>2. h = Ashby
  BY <1>0, <1>1, EssaysAre DEF EssayOK
<1>3. part = 6 /\ pc = "fill"
  BY <1>0, <1>1, <1>2, AshbyPart, InParts
<1>4. InEssays /\ InEssays' /\ ~Before'
  BY <1>1, <1>3 DEF InEssays, Before
<1>5. /\ IsFiniteSet(used') /\ Cardinality(used') < cur' /\ used \subseteq used'
  <2>1. IsFiniteSet(used) /\ Cardinality(used) < cur
    BY <1>2, <1>4 DEF EssayOK
  <2>2. Cardinality(used) \in Nat
    BY <2>1, FS_CardinalityType
  <2>3. IsFiniteSet(used \cup {text}) /\ Cardinality(used \cup {text}) <= Cardinality(used) + 1
        /\ Cardinality(used \cup {text}) \in Nat
    <3>1. IsFiniteSet(used \cup {text})
          /\ Cardinality(used \cup {text})
               = IF text \in used THEN Cardinality(used) ELSE Cardinality(used) + 1
      BY <2>1, FS_AddElement
    <3>2. QED
      BY <2>2, <3>1
  <2>4. used' = used \/ used' = used \cup {text}
    BY <1>1
  <2>5. cur \in Nat /\ cur' = cur + 1
    BY <1>0, <1>1
  <2>6. CASE used' = used
    BY <2>1, <2>2, <2>5, <2>6
  <2>7. CASE used' = used \cup {text}
    BY <2>1, <2>2, <2>3, <2>5, <2>7
  <2>8. QED
    BY <2>4, <2>6, <2>7
<1>6. Essays' = Essays /\ \A e \in Essays : Plain(e)' = Plain(e)
  BY <1>1 DEF Essays, Plain
<1>7. CASE UNCHANGED essay
  <2>1. \A e \in Essays : OfPass(e)' = OfPass(e)
    BY <1>1, <1>7 DEF OfPass
  <2>2. AnswersRepeatOnlyWhenSpent'
    BY <1>1, <1>6, <1>7 DEF EssayOK, AnswersRepeatOnlyWhenSpent
  <2>3. \A e \in Essays : OfPass(e) => e < cur' /\ essay[e].text \in used'
    <3>1. \A e \in Essays : OfPass(e) => e < cur /\ essay[e].text \in used
      BY <1>2, <1>4 DEF EssayOK
    <3>2. \A e \in Essays : e \in Nat
      BY EssaysAre
    <3>3. QED
      BY <1>0, <1>1, <1>5, <3>1, <3>2
  <2>4. QED
    BY <1>1, <1>2, <1>3, <1>4, <1>5, <1>6, <1>7, <2>1, <2>2, <2>3 DEF EssayOK
<1>8. CASE /\ used' = used \cup {text} /\ essay[cur].by = "none"
           /\ essay' = [essay EXCEPT ![cur] = [by |-> "ours", pass |-> pass, text |-> text]]
  <2>1. cur \in Essays /\ DOMAIN essay = Essays
    BY <1>0, <1>1, EssaysAre DEF EssayOK
  <2>2. DOMAIN essay' = Essays /\ \A e \in Essays : e # cur => essay'[e] = essay[e]
    BY <1>8, <2>1
  <2>3. essay'[cur] = [by |-> "ours", pass |-> pass, text |-> text]
    BY <1>8, <2>1
  <2>4. essay'[cur].by = "ours" /\ essay'[cur].pass = pass /\ essay'[cur].text = text
    BY <2>3
  <2>5. \A e \in Essays : e # cur => OfPass(e)' = OfPass(e)
    BY <1>1, <2>2 DEF OfPass
  <2>6. \A e \in Essays : OfPass(e) => e < cur /\ essay[e].text \in used
    BY <1>2, <1>4 DEF EssayOK
  <2>7. \A e \in Essays : OfPass(e)' => e < cur' /\ essay'[e].text \in used'
    <3>1. \A e \in Essays : e \in Nat
      BY EssaysAre
    <3>2. cur < cur' /\ text \in used'
      BY <1>0, <1>1, <1>8
    <3>3. \A e \in Essays : e # cur => (OfPass(e)' => e < cur' /\ essay'[e].text \in used')
      BY <1>0, <1>1, <1>5, <2>2, <2>5, <2>6, <3>1
    <3>4. QED
      BY <2>4, <3>2, <3>3
  <2>8. Plain(cur) => text # "summary" /\ (text \notin used \/ Given \subseteq used)
    BY ParagraphIs DEF Plain
  <2>9. Given \subseteq used => Cardinality(Essays) > Cardinality(Given)
    <3>1. IsFiniteSet(used) /\ Cardinality(used) < cur
      BY <1>2, <1>4 DEF EssayOK
    <3>2. Cardinality(used) \in Nat
      BY <3>1, FS_CardinalityType
    <3>3. Given \subseteq used => Cardinality(Given) <= Cardinality(used)
                                  /\ Cardinality(Given) \in Nat
      BY <3>1, FS_Subset, FS_CardinalityType
    <3>4. QED
      BY <1>0, <1>1, <3>1, <3>2, <3>3, EssaysAre
  <2>10. ASSUME NEW e \in Essays, e # cur, Plain(e), Plain(cur), essay'[e] = essay'[cur]
         PROVE  Cardinality(Essays) > Cardinality(Given)
    <3>1. essay[e].by = "ours" /\ essay[e].pass = pass /\ essay[e].text = text
      BY <2>2, <2>4, <2>10
    <3>2. text \in used
      BY <2>6, <2>10, <3>1 DEF OfPass
    <3>3. QED
      BY <2>8, <2>9, <2>10, <3>2
  <2>11. AnswersRepeatOnlyWhenSpent'
    <3>1. \A d, e \in Essays :
            d # e /\ Plain(d) /\ Plain(e) /\ essay'[d].by = "ours" /\ essay'[e] = essay'[d]
              => Cardinality(Essays) > Cardinality(Given)
      <4>1. ASSUME NEW d \in Essays, NEW e \in Essays, d # e, Plain(d), Plain(e),
                   essay'[d].by = "ours", essay'[e] = essay'[d]
            PROVE  Cardinality(Essays) > Cardinality(Given)
        <5>1. CASE d = cur
          BY <2>10, <4>1, <5>1
        <5>2. CASE e = cur
          BY <2>10, <4>1, <5>2
        <5>3. CASE d # cur /\ e # cur
          <6>1. essay[d].by = "ours" /\ essay[e] = essay[d]
            BY <2>2, <4>1, <5>3
          <6>2. QED
            BY <4>1, <6>1 DEF EssayOK, AnswersRepeatOnlyWhenSpent, Plain, Given
        <5>4. QED
          BY <5>1, <5>2, <5>3
      <4>2. QED
        BY <4>1
    <3>2. QED
      BY <1>1, <1>6, <3>1 DEF AnswersRepeatOnlyWhenSpent, Plain, Given
  <2>12. \A e \in Essays : essay'[e].by = "ours" =>
           essay'[e].pass <= pass /\ essay'[e].pass \in 1..2
    BY <1>0, <1>2, <2>2, <2>4 DEF EssayOK
  <2>13. \A e \in Essays : Plain(e) /\ OfPass(e)' => essay'[e].text # "summary"
    BY <1>2, <1>3, <2>2, <2>4, <2>5, <2>8 DEF EssayOK
  <2>14. QED
    BY <1>1, <1>2, <1>3, <1>4, <1>5, <1>6, <2>2, <2>7, <2>11, <2>12, <2>13 DEF EssayOK
<1>9. QED
  BY <1>1, <1>5, <1>7, <1>8

\* The first textarea that is still empty gets the summary.
LEMMA RemainingKeeps ==
  ASSUME PlaceOK, EssayOK, FillRemaining
  PROVE  EssayOK'
<1>0. pass \in 1..2 /\ part \in Nat \ {0}
  BY OurHandler DEF PlaceOK, Proper
<1>1. /\ Part = "rest" /\ cur' = 1 /\ part' = part + 1 /\ UNCHANGED <<h, site, pc, pass, used>>
      /\ \/ UNCHANGED essay
         \/ /\ Essays # {} /\ essay[1].by = "none"
            /\ essay' = [essay EXCEPT ![1] = [by |-> "ours", pass |-> pass, text |-> "summary"]]
  BY DEF FillRemaining, Written, PartEnds, setup, ledger
<1>2. h = Ashby => part = 7 /\ pc = "fill" /\ ~InEssays /\ ~InEssays' /\ ~Before' /\ part' = 8
  BY <1>0, <1>1, AshbyPart, InParts DEF InEssays, Before
<1>3. CASE UNCHANGED essay
  BY <1>1, <1>2, <1>3, EssaySame DEF EssayOK
<1>4. CASE /\ Essays # {} /\ essay[1].by = "none"
           /\ essay' = [essay EXCEPT ![1] = [by |-> "ours", pass |-> pass, text |-> "summary"]]
  <2>1. 1 \in Essays /\ DOMAIN essay = Essays /\ h = Ashby
    BY <1>4, EssaysAre DEF EssayOK
  <2>2. DOMAIN essay' = Essays /\ \A e \in Essays : e # 1 => essay'[e] = essay[e]
    BY <1>4, <2>1
  <2>3. essay'[1] = [by |-> "ours", pass |-> pass, text |-> "summary"]
    BY <1>4, <2>1
  <2>4. essay'[1].by = "ours" /\ essay'[1].pass = pass /\ essay'[1].text = "summary"
    BY <2>3
  <2>5. Essays' = Essays /\ \A e \in Essays : Plain(e)' = Plain(e)
    BY <1>1 DEF Essays, Plain
  <2>6. \A e \in Essays : essay'[e].by = "ours" =>
          essay'[e].pass <= pass /\ essay'[e].pass \in 1..2
    BY <1>0, <2>1, <2>2, <2>4 DEF EssayOK
  <2>7. \A e \in Essays : e # 1 /\ Plain(e) => ~(essay'[e] = essay'[1])
    <3>1. \A e \in Essays : Plain(e) /\ OfPass(e) => essay[e].text # "summary"
      BY <1>2, <2>1 DEF EssayOK
    <3>2. QED
      BY <2>2, <2>4, <3>1 DEF OfPass
  <2>8. \A d, e \in Essays :
          d # e /\ Plain(d) /\ Plain(e) /\ essay'[d].by = "ours" /\ essay'[e] = essay'[d]
            => essay[d].by = "ours" /\ essay[e] = essay[d]
    BY <2>1, <2>2, <2>7
  <2>9. AnswersRepeatOnlyWhenSpent'
    <3>1. \A d, e \in Essays :
            d # e /\ Plain(d) /\ Plain(e) /\ essay[d].by = "ours" /\ essay[e] = essay[d]
              => Cardinality(Essays) > Cardinality(Given)
      <4>1. ASSUME NEW d \in Essays, NEW e \in Essays, d # e, Plain(d), Plain(e),
                   essay[d].by = "ours", essay[e] = essay[d]
            PROVE  Cardinality(Essays) > Cardinality(Given)
        <5>1. {site.essays[d], site.essays[e]} \cap DOMAIN Resume.links = {}
          BY <4>1 DEF Plain
        <5>2. AnswersRepeatOnlyWhenSpent
          BY DEF EssayOK
        <5>3. QED
          BY <4>1, <5>1, <5>2, Zenon DEF AnswersRepeatOnlyWhenSpent, Given
      <4>2. QED
        BY <4>1
    <3>2. \A d, e \in Essays :
            d # e /\ Plain(d) /\ Plain(e) /\ essay'[d].by = "ours" /\ essay'[e] = essay'[d]
              => Cardinality(Essays) > Cardinality(Given)
      BY <2>8, <3>1
    <3>3. QED
      BY <1>1, <2>5, <3>2 DEF AnswersRepeatOnlyWhenSpent, Plain, Given
  <2>10. QED
    BY <1>1, <1>2, <2>1, <2>2, <2>5, <2>6, <2>9 DEF EssayOK
<1>5. QED
  BY <1>1, <1>3, <1>4

LEMMA EssayStep ==
  ASSUME PlaceOK, EssayOK, [Next]_vars
  PROVE  EssayOK'
<1>0. pass \in 1..2 /\ part \in Nat \ {0} /\ cur \in Nat \ {0}
  BY OurHandler DEF PlaceOK, Proper
<1>1. ASSUME UNCHANGED <<h, site, essay, used, pc, part, cur, pass>> PROVE EssayOK'
  BY <1>1 DEF EssayOK, AnswersRepeatOnlyWhenSpent, Essays, Plain, OfPass, InEssays, Before
<1>2. CASE UNCHANGED vars \/ Environment
  BY <1>1, <1>2 DEF vars, Environment, Land, Parse, Edit, Cover, setup, form, filling, ledger
<1>3. CASE Navigation
  <2>1. pc \notin {"fill", "again"} /\ UNCHANGED <<h, site, essay, used, part, cur, pass>>
    BY <1>3 DEF Navigation, Hit, HitLate, Intercepted, ToSuper, Round, GiveUp, WithoutList,
       Judge,
               AshbyClick, AshbyCovered, Check, Recheck, AshbyEnds, AshbySubmits, Listing, setup,
               form, filling, ledger
  <2>2. pc' \in {"apply", "fill"} => pc = "apply"
    <3>1. CASE Succeeds \/ Fails
      BY <3>1 DEF Succeeds, Fails, Enter, Finish
    <3>2. CASE Judge
      BY <3>2 DEF Judge, Finish, Enter
    <3>3. CASE HitLate \/ Intercepted \/ ToSuper \/ Round \/ AshbyCovered
      BY <2>1, <3>3 DEF HitLate, Intercepted, ToSuper, Round, AshbyCovered
    <3>4. CASE AshbyClick \/ Check \/ Recheck \/ AshbyEnds
      BY <3>4 DEF AshbyClick, Check, Recheck, AshbyEnds, AshbySubmits, Finish, Enter
    <3>5. QED
      BY <1>3, <3>1, <3>2, <3>3, <3>4 DEF Navigation, Hit, GiveUp, WithoutList
  <2>3. pc' # "again"
    <3>1. CASE Succeeds \/ Fails
      BY <3>1 DEF Succeeds, Fails, Enter, Finish
    <3>2. CASE Judge
      BY <3>2 DEF Judge, Finish, Enter
    <3>3. CASE HitLate \/ Intercepted \/ ToSuper \/ Round \/ AshbyCovered
      BY <2>1, <3>3 DEF HitLate, Intercepted, ToSuper, Round, AshbyCovered
    <3>4. CASE AshbyClick \/ Check \/ Recheck \/ AshbyEnds
      BY <2>1, <3>4 DEF AshbyClick, Check, Recheck, AshbyEnds, AshbySubmits, Finish, Enter
    <3>5. QED
      BY <1>3, <3>1, <3>2, <3>3, <3>4 DEF Navigation, Hit, GiveUp, WithoutList
  <2>4. h = Ashby => used = {} /\ (pc = "apply" => part = 1)
    BY <2>1 DEF EssayOK, InEssays
  <2>5. QED
    BY <2>1, <2>2, <2>3, <2>4, EssaySame DEF InEssays, Before
<1>4. CASE FillParagraph \/ FillRemaining
  BY <1>4, ParagraphKeeps, RemainingKeeps
<1>5. CASE ParagraphsEnd
  <2>1. /\ UNCHANGED <<h, site, essay, pc, pass>> /\ part' = part + 1 /\ used' = {}
        /\ Part = "essays"
    BY <1>5 DEF ParagraphsEnd, setup, form, ledger
  <2>2. h = Ashby => part = 6 /\ part' = 7 /\ pc = "fill"
    BY <1>0, <2>1, AshbyPart, InParts
  <2>3. QED
    BY <2>1, <2>2, EssaySame DEF InEssays, Before
<1>6. CASE Absent \/ Keep \/ Look \/ Type \/ TypeFails
  <2>1. AtField /\ UNCHANGED <<h, site, essay, used, pass, pc, part>>
    BY <1>6 DEF Absent, Keep, Look, Type, TypeFails, setup, form, ledger
  <2>2. h = Ashby => ~InEssays
    BY <1>0, <2>1, AtFieldIs, AshbyPart DEF InEssays
  <2>3. ~InEssays => ~InEssays'
    BY <2>1 DEF InEssays
  <2>4. Before' = Before
    BY <2>1 DEF Before
  <2>5. h = Ashby => used = {} /\ (pc \in {"apply", "again"} => part = 1)
    BY <2>2 DEF EssayOK
  <2>6. QED
    BY <2>1, <2>2, <2>3, <2>4, <2>5, EssaySame
<1>7. CASE \/ TextEnds \/ NothingFailed \/ Upload \/ FillYesNoQuestions \/ FillRadioQuestions
           \/ FillWorkAuthorization \/ FillCustomFields \/ FillDemographics \/ FillConsent
           \/ SelectLocation
  <2>1. PartEnds /\ Part \notin {"essays", "rest", "none"} /\ UNCHANGED <<h, site, essay, used, pass>>
    <3>1. CASE TextEnds \/ NothingFailed \/ Upload \/ FillYesNoQuestions \/ FillRadioQuestions
      BY <3>1 DEF TextEnds, NothingFailed, Upload, FillYesNoQuestions, FillRadioQuestions,
         setup,
                  form, ledger
    <3>2. CASE FillWorkAuthorization \/ FillCustomFields \/ FillDemographics \/ FillConsent
               \/ SelectLocation
      <4>1. PICK p \in {"auth", "custom", "eeo", "consent", "place"},
                 s \in {"auth", "eeo", "consent", "place"} : Choose(p, s)
        BY <3>2 DEF FillWorkAuthorization, FillCustomFields, FillDemographics, FillConsent,
                    SelectLocation
      <4>2. PartEnds /\ Part = p /\ UNCHANGED <<h, site, essay, used, pass>>
        BY <4>1 DEF Choose, setup, ledger
      <4>3. QED
        BY <4>2
    <3>3. QED
      BY <1>7, <3>1, <3>2
  <2>2. part' = part + 1 /\ cur' = 1 /\ pc' = pc /\ pc = "fill"
    BY <2>1, InParts DEF PartEnds
  <2>3. h = Ashby => part <= 7 /\ part # 6 /\ part # 7
    BY <1>0, <2>1, <2>2, InParts, AshbyPart
  <2>4. h = Ashby => Before /\ used = {} /\ (Before' => Before)
    BY <1>0, <2>2, <2>3 DEF EssayOK, Before, InEssays
  <2>5. QED
    BY <2>1, <2>2, <2>4, EssaySame
<1>8. CASE Raise
  <2>1. /\ Labels /\ UNCHANGED <<h, site, essay, used, pass>>
        /\ \/ pc' = "done"
           \/ pc = "fill"
           \/ UNCHANGED <<pc, part>>
    BY <1>8, RaiseIs DEF PlaceOK, Finish, Enter, setup, form, ledger
  <2>2. h = Ashby => pc = "again"
    BY <1>0, <2>1, AshbyPart DEF Labels, ByConfidence
  <2>3. h = Ashby => used = {} /\ part = 1
    BY <2>2 DEF EssayOK, InEssays
  <2>4. h = Ashby => ~InEssays' /\ ~Before' /\ pc' \in {"done", "again"}
                     /\ (pc' = "again" => part' = 1)
    BY <2>1, <2>2, <2>3 DEF InEssays, Before
  <2>5. QED
    BY <2>1, <2>2, <2>3, <2>4, EssaySame
<1>9. CASE FillEnds
  <2>1. /\ UNCHANGED <<h, site, essay, used, pass>> /\ pc = "fill" /\ part > Len(h.parts)
        /\ \/ pc' = "next"
           \/ pc' = "again" /\ part' = 1
    BY <1>9 DEF FillEnds, Enter, HalfPass, setup, form, ledger
  <2>2. h = Ashby => ~InEssays
    <3>1. h = Ashby => Len(h.parts) = 7
      BY <1>0, AshbyPart
    <3>2. part > Len(h.parts) /\ part \in Nat
      BY <1>0, <2>1
    <3>3. \A n \in Nat : n > 7 => n # 6
      OBVIOUS
    <3>4. QED
      BY <3>1, <3>2, <3>3, Zenon DEF InEssays
  <2>3. h = Ashby => used = {}
    BY <2>2 DEF EssayOK
  <2>4. ~InEssays' /\ ~Before' /\ pc' # "fill" /\ (pc' \in {"apply", "again"} => part' = 1)
    BY <2>1 DEF InEssays, Before
  <2>5. QED
    BY <2>1, <2>3, <2>4, EssaySame
<1>10. CASE PrefillEnds
  <2>1. /\ UNCHANGED <<h, site, essay, used, part>> /\ pc = "again"
        /\ \/ pc' = "fill" /\ pass = 1 /\ pass' = 2
           \/ pc' = "done" /\ pass' = pass
    BY <1>10 DEF PrefillEnds, setup, form
  <2>2. h = Ashby => used = {} /\ part = 1 /\ part' = 1
    BY <2>1 DEF EssayOK, InEssays
  <2>3. h = Ashby => ~InEssays'
    BY <2>2 DEF InEssays
  <2>4. pc' = "done" => ~Before'
    BY DEF Before
  <2>5. QED
    BY <2>1, <2>2, <2>3, <2>4, EssaySame
<1>11. QED
  BY <1>2, <1>3, <1>4, <1>5, <1>6, <1>7, <1>8, <1>9, <1>10, Zenon DEF Next, Program, Fill

\* Two essays of a pass that ask for no link get the same text only on a form with
\* more essays than the resume has descriptions and the handler candidates.
THEOREM AnswersDiffer == Spec => []AnswersRepeatOnlyWhenSpent
<1>1. EssayOK => AnswersRepeatOnlyWhenSpent
  BY DEF EssayOK
<1>2. PlaceOK /\ EssayOK /\ [Next]_vars => PlaceOK' /\ EssayOK'
  BY PlaceStep, EssayStep
<1>3. QED
  BY PlaceInit, EssayInit, <1>1, <1>2, PTL DEF Spec

-----------------------------------------------------------------------------
(* The types                                                               *)

FormOK ==
  /\ select \in [Selects -> {"none", "ours", "human"}]
  /\ resume \in {"none", "uploaded", "parsed"}
  /\ results \in [Text \cup {"resume", "custom"} -> Marks]
  /\ overlay \in BOOLEAN
  /\ \A e \in Essays : essay[e].by \in {"none", "ours", "human"}

LEMMA NotesAre ==
  ASSUME FormOK, NEW k, NEW r \in Marks, Notes(k, r)
  PROVE  results' \in [Text \cup {"resume", "custom"} -> Marks]
BY DEF FormOK, Notes

LEMMA FormStep ==
  ASSUME PlaceOK, EssayOK, FormOK, [Next]_vars
  PROVE  FormOK'
<1>0. h.absent \in Marks /\ h.noFile \in Marks
  BY OurHandler DEF PlaceOK, Proper
<1>1. ASSUME UNCHANGED <<site, essay>>, overlay' \in {overlay, TRUE, FALSE},
             select' = select \/ select' \in [Selects -> {"none", "ours", "human"}],
             resume' \in {resume, "uploaded", "parsed"},
             results' = results \/ results' \in [Text \cup {"resume", "custom"} -> Marks]
      PROVE  FormOK'
  <2>1. overlay' \in BOOLEAN
    BY <1>1, Zenon DEF FormOK
  <2>2. QED
    BY <1>1, <2>1 DEF FormOK, Essays
<1>2. CASE UNCHANGED vars \/ Environment
  <2>1. UNCHANGED <<site, essay, select, results>> /\ overlay' \in {overlay, TRUE}
        /\ resume' \in {resume, "parsed"}
    BY <1>2 DEF vars, Environment, Land, Parse, Edit, Cover, setup, form, browser, filling
  <2>2. QED
    BY <1>1, <2>1
<1>3. CASE Navigation
  <2>1. UNCHANGED <<site, essay, results, resume>> /\ overlay' \in {overlay, FALSE}
    BY <1>3 DEF Navigation, Hit, HitLate, Intercepted, ToSuper, Round, GiveUp, WithoutList,
       Judge,
               AshbyClick, AshbyCovered, Check, Recheck, AshbyEnds, setup, form, browser, filling
  <2>2. CASE Check
    <3>1. select' = select \/ select' = [select EXCEPT !.place = "ours"]
      BY <2>2 DEF Check, Fix, FormOK
    <3>2. QED
      BY <1>1, <2>1, <3>1 DEF FormOK
  <2>3. CASE ~Check
    <3>1. UNCHANGED select
      BY <1>3, <2>3 DEF Navigation, Hit, HitLate, Intercepted, ToSuper, Round, GiveUp,
         WithoutList,
                        Judge, AshbyClick, AshbyCovered, Recheck, AshbyEnds, form
    <3>2. QED
      BY <1>1, <2>1, <3>1
  <2>4. QED
    BY <2>2, <2>3
<1>4. CASE Absent \/ Keep \/ Type \/ TypeFails \/ Upload
  <2>1. results' = results \/ \E k : \E r \in Marks : Notes(k, r)
    <3>1. "yes" \in Marks /\ "none" \in Marks
      BY DEF Marks
    <3>2. CASE Absent
      BY <1>0, <3>2 DEF Absent
    <3>3. CASE Keep \/ TypeFails
      BY <3>1, <3>3 DEF Keep, TypeFails, NoteUntouched
    <3>4. CASE Type
      BY <3>1, <3>4 DEF Type
    <3>5. CASE Upload
      BY <1>0, <3>1, <3>5 DEF Upload
    <3>6. QED
      BY <1>4, <3>2, <3>3, <3>4, <3>5
  <2>2. UNCHANGED <<site, essay, select, overlay>> /\ resume' \in {resume, "uploaded"}
    BY <1>4 DEF Absent, Keep, Type, TypeFails, Upload, setup, form, browser
  <2>3. QED
    BY <1>1, <2>1, <2>2, NotesAre
<1>5. CASE Look \/ Raise \/ TextEnds \/ NothingFailed \/ FillYesNoQuestions \/ FillRadioQuestions
           \/ ParagraphsEnd \/ FillEnds
  <2>1. UNCHANGED <<site, essay, select, overlay, resume, results>>
    BY <1>5 DEF Look, Raise, TextEnds, NothingFailed, FillYesNoQuestions, FillRadioQuestions,
               ParagraphsEnd, FillEnds, setup, form, browser
  <2>2. QED
    BY <1>1, <2>1
<1>6. CASE FillWorkAuthorization \/ FillCustomFields \/ FillDemographics \/ FillConsent
           \/ SelectLocation
  <2>1. PICK p \in {"auth", "custom", "eeo", "consent", "place"},
             s \in {"auth", "eeo", "consent", "place"} : Choose(p, s)
    BY <1>6 DEF FillWorkAuthorization, FillCustomFields, FillDemographics, FillConsent,
       SelectLocation
  <2>2. UNCHANGED <<site, essay, overlay, resume>>
    BY <2>1 DEF Choose, setup, browser
  <2>3. select' = select \/ select' = [select EXCEPT ![s] = "ours"]
    BY <2>1 DEF Choose, FormOK
  <2>4. results' = results \/ \E r \in Marks : Notes("custom", r)
    BY <2>1 DEF Choose, Marks
  <2>5. QED
    BY <1>1, <2>2, <2>3, <2>4, NotesAre DEF FormOK
<1>7. CASE FillParagraph \/ FillRemaining
  <2>1. UNCHANGED <<site, select, overlay, resume, results>>
    BY <1>7 DEF FillParagraph, FillRemaining, setup, browser
  <2>2. essay' = essay \/ \E e, text : Written(e, text)
    BY <1>7 DEF FillParagraph, FillRemaining
  <2>3. \A e \in Essays : essay'[e].by \in {essay[e].by, "ours"}
    BY <2>2 DEF Written, EssayOK
  <2>4. Essays' = Essays
    BY <2>1 DEF Essays
  <2>5. QED
    BY <2>1, <2>3, <2>4 DEF FormOK
<1>8. CASE PrefillEnds
  <2>1. UNCHANGED <<site, essay, select, overlay, resume>> /\ results' \in {results, Nothing}
    BY <1>8 DEF PrefillEnds, setup, form, browser
  <2>2. Nothing \in [Text \cup {"resume", "custom"} -> Marks]
    BY DEF Nothing, Marks
  <2>3. QED
    BY <1>1, <2>1, <2>2
<1>9. QED
  BY <1>2, <1>3, <1>4, <1>5, <1>6, <1>7, <1>8, Zenon DEF Next, Program, Fill

LEMMA FormInit == Init => FormOK
<1> SUFFICES ASSUME Init PROVE FormOK
  OBVIOUS
<1>1. /\ select = [s \in Selects |-> "none"] /\ resume = "none" /\ results = Nothing
      /\ overlay = FALSE /\ essay = [e \in Essays |-> Blank]
  BY DEF Init
<1>2. overlay \in BOOLEAN
  BY <1>1, Zenon
<1>3. results \in [Text \cup {"resume", "custom"} -> Marks]
  BY <1>1 DEF Nothing, Marks
<1>4. \A e \in Essays : essay[e].by = "none"
  BY <1>1 DEF Blank
<1>5. QED
  BY <1>1, <1>2, <1>3, <1>4 DEF FormOK

\* Every variable stays in its type, the ledgers of the site and of the
\* environment within their bounds.
THEOREM AtsFormTypes == Spec => []TypeOK
<1>1. PlaceOK /\ BrowserOK /\ TextOK /\ Answered /\ FormOK => TypeOK
  BY DEF PlaceOK, BrowserOK, TextOK, Answered, FormOK, TypeOK, Marks
<1>2. /\ PlaceOK /\ BrowserOK /\ SentOK /\ TextOK /\ Chosen /\ Answered /\ EssayOK /\ FormOK
      /\ [Next]_vars
      => (/\ PlaceOK /\ BrowserOK /\ SentOK /\ TextOK /\ Chosen /\ Answered /\ EssayOK /\ FormOK)'
  BY PlaceStep, BrowserStep, TextStep, ChosenStep, QuestionsStep, EssayStep, FormStep
<1>3. QED
  BY PlaceInit, BrowserInit, TextInit, QuestionsInit, EssayInit, FormInit, <1>1, <1>2, PTL
    DEF Spec
=============================================================================
