---------------------------- MODULE AshbyAnswers ----------------------------
(***************************************************************************)
(* What the Ashby handler answers without an LLM (ats/handlers/            *)
(* ashby_handler.py): Yes or No by the topic of a question, an option of a *)
(* radio group by its tier, a text for an essay by its topic.  A topic     *)
(* stands for the texts its patterns match; the tables are those of the    *)
(* module, the first rule that matches wins.                               *)
(***************************************************************************)
EXTENDS Integers, Sequences, SequencesExt

CONSTANTS
  Resume,      \* [sponsor, authorized, employed, demographics : BOOLEAN, descs : Seq of texts,
               \*  fits : for every description the topics whose words it has,
               \*  links : for labels of links and numbers their text, or ""]
  Fallbacks    \* the candidates of _default_experience_answer

\* The summary, or the line that stands in for one, is a text of its own.
ASSUME AnswersAssumption ==
  /\ {Resume.sponsor, Resume.authorized, Resume.employed, Resume.demographics} \subseteq BOOLEAN
  /\ Resume.descs \in Seq(STRING) /\ DOMAIN Resume.fits = ToSet(Resume.descs)
  /\ Fallbacks \in Seq(STRING) /\ Fallbacks # <<>>
  /\ "summary" \notin ToSet(Resume.descs) \cup ToSet(Fallbacks)

YesNo(b) == IF b THEN "Yes" ELSE "No"

\* The words that the Yes/No pass leaves to the user, and those of the radios.
ManualForPairs  == {"gender", "race", "veteran", "disability", "age"}
ManualForRadios == ManualForPairs \cup {"orientation"}

\* The table of Yes/No rules.
YesNoRules ==
  [sponsorship   |-> YesNo(Resume.sponsor),
   authorization |-> YesNo(Resume.authorized),
   employment    |-> YesNo(Resume.employed),
   relocation    |-> "No",
   remote        |-> "Yes",
   citizenship   |-> "Yes",
   clearance     |-> "No"]

\* Yes, No, or none; a topic without a rule is answered all the same.
ResolveYesNo(topic) ==
  IF topic = "transgender" THEN "No"
  ELSE IF topic \in ManualForPairs THEN "none"
  ELSE IF topic \in DOMAIN YesNoRules THEN YesNoRules[topic]
  ELSE IF topic = "felony" THEN "No"
  ELSE "Yes"

\* The first option of an expert tier, else the last one that is not a
\* beginner's, else the last one; an option is named by its tier.
ResolveRadio(options) ==
  LET Of(tiers) == SelectSeq(options, LAMBDA o : o \in tiers)
  IN IF Of({"expert"}) # <<>> THEN Head(Of({"expert"}))
     ELSE IF Of({"other"}) # <<>> THEN Last(Of({"other"}))
     ELSE Last(options)

\* The places of the texts that no essay of this pass has.
Free(texts, used) == {k \in DOMAIN texts : texts[k] \notin used}

\* _default_experience_answer: a description, a candidate, at last the first
\* candidate again.
DefaultAnswer(used) ==
  LET texts == Resume.descs \o Fallbacks
      free  == Free(texts, used)
  IN IF free = {} THEN Head(Fallbacks) ELSE texts[Min(free)]

\* The topics that take one description: the first that has their words, else
\* the first of all; the last one for a decision.
TakesOne == {"outcome", "project", "technical", "decision", "collaboration", "achievement"}

OneOf(topic, used) ==
  LET free == Free(Resume.descs, used)
      fit  == {k \in free : topic \in Resume.fits[Resume.descs[k]]}
  IN Resume.descs[IF topic = "decision" THEN Max(free) ELSE Min(IF fit # {} THEN fit ELSE free)]

\* The texts put together from the skills, the title and the first description,
\* by topic.
Composed == [product |-> "skills", motivation |-> "motivation", background |-> "background",
             skills |-> "skills"]

\* The text of an essay; "" when the label asks for a link or a number the
\* resume does not have.
ParagraphAnswer(topic, used) ==
  IF topic \in DOMAIN Resume.links THEN Resume.links[topic]
  ELSE IF topic \in TakesOne /\ Free(Resume.descs, used) # {} THEN OneOf(topic, used)
  ELSE IF topic \in DOMAIN Composed /\ Composed[topic] \notin used THEN Composed[topic]
  ELSE DefaultAnswer(used)
=============================================================================
