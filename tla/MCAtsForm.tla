----------------------------- MODULE MCAtsForm -----------------------------
(* All handlers on sites that differ from a plain one in one way each.     *)
EXTENDS AtsForm

MCResume ==
  [sponsor |-> FALSE, authorized |-> TRUE, employed |-> TRUE, demographics |-> TRUE,
   descs |-> <<"d1">>, fits |-> [d \in {"d1"} |-> {"outcome"}],
   links |-> [phone |-> "", github |-> "url"]]
MCFallbacks == <<"f1", "f2", "f3", "f4">>

Strong == [hits |-> {<<"name", "k1">>, <<"id", "k2">>}, exact |-> {<<"name", "k1">>},
           near |-> 0, kind |-> FALSE, auto |-> FALSE]
Auto   == [Strong EXCEPT !.hits = {}, !.exact = {}, !.auto = TRUE]
Weak   == [hits |-> {<<"label_text", "k1">>}, exact |-> {<<"label_text", "k1">>},
           near |-> 0, kind |-> FALSE, auto |-> FALSE]

Twice  == [Weak EXCEPT !.hits = @ \cup {<<"label_text", "k2">>}]

Personal == Text \ {"location"}
Plain ==
  [shown |-> Personal, own |-> Personal, look |-> [f \in Text |-> Strong], selects |-> {}, stiff |-> {},
   needs |-> Personal, later |-> FALSE, pages |-> 1, typedNext |-> FALSE, embedded |-> FALSE,
   file |-> TRUE, more |-> FALSE, lag |-> FALSE, slug |-> FALSE, questions |-> <<>>, essays |-> <<>>]
Steps == [Plain EXCEPT !.pages = 2, !.typedNext = TRUE, !.file = FALSE]

MCSites ==
  {Plain, Steps,
   [Plain EXCEPT !.shown = {"name", "location"}, !.own = {"name", "location"}, !.needs = {"name"},
      !.stiff = {"name"}],
   [Plain EXCEPT !.look["zip"] = Weak, !.own = {"name"}],
   [Plain EXCEPT !.look["name"] = Auto, !.look["zip"] = Twice, !.selects = Selects, !.stiff = {"zip"}],
   [Plain EXCEPT !.shown = {"name"}, !.own = {"name"}, !.needs = {}, !.embedded = TRUE, !.file = FALSE],
   [Plain EXCEPT !.lag = TRUE, !.more = TRUE, !.needs = {}],
   [Steps EXCEPT !.later = TRUE, !.slug = TRUE, !.needs = {"zip"}],
   [Steps EXCEPT !.typedNext = FALSE, !.lag = TRUE, !.more = TRUE],
   [Plain EXCEPT !.file = FALSE, !.embedded = TRUE,
      !.questions = <<[kind |-> "pair", topic |-> "race", reach |-> 1],
                      [kind |-> "radio", topic |-> "level", reach |-> 3,
                       options |-> <<"other", "expert", "beginner">>],
                      [kind |-> "pair", topic |-> "veteran", reach |-> 3]>>],
   [Plain EXCEPT !.file = FALSE, !.essays = <<"phone", "github", "outcome", "skills", "plain">>]}

MCStarts ==
  {[f \in Text |-> "empty"], [f \in Text |-> IF f = "zip" THEN "human" ELSE "empty"],
   [f \in Text |-> IF f = "location" THEN "human" ELSE "empty"],
   [f \in Text |-> IF f = "name" THEN "parsed" ELSE "empty"]}
=============================================================================
