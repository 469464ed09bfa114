----------------------------- MODULE MCFormRows -----------------------------
(* Two jobs, the first without a date, two schools and a certification, on *)
(* sites that differ from a plain one in one way or two.                   *)
EXTENDS FormRows

MCResume == [work |-> <<"job1", "job2">>, school |-> <<"school1", "school2">>, certs |-> <<"cert">>]
MCHas == [e \in {"job1", "job2", "school1", "school2", "cert"} |->
            IF e \in {"job1", "cert"} THEN {"name"} ELSE {"name", "date"}]

Bare == [s \in Sections |-> <<>>]
Plain ==
  [order |-> <<"work", "school", "certs">>, given |-> Bare, adds |-> Sections, room |-> 4,
   another |-> FALSE, wide |-> FALSE, late |-> FALSE, shared |-> FALSE, save |-> "none",
   combo |-> {}, byLabel |-> FALSE, parses |-> {}, dialog |-> FALSE, autofill |-> FALSE,
   manual |-> FALSE, sticky |-> FALSE, upload |-> FALSE, stuck |-> FALSE, reviewNext |-> FALSE,
   plainUrl |-> FALSE]
Dialog == [Plain EXCEPT !.dialog = TRUE, !.autofill = TRUE, !.manual = TRUE, !.upload = TRUE,
                        !.parses = {"work", "school"}]

MCSites ==
  {Plain,
   [Plain EXCEPT !.order = <<"school", "work">>, !.save = "save", !.shared = TRUE, !.another = TRUE],
   [Plain EXCEPT !.order = <<"school", "work">>, !.adds = {"work", "school"}, !.save = "save"],
   [Plain EXCEPT !.order = <<"work", "school">>, !.save = "both", !.late = TRUE],
   [Plain EXCEPT !.wide = TRUE, !.save = "page", !.another = TRUE],
   [Plain EXCEPT !.order = <<"work">>, !.adds = {}, !.given = [Bare EXCEPT !.work = <<"none">>], !.stuck = TRUE],
   [Plain EXCEPT !.given = [Bare EXCEPT !.work = <<"parsed">>, !.school = <<"empty">>], !.room = 2,
                 !.combo = {"name", "date"}, !.reviewNext = TRUE, !.plainUrl = TRUE],
   [Plain EXCEPT !.byLabel = TRUE, !.another = TRUE],
   Dialog,
   [Dialog EXCEPT !.sticky = TRUE, !.byLabel = TRUE],
   [Dialog EXCEPT !.sticky = TRUE, !.manual = FALSE],
   [Dialog EXCEPT !.upload = FALSE, !.manual = FALSE],
   [Dialog EXCEPT !.autofill = FALSE, !.manual = FALSE]}
=============================================================================
