--------------------------- MODULE MCToolExecutor ---------------------------
EXTENDS ToolExecutor

\* "name" is found in "full name" too, and the title of the question that
\* comes first contains that of the other.
MCText       == {"name", "fullname"}
MCDropdowns  == {"country"}
MCQuestions  == {"work", "later"}
MCPlace      == [q \in MCQuestions |-> IF q = "later" THEN 1 ELSE 2]
MCAlike      == [f \in MCText \cup MCDropdowns |->
                   IF f = "name" THEN {"fullname"} ELSE {}]
MCTitleScore == [q \in MCQuestions |-> [p \in MCQuestions |->
                   IF p = q THEN 3 ELSE IF q = "work" THEN 2 ELSE 0]]

Page(legends, pairs, near, deletes, shows) ==
  [legends |-> legends, pairs |-> pairs, near |-> near, deletes |-> deletes, shows |-> shows]

\* Radio buttons or pairs with legends, both kinds on one page with and without
\* legends and with the questions together or apart.
MCLayouts == {
  Page(TRUE, {}, TRUE, TRUE, "files"), Page(TRUE, MCQuestions, TRUE, FALSE, "nothing"),
  Page(TRUE, {"later"}, TRUE, FALSE, "traces"), Page(FALSE, {}, TRUE, FALSE, "files"),
  Page(FALSE, {"work"}, FALSE, TRUE, "files") }
=============================================================================
