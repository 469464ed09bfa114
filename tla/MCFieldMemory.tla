---------------------------- MODULE MCFieldMemory ----------------------------
(* FieldMemory for one question on one ATS and on the unknown ones.          *)
EXTENDS FieldMemory

Answer(v, src, s, f, c) ==
  [value |-> v, source |-> src, success |-> s, failure |-> f, confidence |-> c]

NoResume == [q \in Labels |-> NoValue]

\* A row from before the confidence column.
OldRows == {Answer(v, "human", 2, 0, <<0, 1>>) : v \in {CHOOSE v \in Values : TRUE}}

\* The server aggregates: one strong answer, and a weak one whose confidence
\* it weighs otherwise than by the counts.
Downloads == {Answer(v, "auto", 4, 1, <<4, 5>>) : v \in Values}
             \cup {Answer(CHOOSE v \in Values : TRUE, "auto", 1, 0, <<9, 10>>)}
=============================================================================
