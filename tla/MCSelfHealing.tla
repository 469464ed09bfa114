--------------------------- MODULE MCSelfHealing ---------------------------
(* Two sessions, one field and the submit button.                          *)
EXTENDS SelfHealing

OneField == <<"name", "submit">>
ItsName  == [f \in Fields |-> {f} \ {"submit"}]
AnotherField == [f \in Fields |-> {"other"} \ {f}]
Symmetry == Permutations(Sessions)
=============================================================================
