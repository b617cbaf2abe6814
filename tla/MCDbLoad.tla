------------------------------ MODULE MCDbLoad ------------------------------
(* Instances of DbLoad for TLC. *)
EXTENDS DbLoad

(* The tables of facts have the same fields, the others their own. *)
FourTables == <<"interesting", "university", "phrases", "directions">>
ThreeTables == <<"interesting", "directions", "university">>
TwoTables == <<"interesting", "university">>
FieldsOf(table) == CASE table = "directions" -> {"direction", "minimum_score"}
                     [] table = "phrases" -> {"key_words", "response"}
                     [] OTHER -> {"fact"}
FourFields == [t \in Range(FourTables) |-> FieldsOf(t)]
ThreeFields == [t \in Range(ThreeTables) |-> FieldsOf(t)]
TwoFields == [t \in Range(TwoTables) |-> FieldsOf(t)]
=============================================================================
