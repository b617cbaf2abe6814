------------------------------ MODULE MCDialog ------------------------------
(* An instance of Dialog for TLC: three stations, two of which call the  *)
(* same address of the server; one or two rows a table.                    *)
EXTENDS Dialog

CONSTANTS here, there, elsewhere

ThreeStations == {here, there, elsewhere}
MCLocalEndpoint == [st \in ThreeStations |-> IF st = elsewhere THEN "wifi" ELSE "lan"]
Row(k, r) == [key |-> k, response |-> r]
MCPhrases == << Row("teacher", "professor_classes_now"), Row("class", "group_classes_now"),
                Row("score", "min_score"), Row("places", "number_of_places"),
                Row("interesting", "interesting_fact"), Row("university", "university_fact"),
                Row("present", "presentation") >>
MCDirections == << Row("computing", "09.03.01"), Row("systems", "09.03.02") >>
MCGroups == << Row("group one", "g1"), Row("group two", "g2") >>
MCProfessors == << Row("smith", "smith") >>
MCDayKeys == << Row("monday", "monday"), Row("tuesday", "tuesday") >>
MCPreparation ==
    << [direction |-> "09.03.01", number_of_budget_positions |-> "20", minimum_score |-> "190"],
       [direction |-> "09.03.02", number_of_budget_positions |-> "25", minimum_score |-> "200"] >>
(* "преподаватель" (teacher) contains "да" (yes). *)
MCYesWords == {"yes", "teacher"}
MCCommands ==
    { {}, {"yes"}, {"no"}, {"score"}, {"places"}, {"university"}, {"interesting"},
      {"interesting", "university"}, {"present"}, {"computing"}, {"score", "systems"},
      {"class"}, {"class", "group one"}, {"class", "group one", "monday"},
      {"class", "group two", "tuesday"}, {"teacher", "smith", "monday"}, {"teacher"} }
MCScheduled == {"g1", "smith"}
(* All tables, any of those no key words are parsed from missing, one of   *)
(* the others missing, or nothing at all.                                  *)
MCLoads == {TableNames \ gone : gone \in SUBSET (TableNames \ KeyTables)}
    \cup {TableNames \ {t} : t \in KeyTables} \cup {{}}
=============================================================================
