------------------------------- MODULE Dialog -------------------------------
(***************************************************************************)
(* The dialogue engine of MarusiaWorker (Modules/Worker/WorkerM.cpp):      *)
(* setDbInfo, __analizeRequest and what they call.  A command is the set   *)
(* of the key words found in it; texts are named by what they say.         *)
(* Dialogues are kept by the address that comes with a request, which is   *)
(* the HTTPS server's own, at which the station called.                    *)
(***************************************************************************)
EXTENDS Naturals, Sequences

CONSTANTS Stations,
          LocalEndpoint, \* station -> the address of the server it calls
          Malformed,    \* a body that is no JSON, or lacks a field that is read
          Commands,     \* the commands stations give, sets of key words
          YesWords,     \* the words in which "да" occurs
          Phrases,      \* StaticPhrases: [key, response], in table order
          DirectionKeys, GroupKeys, ProfessorKeys, DayKeys, \* likewise
          Preparation,  \* DirectionOfPreparation: its rows, field -> text
          Scheduled,    \* the names Schedule.json has classes for
          Loads         \* the sets of tables that a load may bring

DirectionTypes == {"number_of_places", "min_score"}
FactTypes == {"university_fact", "interesting_fact"}
ResponseTypes == DirectionTypes \cup FactTypes \cup
    {"presentation", "opportunities", "group_classes_now", "group_classes_future",
     "professor_classes_now", "professor_classes_future"}

(* DataBase.db names no response type the worker does not know. *)
ASSUME PhrasesAssumption ==
    /\ Phrases \in Seq([key : STRING, response : ResponseTypes])

ASSUME RequestAssumption == Malformed \notin Commands

KeyTables == {"StaticPhrases", "ProfessorsName", "GroupsName", "DaysWeek", "Directions"}
TableNames == KeyTables \cup {"DirectionOfPreparation", "InterestingFact", "UniversityFact"}

ASSUME LoadsAssumption == Loads \subseteq SUBSET TableNames

VARIABLES up,       \* the process runs
          tables,   \* the tables the worker holds (none of them is empty)
          dialog,   \* __active_dialog_sessions: address -> (type, step)
          told,     \* the last answer that was given at each address
          listener, \* whom it was given to: nobody yet, or one station
          silent    \* stations whose last request was not answered

vars == <<up, tables, dialog, told, listener, silent>>

(* station_ip is local_endpoint() of the accepted socket, not the peer's.  *)
Key(st) == LocalEndpoint[st]
Addresses == {Key(st) : st \in Stations}

None == [type |-> "none", step |-> 0]
Dialogs == {None} \cup [type : DirectionTypes, step : 0..2]
                  \cup [type : FactTypes, step : 0..1]

AnswerKinds == {"nothing", "presentation", "opportunities", "fact", "which_direction",
                "no_direction", "unknown_error", "answer", "what_else", "no_group",
                "no_day", "schedule", "schedule_lost", "unknown_command"}

-----------------------------------------------------------------------------
(* Looking things up. *)

(* ClientDB stores what boost::json::serialize makes of a value, in quotes; *)
(* __parseKeyWords strips them, __findDataInTable compares as it is.        *)
Serialized(text) == [text |-> text, quoted |-> TRUE]
Stripped(value) == [value EXCEPT !.quoted = FALSE]

Nothing == ""

FirstHit(keys, command, i) ==
    /\ keys[i].key \in command
    /\ \A j \in DOMAIN keys : j < i => keys[j].key \notin command

FindVariant(keys, table, command) ==
    IF table \in tables /\ \E i \in DOMAIN keys : FirstHit(keys, command, i)
    THEN keys[CHOOSE i \in DOMAIN keys : FirstHit(keys, command, i)].response
    ELSE Nothing

(* Whether __findDataInTable finds a non-empty result. *)
Found(target, field) ==
    /\ "DirectionOfPreparation" \in tables
    /\ \E i \in DOMAIN Preparation :
          /\ Serialized(Preparation[i]["direction"]) = Stripped(Serialized(target))
          /\ field \in DOMAIN Preparation[i]

SaysYes(command) == command \cap YesWords # {}

(* ScheduleManager::getSchedule, which takes the day and tells of all days. *)
GetSchedule(target, day) == IF target \in Scheduled THEN "schedule" ELSE "schedule_lost"

FindSchedule(keys, table, command) ==
    LET target == FindVariant(keys, table, command)
        day == FindVariant(DayKeys, "DaysWeek", command)
    IN  CASE target = Nothing -> "no_group"
          [] target # Nothing /\ day = Nothing -> "no_day"
          [] target # Nothing /\ day # Nothing -> GetSchedule(target, day)

-----------------------------------------------------------------------------
Init ==
    /\ up = TRUE
    /\ tables = {}
    /\ dialog = [a \in Addresses |-> None]
    /\ told = [a \in Addresses |-> "nothing"]
    /\ listener = [a \in Addresses |-> {}]
    /\ silent = {}

(* setDbInfo: the tables are replaced by those of the answer, whatever is  *)
(* missing; parsing the key words of a missing one ends the process.        *)
SetDbInfo(data) ==
    /\ up
    /\ tables' = data
    /\ up' = (KeyTables \subseteq data)
    /\ UNCHANGED <<dialog, told, listener, silent>>

(* Mutant of Cleared: a dialogue at its first step counts as over. *)
ClearedTooMuch == [a \in Addresses |-> IF dialog[a].step <= 1 THEN None ELSE dialog[a]]

(* __clearZombieSessions. *)
Cleared == [a \in Addresses |-> IF dialog[a].step = 0 THEN None ELSE dialog[a]]

Answer(st, answer) ==
    /\ told' = [told EXCEPT ![Key(st)] = answer]
    /\ listener' = [listener EXCEPT ![Key(st)] = {st}]
    /\ silent' = silent \ {st}

(* Mutant of Leave: the dialogues at other addresses are dropped. *)
LeaveAlone(st, d, answer) ==
    /\ dialog' = [a \in Addresses |-> IF a = Key(st) THEN d ELSE None]
    /\ Answer(st, answer)

Leave(st, d, answer) ==
    /\ dialog' = [Cleared EXCEPT ![Key(st)] = d]
    /\ Answer(st, answer)

(* An exception leaves the handler before an answer is written. *)
Throw(st) ==
    /\ dialog' = Cleared
    /\ silent' = silent \cup {st}
    /\ UNCHANGED <<told, listener>>

Field(type) == IF type = "number_of_places" THEN "number_of_budget_posiitons"
                                            ELSE "minimum_score"

(* __dialogSessionsStep for number_of_places and min_score. *)
DirectionStep(st, command) ==
    LET d == dialog[Key(st)]
        direction == FindVariant(DirectionKeys, "Directions", command)
        To(step) == [d EXCEPT !.step = step]
    IN  /\ d.type \in DirectionTypes
        /\ CASE d.step = 1 /\ direction = Nothing ->
                  Leave(st, d, "no_direction")
             [] d.step = 1 /\ direction # Nothing /\ ~ Found(direction, Field(d.type)) ->
                  Leave(st, To(0), "unknown_error")
             [] d.step = 1 /\ direction # Nothing /\ Found(direction, Field(d.type)) ->
                  Leave(st, To(d.step + 1), "answer")
             [] d.step = 2 /\ SaysYes(command) ->
                  Leave(st, To(d.step - 1), "which_direction")
             [] d.step = 2 /\ ~ SaysYes(command) ->
                  Leave(st, To(0), "what_else")

FactTable(type) == IF type = "university_fact" THEN "UniversityFact" ELSE "InterestingFact"

(* Mutants of FactStep: a told fact counts as a step; a no is not answered. *)
FactStepCounts(st, command) ==
    LET d == dialog[Key(st)]
    IN  /\ d.type \in FactTypes
        /\ IF SaysYes(command) THEN Leave(st, [d EXCEPT !.step = @ + 1], "fact")
                               ELSE Leave(st, [d EXCEPT !.step = 0], "what_else")

FactStepIgnoresNo(st, command) ==
    LET d == dialog[Key(st)]
    IN  /\ d.type \in FactTypes
        /\ IF SaysYes(command) THEN Leave(st, d, "fact") ELSE Throw(st)

(* __dialogSessionsStep for the facts: both types look at the size of the  *)
(* university's table first.                                               *)
FactStep(st, command) ==
    LET d == dialog[Key(st)]
    IN  /\ d.type \in FactTypes
        /\ \/ /\ ~ SaysYes(command)
              /\ Leave(st, [d EXCEPT !.step = 0], "what_else")
           \/ /\ SaysYes(command) /\ {"UniversityFact", FactTable(d.type)} \subseteq tables
              /\ Leave(st, d, "fact")
           \/ /\ SaysYes(command) /\ ~ {"UniversityFact", FactTable(d.type)} \subseteq tables
              /\ Throw(st)

(* __responseTypeAnalize, and the answer to a command that is not known. *)
Respond(st, command) ==
    LET type == FindVariant(Phrases, "StaticPhrases", command)
        Begin == [type |-> type, step |-> 1]
    IN  \/ /\ type = Nothing
           /\ Leave(st, None, "unknown_command")
        \/ /\ type \in {"presentation", "opportunities"}
           /\ Leave(st, None, type)
        \/ /\ type \in FactTypes /\ FactTable(type) \in tables
           /\ Leave(st, Begin, "fact")
        \/ /\ type \in FactTypes /\ FactTable(type) \notin tables
           /\ Throw(st)
        \/ /\ type \in DirectionTypes
           /\ Leave(st, Begin, "which_direction")
        \/ /\ type \in {"group_classes_now", "group_classes_future"}
           /\ Leave(st, None, FindSchedule(GroupKeys, "GroupsName", command))
        \/ /\ type \in {"professor_classes_now", "professor_classes_future"}
           /\ Leave(st, None, FindSchedule(ProfessorKeys, "ProfessorsName", command))

(* __analizeRequest.  Nothing checks a request before: the HTTPS server's  *)
(* validation is commented out.                                            *)
AnalizeRequest(st, request) ==
    /\ up
    /\ \/ /\ request = Malformed
          /\ Throw(st)
       \/ /\ request # Malformed /\ Cleared[Key(st)] # None
          /\ DirectionStep(st, request) \/ FactStep(st, request)
       \/ /\ request # Malformed /\ Cleared[Key(st)] = None
          /\ Respond(st, request)
    /\ UNCHANGED <<up, tables>>

Next ==
    \/ \E data \in Loads : SetDbInfo(data)
    \/ \E st \in Stations, request \in Commands \cup {Malformed} : AnalizeRequest(st, request)

Spec == Init /\ [][Next]_vars

-----------------------------------------------------------------------------
(* Properties. *)

(* The engine's variables have their types; in particular no dialogue has  *)
(* a step its type does not know, which no branch would answer.            *)
TypeOK ==
    /\ up \in BOOLEAN
    /\ tables \subseteq TableNames
    /\ dialog \in [Addresses -> Dialogs]
    /\ told \in [Addresses -> AnswerKinds]
    /\ listener \in [Addresses -> SUBSET Stations]
    /\ silent \subseteq Stations

(* What this worker last said at an address fits what it will take the     *)
(* next words from there for, whichever of the address's stations says     *)
(* them: it looks for a direction exactly when the last answer it gave     *)
(* asks for one, and listens for a yes exactly when it offers more.  (A    *)
(* station may have been told something else since by another worker.)     *)
Expects(d) == CASE d.step = 0 -> AnswerKinds \ {"which_direction", "no_direction", "answer", "fact"}
                [] d.step = 1 /\ d.type \in DirectionTypes -> {"which_direction", "no_direction"}
                [] d.step = 2 -> {"answer"}
                [] d.step = 1 /\ d.type \in FactTypes -> {"fact"}
PromptFitsState == \A a \in Addresses : told[a] \in Expects(dialog[a])

(* A request that can be read is left without an answer only for want of a *)
(* table of facts: whatever dialogue it finds at its address, finished or  *)
(* begun by another station, and after any reload of the tables, the        *)
(* handler does not fall through or throw.  A malformed one throws.         *)
SilentForWantOfFacts ==
    [][\A st \in Stations, command \in Commands :
          /\ {"UniversityFact", "InterestingFact"} \subseteq tables
          /\ AnalizeRequest(st, command)
          => st \notin silent']_vars

(* The engine implements one conversation for each address: a request      *)
(* moves that of the address it came to and no other, as its last prompt   *)
(* announced, and finished dialogues that still wait for                    *)
(* __clearZombieSessions count as over.                                    *)
Mode(d) == CASE d.step = 0 -> "idle"
             [] d.step = 2 -> "again"
             [] d.step = 1 /\ d.type \in DirectionTypes -> "direction"
             [] d.step = 1 /\ d.type \in FactTypes -> "facts"

C == INSTANCE Conversation WITH mode <- [a \in Addresses |-> Mode(dialog[a])]
ImplementsConversation == C!Spec

-----------------------------------------------------------------------------
(* What the skill says of itself. *)

Complete == tables = TableNames

(* Opportunities.json: the number of places and the passing score of a     *)
(* direction are told to a station that names one when it is asked to.      *)
DirectionIsTold ==
    [][\A st \in Stations, command \in Commands :
          /\ Complete /\ dialog[Key(st)].type \in DirectionTypes /\ dialog[Key(st)].step = 1
          /\ FindVariant(DirectionKeys, "Directions", command) # Nothing
          /\ AnalizeRequest(st, command)
          => told'[Key(st)] = "answer"]_vars

(* HTTPSServer.cpp names the address of a request the client's: a station's *)
(* words are the next step of a dialogue only if that station was told its  *)
(* last prompt.                                                             *)
OwnWords ==
    [][\A st \in Stations, command \in Commands :
          AnalizeRequest(st, command) /\ Cleared[Key(st)] # None =>
              listener[Key(st)] = {st}]_vars

(* Incomplete data from the database are refused, as setDbInfo logs. *)
IncompleteIsRefused ==
    [][\A data \in Loads :
          SetDbInfo(data) /\ data # TableNames => UNCHANGED <<up, tables>>]_vars
=============================================================================
