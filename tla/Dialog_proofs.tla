---------------------------- MODULE Dialog_proofs ----------------------------
(***************************************************************************)
(* For any stations, commands and tables: the type invariant of the        *)
(* dialogue engine, that what was last said at an address fits what the    *)
(* engine expects from there, and that it implements Conversation.         *)
(***************************************************************************)
EXTENDS Dialog, TLAPS

Inv == TypeOK /\ PromptFitsState

-----------------------------------------------------------------------------
(* Lookups and answers. *)

(* What the table of phrases yields is a type the engine knows. *)
LEMMA PhraseType ==
    ASSUME NEW command
    PROVE  FindVariant(Phrases, "StaticPhrases", command) \in ResponseTypes \cup {Nothing}
<1> DEFINE Hit(i) == FirstHit(Phrases, command, i)
<1>1. ASSUME NEW i \in DOMAIN Phrases PROVE Phrases[i].response \in ResponseTypes
  <2> DEFINE R == [key : STRING, response : ResponseTypes]
  <2>1. Phrases \in Seq(R)
    BY PhrasesAssumption DEF PhrasesAssumption
  <2> HIDE DEF R
  <2>2. Phrases[i] \in R
    BY <2>1
  <2> QED
    BY <2>2 DEF R
<1>2. CASE \E i \in DOMAIN Phrases : Hit(i)
  <2>1. (CHOOSE i \in DOMAIN Phrases : Hit(i)) \in DOMAIN Phrases
    BY <1>2
  <2> QED
    BY <1>1, <2>1 DEF FindVariant
<1>3. CASE ~ \E i \in DOMAIN Phrases : Hit(i)
  BY <1>3 DEF FindVariant
<1> QED
  BY <1>2, <1>3

LEMMA ScheduleType ==
    ASSUME NEW keys, NEW table, NEW command
    PROVE  /\ FindSchedule(keys, table, command) \in AnswerKinds
           /\ FindSchedule(keys, table, command) \in Expects(None)
<1>1. {"no_group", "no_day", "schedule", "schedule_lost"} \subseteq AnswerKinds
  BY DEF AnswerKinds
<1>2. \A target, day : /\ GetSchedule(target, day) \in AnswerKinds
                       /\ GetSchedule(target, day) \in {"schedule", "schedule_lost"}
  BY <1>1 DEF GetSchedule, AnswerKinds
<1>3. /\ FindSchedule(keys, table, command) \in AnswerKinds
      /\ FindSchedule(keys, table, command) \in {"no_group", "no_day", "schedule", "schedule_lost"}
  <2> DEFINE target == FindVariant(keys, table, command)
             day == FindVariant(DayKeys, "DaysWeek", command)
  <2>1. CASE target = Nothing
    BY <1>1, <2>1 DEF FindSchedule, AnswerKinds
  <2>2. CASE target # Nothing /\ day = Nothing
    BY <1>1, <2>2 DEF FindSchedule, AnswerKinds
  <2>3. CASE target # Nothing /\ day # Nothing
    <3>1. FindSchedule(keys, table, command) = GetSchedule(target, day)
      BY <2>3 DEF FindSchedule
    <3> QED
      BY <1>2, <3>1
  <2> QED
    BY <2>1, <2>2, <2>3
<1> QED
  BY <1>1, <1>3 DEF Expects, None, AnswerKinds

-----------------------------------------------------------------------------
(* The two ways a request can end. *)

(* What the modes and the expected answers are, by step and type. *)
LEMMA ModeOf ==
    ASSUME NEW d
    PROVE  /\ d.step = 0 => Mode(d) = "idle"
           /\ d.step = 2 => Mode(d) = "again"
           /\ d.step = 1 /\ d.type \in DirectionTypes => Mode(d) = "direction"
<1>1. \A type \in DirectionTypes : type \notin FactTypes
  BY DEF DirectionTypes, FactTypes
<1> QED
  BY <1>1 DEF Mode

LEMMA DirectionExpects ==
    ASSUME NEW d, d.step = 1, d.type \in DirectionTypes
    PROVE  Expects(d) = {"which_direction", "no_direction"}
<1>1. d.type \notin FactTypes
  BY DEF DirectionTypes, FactTypes
<1> QED
  BY <1>1 DEF Expects

LEMMA KeyType ==
    ASSUME NEW st \in Stations
    PROVE  Key(st) \in Addresses
BY DEF Addresses

LEMMA ClearedKeeps ==
    ASSUME Inv
    PROVE  /\ Cleared \in [Addresses -> Dialogs]
           /\ \A a \in Addresses : /\ told[a] \in Expects(Cleared[a])
                                   /\ Mode(Cleared[a]) = Mode(dialog[a])
<1>1. None \in Dialogs /\ None.step = 0
  BY DEF None, Dialogs
<1>2. Cleared \in [Addresses -> Dialogs]
  BY <1>1 DEF Cleared, Inv, TypeOK
<1>3. ASSUME NEW a \in Addresses
      PROVE  told[a] \in Expects(Cleared[a]) /\ Mode(Cleared[a]) = Mode(dialog[a])
  <2>1. told[a] \in Expects(dialog[a])
    BY DEF Inv, PromptFitsState
  <2>2. CASE dialog[a].step = 0
    <3>1. Cleared[a] = None
      BY <2>2 DEF Cleared
    <3>2. Expects(dialog[a]) = Expects(None) /\ Mode(None) = "idle" /\ Mode(dialog[a]) = "idle"
      BY <1>1, <2>2 DEF Expects, Mode
    <3> QED
      BY <2>1, <3>1, <3>2
  <2>3. CASE dialog[a].step # 0
    <3>1. Cleared[a] = dialog[a]
      BY <2>3 DEF Cleared
    <3> QED
      BY <2>1, <3>1
  <2> QED
    BY <2>2, <2>3
<1> QED
  BY <1>2, <1>3

LEMMA LeaveStep ==
    ASSUME Inv, NEW st \in Stations, NEW d \in Dialogs, NEW answer \in AnswerKinds,
           answer \in Expects(d), UNCHANGED <<up, tables>>, Leave(st, d, answer)
    PROVE  Inv'
<1>1. Cleared \in [Addresses -> Dialogs]
  BY ClearedKeeps
<1> DEFINE key == Key(st)
<1>2. key \in Addresses /\ dialog' = [Cleared EXCEPT ![key] = d]
      /\ told' = [told EXCEPT ![key] = answer] /\ listener' = [listener EXCEPT ![key] = {st}]
      /\ silent' = silent \ {st}
  BY KeyType DEF Leave, Answer
<1>3. told \in [Addresses -> AnswerKinds] /\ listener \in [Addresses -> SUBSET Stations]
  BY DEF Inv, TypeOK, AnswerKinds
<1> HIDE DEF key
<1>4. TypeOK'
  <2>1. told' \in [Addresses -> AnswerKinds] /\ listener' \in [Addresses -> SUBSET Stations]
    BY <1>2, <1>3
  <2>2. dialog' \in [Addresses -> Dialogs]
    BY <1>1, <1>2
  <2> QED
    BY <1>2, <2>1, <2>2 DEF Inv, TypeOK, AnswerKinds
<1>5. ASSUME NEW a \in Addresses PROVE told'[a] \in Expects(dialog'[a])
  <2>1. CASE a = key
    BY <1>1, <1>2, <1>3, <2>1
  <2>2. CASE a # key
    <3>1. told'[a] = told[a] /\ dialog'[a] = Cleared[a]
      BY <1>1, <1>2, <1>3, <2>2
    <3> QED
      BY <3>1, ClearedKeeps
  <2> QED
    BY <2>1, <2>2
<1> QED
  BY <1>4, <1>5 DEF Inv, PromptFitsState, Expects

LEMMA ThrowStep ==
    ASSUME Inv, NEW st \in Stations, UNCHANGED <<up, tables>>, Throw(st)
    PROVE  Inv'
<1>1. TypeOK'
  BY ClearedKeeps DEF Inv, TypeOK, Throw
<1>2. \A a \in Addresses : told'[a] \in Expects(dialog'[a])
  BY ClearedKeeps DEF Throw
<1> QED
  BY <1>1, <1>2 DEF Inv, PromptFitsState, Expects

-----------------------------------------------------------------------------
(* Every way through __analizeRequest is a Leave that the next words from  *)
(* the address will fit, or a Throw.                                       *)

LEMMA DirectionLeaves ==
    ASSUME Inv, NEW st \in Stations, NEW command, dialog[Key(st)].step # 0,
           DirectionStep(st, command)
    PROVE  \E d \in Dialogs, answer \in AnswerKinds :
              /\ answer \in Expects(d) /\ Leave(st, d, answer)
              /\ Mode(d) \in C!Follows(Mode(dialog[Key(st)]))
<1> DEFINE d == dialog[Key(st)]
           direction == FindVariant(DirectionKeys, "Directions", command)
           found == Found(direction, Field(d.type))
           To(step) == [d EXCEPT !.step = step]
<1>1. d \in [type : DirectionTypes, step : 0..2] /\ d.step \in {1, 2}
  <2>1. d \in Dialogs /\ d.type \in DirectionTypes
    BY KeyType DEF Inv, TypeOK, DirectionStep
  <2> HIDE DEF d
  <2> QED
    BY <2>1 DEF Dialogs, None, DirectionTypes, FactTypes, d
<1>2. \A step \in 0..2 : To(step) \in Dialogs /\ To(step).step = step /\ To(step).type = d.type
  <2> HIDE DEF d
  <2> QED
    BY <1>1 DEF Dialogs
<1>3. d.type \in DirectionTypes /\ d \in Dialogs
  BY <1>1 DEF Dialogs
<1>4. \/ d.step = 1 /\ direction = Nothing /\ Leave(st, d, "no_direction")
      \/ d.step = 1 /\ Leave(st, To(0), "unknown_error")
      \/ d.step = 1 /\ Leave(st, To(d.step + 1), "answer")
      \/ d.step = 2 /\ Leave(st, To(d.step - 1), "which_direction")
      \/ d.step = 2 /\ Leave(st, To(0), "what_else")
  BY <1>1 DEF DirectionStep
<1>5. {"no_direction", "unknown_error", "answer", "which_direction", "what_else"} \subseteq AnswerKinds
  BY DEF AnswerKinds
<1>6. /\ To(0) \in Dialogs /\ To(1) \in Dialogs /\ To(2) \in Dialogs
       /\ To(0).step = 0 /\ To(1).step = 1 /\ To(2).step = 2
       /\ To(1).type \in DirectionTypes
  <2> HIDE DEF To
  <2> QED
    BY <1>2, <1>3
<1>7. \/ d.step = 1 /\ direction = Nothing /\ Leave(st, d, "no_direction")
      \/ d.step = 1 /\ Leave(st, To(0), "unknown_error")
      \/ d.step = 1 /\ Leave(st, To(2), "answer")
      \/ d.step = 2 /\ Leave(st, To(1), "which_direction")
      \/ d.step = 2 /\ Leave(st, To(0), "what_else")
  <2> HIDE DEF To
  <2> QED
    BY <1>4
<1> HIDE DEF d, To
<1>8. CASE d.step = 1 /\ Leave(st, d, "no_direction")
  <2>1. "no_direction" \in AnswerKinds /\ "no_direction" \in Expects(d)
    BY <1>3, <1>5, <1>8, DirectionExpects DEF AnswerKinds
  <2>2. Mode(d) \in C!Follows(Mode(d))
    BY <1>3, <1>8, ModeOf DEF C!Follows
  <2> QED
    BY <1>3, <1>8, <2>1, <2>2 DEF d
<1>9. CASE d.step \in {1, 2} /\ \E kind \in {"unknown_error", "what_else"} : Leave(st, To(0), kind)
  <2>1. PICK kind \in {"unknown_error", "what_else"} : Leave(st, To(0), kind)
    BY <1>9
  <2>2. kind \in AnswerKinds /\ kind \in Expects(To(0))
    BY <1>6, <1>5, <2>1 DEF Expects, AnswerKinds
  <2>3. Mode(To(0)) = "idle" /\ Mode(d) \in {"direction", "again"}
    BY <1>6, <1>3, <1>9, ModeOf
  <2>4. Mode(To(0)) \in C!Follows(Mode(d))
    BY <2>3 DEF C!Follows
  <2> QED
    BY <1>6, <2>1, <2>2, <2>4 DEF d
<1>10. CASE d.step = 1 /\ Leave(st, To(2), "answer")
  <2>1. "answer" \in AnswerKinds /\ "answer" \in Expects(To(2))
    BY <1>6, <1>5 DEF Expects, AnswerKinds
  <2>2. Mode(To(2)) = "again" /\ Mode(d) = "direction"
    BY <1>6, <1>3, <1>10, ModeOf
  <2>3. Mode(To(2)) \in C!Follows(Mode(d))
    BY <2>2 DEF C!Follows
  <2> QED
    BY <1>6, <1>10, <2>1, <2>3 DEF d
<1>11. CASE d.step = 2 /\ Leave(st, To(1), "which_direction")
  <2>1. "which_direction" \in AnswerKinds /\ "which_direction" \in Expects(To(1))
    BY <1>6, <1>3, <1>5, DirectionExpects DEF AnswerKinds
  <2>2. Mode(To(1)) = "direction" /\ Mode(d) = "again"
    BY <1>6, <1>3, <1>11, ModeOf
  <2>3. Mode(To(1)) \in C!Follows(Mode(d))
    BY <2>2 DEF C!Follows
  <2> QED
    BY <1>6, <1>11, <2>1, <2>3 DEF d
<1> QED
  BY <1>7, <1>8, <1>9, <1>10, <1>11 DEF d

LEMMA FactLeaves ==
    ASSUME Inv, NEW st \in Stations, NEW command, dialog[Key(st)].step # 0,
           FactStep(st, command)
    PROVE  \/ Throw(st)
           \/ \E d \in Dialogs, answer \in AnswerKinds :
                 /\ answer \in Expects(d) /\ Leave(st, d, answer)
                 /\ Mode(d) \in C!Follows(Mode(dialog[Key(st)]))
<1> DEFINE d == dialog[Key(st)]
           over == [d EXCEPT !.step = 0]
<1>1. d \in [type : FactTypes, step : 0..1] /\ d.step = 1
  <2>1. d \in Dialogs /\ d.type \in FactTypes
    BY KeyType DEF Inv, TypeOK, FactStep
  <2> HIDE DEF d
  <2> QED
    BY <2>1 DEF Dialogs, None, DirectionTypes, FactTypes, d
<1>2. over \in Dialogs /\ over.step = 0 /\ d \in Dialogs /\ d.type \in FactTypes
  <2> HIDE DEF d
  <2> QED
    BY <1>1 DEF Dialogs
<1>3. d.type \notin DirectionTypes
  BY <1>2 DEF DirectionTypes, FactTypes
<1>4. {"what_else", "fact"} \subseteq AnswerKinds
  BY DEF AnswerKinds
<1>5. Mode(d) = "facts" /\ Mode(over) = "idle"
  BY <1>1, <1>2, <1>3 DEF Mode
<1>6. CASE Leave(st, over, "what_else")
  <2>1. "what_else" \in AnswerKinds /\ "what_else" \in Expects(over)
    BY <1>2, <1>4 DEF Expects, AnswerKinds
  <2>2. Mode(over) \in C!Follows(Mode(d))
    BY <1>5 DEF C!Follows
  <2> QED
    BY <1>2, <1>6, <2>1, <2>2
<1>7. CASE Leave(st, d, "fact")
  <2>1. "fact" \in AnswerKinds /\ "fact" \in Expects(d)
    BY <1>1, <1>2, <1>3, <1>4 DEF Expects, AnswerKinds
  <2>2. Mode(d) \in C!Follows(Mode(d))
    BY <1>5 DEF C!Follows
  <2> QED
    BY <1>2, <1>7, <2>1, <2>2
<1> QED
  BY <1>6, <1>7 DEF FactStep

LEMMA RespondLeaves ==
    ASSUME Inv, NEW st \in Stations, NEW command, dialog[Key(st)].step = 0,
           Respond(st, command)
    PROVE  \/ Throw(st)
           \/ \E d \in Dialogs, answer \in AnswerKinds :
                 /\ answer \in Expects(d) /\ Leave(st, d, answer)
                 /\ Mode(d) \in C!Follows(Mode(dialog[Key(st)]))
<1> DEFINE type == FindVariant(Phrases, "StaticPhrases", command)
           begin == [type |-> type, step |-> 1]
<1>1. Mode(dialog[Key(st)]) = "idle"
  BY DEF Mode
<1>2. /\ None \in Dialogs /\ Mode(None) = "idle"
      /\ Mode(None) \in C!Follows(Mode(dialog[Key(st)]))
  BY <1>1 DEF None, Dialogs, Mode, C!Follows
<1>3. ASSUME NEW answer \in AnswerKinds, answer \in Expects(None), Leave(st, None, answer)
      PROVE  \E d \in Dialogs, x \in AnswerKinds :
                /\ x \in Expects(d) /\ Leave(st, d, x)
                /\ Mode(d) \in C!Follows(Mode(dialog[Key(st)]))
  BY <1>2, <1>3
<1>4. CASE \E kind \in {"unknown_command", "presentation", "opportunities"} :
              Leave(st, None, kind)
  <2>1. PICK kind \in {"unknown_command", "presentation", "opportunities"} :
            Leave(st, None, kind)
    BY <1>4
  <2>2. kind \in AnswerKinds /\ kind \in Expects(None)
    BY <2>1 DEF AnswerKinds, Expects, None
  <2> QED
    BY <1>3, <2>1, <2>2 DEF AnswerKinds
<1>5. CASE \E keys, table : Leave(st, None, FindSchedule(keys, table, command))
  BY <1>3, <1>5, ScheduleType
<1>6. CASE type \in FactTypes /\ Leave(st, begin, "fact")
  <2>1. begin \in Dialogs /\ begin.step = 1 /\ begin.type = type
    BY <1>6 DEF Dialogs
  <2>2. type \notin DirectionTypes /\ "fact" \in AnswerKinds
    BY <1>6 DEF DirectionTypes, FactTypes, AnswerKinds
  <2> HIDE DEF type, begin
  <2>3. Mode(begin) = "facts" /\ "fact" \in Expects(begin)
    BY <1>6, <2>1, <2>2 DEF Mode, Expects, AnswerKinds
  <2>4. Mode(begin) \in C!Follows(Mode(dialog[Key(st)]))
    BY <1>1, <2>3 DEF C!Follows
  <2> QED
    BY <1>6, <2>1, <2>2, <2>3, <2>4 DEF AnswerKinds
<1>7. CASE type \in DirectionTypes /\ Leave(st, begin, "which_direction")
  <2>1. begin \in Dialogs /\ begin.step = 1 /\ begin.type = type
    BY <1>7 DEF Dialogs
  <2>2. "which_direction" \in AnswerKinds
    BY DEF AnswerKinds
  <2> HIDE DEF type, begin
  <2>3. Mode(begin) = "direction" /\ "which_direction" \in Expects(begin)
    BY <1>7, <2>1, <2>2, ModeOf, DirectionExpects DEF AnswerKinds
  <2>4. Mode(begin) \in C!Follows(Mode(dialog[Key(st)]))
    BY <1>1, <2>3 DEF C!Follows
  <2> QED
    BY <1>7, <2>1, <2>2, <2>3, <2>4 DEF AnswerKinds
<1> QED
  BY <1>4, <1>5, <1>6, <1>7 DEF Respond

(* A request throws, or leaves an answer and a mode that follows. *)
LEMMA RequestLeaves ==
    ASSUME Inv, NEW st \in Stations, NEW request, AnalizeRequest(st, request)
    PROVE  /\ UNCHANGED <<up, tables>>
           /\ \/ Throw(st)
              \/ \E d \in Dialogs, answer \in AnswerKinds :
                    /\ answer \in Expects(d) /\ Leave(st, d, answer)
                    /\ Mode(d) \in C!Follows(Mode(dialog[Key(st)]))
<1>1. CASE request # Malformed /\ Cleared[Key(st)] # None
  <2>1. dialog[Key(st)].step # 0
    BY <1>1, KeyType DEF Cleared
  <2> QED
    BY <1>1, <2>1, DirectionLeaves, FactLeaves DEF AnalizeRequest
<1>2. CASE request # Malformed /\ Cleared[Key(st)] = None
  <2>1. dialog[Key(st)].step = 0
    BY <1>2, KeyType DEF Cleared, None
  <2> QED
    BY <1>2, <2>1, RespondLeaves DEF AnalizeRequest
<1> QED
  BY <1>1, <1>2 DEF AnalizeRequest

-----------------------------------------------------------------------------
(* The invariant and the theorems. *)

LEMMA InitInv == Init => Inv
<1> SUFFICES ASSUME Init PROVE Inv
  OBVIOUS
<1>1. None \in Dialogs /\ "nothing" \in AnswerKinds /\ "nothing" \in Expects(None)
  BY DEF None, Dialogs, AnswerKinds, Expects
<1> QED
  BY <1>1, KeyType DEF Init, Inv, TypeOK, PromptFitsState, AnswerKinds

LEMMA NextInv == Inv /\ [Next]_vars => Inv'
<1> SUFFICES ASSUME Inv, [Next]_vars PROVE Inv'
  OBVIOUS
<1>1. CASE UNCHANGED vars
  BY <1>1 DEF vars, Inv, TypeOK, PromptFitsState, Expects
<1>2. ASSUME NEW data \in Loads, SetDbInfo(data) PROVE Inv'
  BY <1>2, LoadsAssumption DEF LoadsAssumption, SetDbInfo, Inv, TypeOK, PromptFitsState, Expects
<1>3. ASSUME NEW st \in Stations, NEW request \in Commands \cup {Malformed},
             AnalizeRequest(st, request)
      PROVE  Inv'
  BY <1>3, RequestLeaves, LeaveStep, ThrowStep
<1> QED
  BY <1>1, <1>2, <1>3 DEF Next

LEMMA Invariance == Spec => []Inv
BY InitInv, NextInv, PTL DEF Spec

(* The engine keeps its types: a dialogue never reaches a step that no     *)
(* branch of __dialogSessionsStep answers.                                  *)
THEOREM TypeCorrect == Spec => []TypeOK
BY Invariance, PTL DEF Inv

(* What was last said at an address is what __dialogSessionsStep will take  *)
(* the next words from there for, across reloads, exceptions and requests   *)
(* of all the stations that share it.                                       *)
THEOREM PromptAlwaysFits == Spec => []PromptFitsState
BY Invariance, PTL DEF Inv

LEMMA StepRefines == Inv /\ [Next]_vars => [C!Next]_[a \in Addresses |-> Mode(dialog[a])]
<1> DEFINE mode == [a \in Addresses |-> Mode(dialog[a])]
<1> SUFFICES ASSUME Inv, [Next]_vars PROVE C!Next \/ mode' = mode
  OBVIOUS
<1>1. CASE UNCHANGED vars
  BY <1>1 DEF vars, Mode
<1>2. ASSUME NEW data \in Loads, SetDbInfo(data) PROVE mode' = mode
  BY <1>2 DEF SetDbInfo, Mode
<1>3. ASSUME NEW st \in Stations, NEW request \in Commands \cup {Malformed},
             AnalizeRequest(st, request)
      PROVE  C!Next \/ mode' = mode
  <2>1. CASE Throw(st)
    <3>1. dialog' = Cleared
      BY <2>1 DEF Throw
    <3>2. \A a \in Addresses : Mode(dialog'[a]) = Mode(dialog[a])
      BY <3>1, ClearedKeeps
    <3>3. mode' = [a \in Addresses |-> Mode(dialog'[a])]
      BY DEF Mode
    <3>4. mode = [a \in Addresses |-> Mode(dialog[a])]
      OBVIOUS
    <3> QED
      BY <3>2, <3>3, <3>4
  <2>2. CASE \E d \in Dialogs, answer \in AnswerKinds :
                /\ answer \in Expects(d) /\ Leave(st, d, answer)
                /\ Mode(d) \in C!Follows(Mode(dialog[Key(st)]))
    <3>1. PICK d \in Dialogs : /\ dialog' = [Cleared EXCEPT ![Key(st)] = d]
                              /\ Mode(d) \in C!Follows(Mode(dialog[Key(st)]))
      BY <2>2 DEF Leave
    <3>2. \A a \in Addresses : Mode(dialog'[a]) = IF a = Key(st) THEN Mode(d) ELSE Mode(dialog[a])
      BY <3>1, ClearedKeeps, KeyType
    <3>3. mode' = [mode EXCEPT ![Key(st)] = Mode(d)]
      <4>1. mode' = [a \in Addresses |-> Mode(dialog'[a])]
        BY DEF Mode
      <4>2. mode = [a \in Addresses |-> Mode(dialog[a])]
        OBVIOUS
      <4> QED
        BY <3>2, <4>1, <4>2
    <3> QED
      BY <3>1, <3>3, KeyType DEF C!Next, C!Turn
  <2> QED
    BY <1>3, <2>1, <2>2, RequestLeaves
<1> QED
  BY <1>1, <1>2, <1>3 DEF Next

(* The dialogue engine, with its zombie sessions, its tables and its       *)
(* exceptions, implements one conversation for every address.              *)
THEOREM ConversationRefined == Spec => ImplementsConversation
<1>1. Init => C!Init
  BY DEF Init, C!Init, Mode, None
<1> QED
  BY <1>1, StepRefines, Invariance, PTL DEF Spec, ImplementsConversation, C!Spec

(* A step that hears a command with the facts there does not leave its     *)
(* station silent.                                                         *)
LEMMA StepAnswers ==
    ASSUME Inv, NEW st \in Stations, NEW command \in Commands,
           AnalizeRequest(st, command), {"UniversityFact", "InterestingFact"} \subseteq tables
    PROVE  st \notin silent'
<1>1. command # Malformed
  BY RequestAssumption DEF RequestAssumption
<1>2. ASSUME NEW d, NEW answer, Leave(st, d, answer) PROVE st \notin silent'
  BY <1>2 DEF Leave, Answer
<1>3. \A type : FactTable(type) \in tables
  BY DEF FactTable
<1>4. CASE Cleared[Key(st)] = None
  <2>1. Respond(st, command)
    BY <1>1, <1>4 DEF AnalizeRequest
  <2> QED
    BY <1>2, <1>3, <2>1 DEF Respond
<1>5. CASE Cleared[Key(st)] # None /\ DirectionStep(st, command)
  <2>1. dialog[Key(st)].step # 0
    BY <1>5, KeyType DEF Cleared
  <2> QED
    BY <1>2, <1>5, <2>1, DirectionLeaves
<1>6. CASE Cleared[Key(st)] # None /\ FactStep(st, command)
  <2>1. {"UniversityFact", FactTable(dialog[Key(st)].type)} \subseteq tables
    BY <1>3
  <2> QED
    BY <1>2, <1>6, <2>1 DEF FactStep
<1> QED
  BY <1>1, <1>4, <1>5, <1>6 DEF AnalizeRequest

(* A request that can be read is never left without an answer while both   *)
(* tables of facts are there: no dialogue, finished, begun by another       *)
(* station or cut short by a reload, falls through the handler.             *)
THEOREM AnsweredWithFacts == Spec => SilentForWantOfFacts
<1>1. Inv /\ [Next]_vars =>
        [\A st \in Stations, command \in Commands :
            /\ {"UniversityFact", "InterestingFact"} \subseteq tables
            /\ AnalizeRequest(st, command)
            => st \notin silent']_vars
  BY StepAnswers
<1> QED
  BY <1>1, Invariance, PTL DEF Spec, SilentForWantOfFacts
=============================================================================
