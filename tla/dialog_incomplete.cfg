SPECIFICATION Spec
CONSTANTS
    here = here
    there = there
    elsewhere = elsewhere
    Malformed = Malformed
    Stations <- ThreeStations
    LocalEndpoint <- MCLocalEndpoint
    Commands <- MCCommands
    YesWords <- MCYesWords
    Phrases <- MCPhrases
    DirectionKeys <- MCDirections
    GroupKeys <- MCGroups
    ProfessorKeys <- MCProfessors
    DayKeys <- MCDayKeys
    Preparation <- MCPreparation
    Scheduled <- MCScheduled
    Loads <- MCLoads
CHECK_DEADLOCK FALSE
PROPERTY IncompleteIsRefused
