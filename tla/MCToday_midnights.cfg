CONSTANTS
    None = None
    Day = 3
    SourceLimit = 3
    MaxTime = 6
    MaxEvents = 4
    MaxDelay = 1
    Scenarios <- Calendars
SPECIFICATION Spec
CHECK_DEADLOCK FALSE
INVARIANTS
    AnswersCountTheDate
PROPERTIES
    EstimatedFinishStands
