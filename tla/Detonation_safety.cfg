SPECIFICATION Spec
CONSTANTS MaxEvents = 2
 MaxDeeds = 3
 MaxWaits = 2
INVARIANTS TypeOK NothingInvented NothingForgotten MarksEarned
CHECK_DEADLOCK FALSE
