SPECIFICATION TSpec
CONSTANT MAX_PROCESS = 5
CHECK_DEADLOCK FALSE
PROPERTIES NobodyTwice EveryoneRuns KilledExits InitReaps
