CONSTANTS
    Push = Push
    Thread <- MCThread
    Main = 0
    IntMin <- MCIntMin
    MaxCtrlC = 2
    SizeMax = 3
    work_count = 2
    max_concurrency = 6
    Concurrency = 4
SPECIFICATION FairAll
INVARIANTS Inv NoneLeftBehind
PROPERTIES ShellSurvives CtrlCEnds ReturnsOrEnds
CHECK_DEADLOCK FALSE
