CONSTANTS
    Item <- MCItem
    Ports <- MCPorts
    Consumer = {Background}
    Background = Background
    MaxQueued = 4
    MaxCount = 3
    CleanPackages = TRUE
SPECIFICATION FairPipeline
INVARIANT PipelineInv
INVARIANT DoneWhenJoined
PROPERTY BehavesAsStruct
PROPERTY WaitEnds
CHECK_DEADLOCK FALSE
