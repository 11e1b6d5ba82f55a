SPECIFICATION ScenarioSpec
CONSTANTS
    None = None
    Pools <- ThreePools
    Flows <- ThreeFlows
    Selections <- TwoSelections
    Nodes = {"n1", "n2"}
    Processes <- FourProcesses
    MaxCommands = 2
    MaxCrashes = 1
    Patience = {TRUE}
INVARIANT JobsAccounted FlowRight QueuesRight Supervised BlueprintRight
PROPERTY LimitsRight Progress
CHECK_DEADLOCK FALSE
