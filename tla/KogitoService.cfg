SPECIFICATION Spec
CONSTANTS
    Instances = {i1, i2}
    Points <- MCPoints
    Config <- MCConfig
    FlowIds <- MCFlowIds
    Variables <- MCVariables
    Texts <- MCTexts
    HookDecisions <- MCHookDecisions
    Targets <- MCTargets
    Remotes = {"agent0"}
    NoRemote = "none"
    NoFlow = "noflow"
    NoNode = "nonode"
    Nodes <- MCNodes
    First = "check"
    Successor <- MCSuccessor
    Branches <- MCBranches
    EndEvents = {"end"}
    TerminateTarget = "complete"
    Declared = {"score"}
    InitialValues <- MCInitialValues
    Exposed <- MCNotExposed
    MaxJumps = 1
INVARIANTS TypeOK OneToken EndIsReportedOnce FollowsOwnDecision HaltIsReported ConditionsHold OneContextAndCard
PROPERTIES HaltStopsWork InstanceEnds
CHECK_DEADLOCK FALSE
