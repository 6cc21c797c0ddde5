\* A hook terminates with an empty message.  TLC shows a counterexample.
SPECIFICATION Spec
CONSTANTS
    Instances = {i1}
    Points <- MCPoints
    Config <- MCConfig
    FlowIds <- MCFlowIds
    Variables <- MCVariables
    Texts <- MCTexts
    HookDecisions <- MCUnexplained
    Targets <- MCTargets
    Remotes = {"agent0"}
    NoRemote = "none"
    NoFlow = "noflow"
    NoNode = "nonode"
    Nodes <- MCNodes
    First = "check"
    Successor <- MCSuccessor
    Branches <- MCBranches
    EndEvents = {"end"}
    TerminateTarget = "complete"
    Declared = {"score"}
    InitialValues <- MCInitialValues
    Exposed <- MCNotExposed
    MaxJumps = 1
INVARIANT HaltIsReported
CHECK_DEADLOCK FALSE
