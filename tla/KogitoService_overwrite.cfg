\* An answer names the variable of the decision.  TLC shows a counterexample.
SPECIFICATION Spec
CONSTANTS
    Instances = {i1}
    Points <- MCPoints
    Config <- MCConfig
    FlowIds <- MCFlowIds
    Variables <- MCVariables
    Texts <- MCTexts
    HookDecisions <- MCHookDecisions
    Targets <- MCTargets
    Remotes = {"agent0"}
    NoRemote = "none"
    NoFlow = "noflow"
    NoNode = "nonode"
    Nodes <- MCNodes
    First = "check"
    Successor <- MCSuccessorReviewed
    Branches <- MCBranches
    EndEvents = {"end"}
    TerminateTarget = "complete"
    Declared = {"score"}
    InitialValues <- MCInitialValues
    Exposed <- MCExposed
    MaxJumps = 1
INVARIANT FollowsOwnDecision
CHECK_DEADLOCK FALSE
