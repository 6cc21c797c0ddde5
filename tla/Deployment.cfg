SPECIFICATION Spec
CONSTANTS
    Patches = 2
    Versions = {1, 2}
    Sets = {"s1", "s2"}
    Text <- MCText
    Drifted <- MCDrifted
    Yamls <- MCYamls
    Remotes = {"bot", "bob"}
    NoYaml = NoYaml
    NoRemote = "nobody"
    MaxSaves = 2
INVARIANTS TypeOK RunsOnPatchedHost FailureHasCause StaleIsNoticed DelegatesAreKnown
