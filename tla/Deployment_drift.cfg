\* On a checkout: what makes patch-host fail.  TLC shows a counterexample.
SPECIFICATION Spec
CONSTANTS
    Patches = 2
    Versions = {1, 2}
    Sets = {"s1", "s2"}
    Text <- MCText
    Drifted <- MCDrifted
    Yamls <- OneYaml
    Remotes = {"bot", "bob"}
    NoYaml = NoYaml
    NoRemote = "nobody"
    MaxSaves = 0
INVARIANT FailureIsDrift
