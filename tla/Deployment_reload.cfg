\* A definition saved while the application runs.  TLC shows a counterexample.
SPECIFICATION Spec
CONSTANTS
    Patches = 1
    Versions = {1}
    Sets = {"s1"}
    Text <- OneText
    Drifted <- NoDrift
    Yamls <- MCYamls
    Remotes = {"bot", "bob"}
    NoYaml = NoYaml
    NoRemote = "nobody"
    MaxSaves = 2
INVARIANT ReadOnlyAtRuntime
