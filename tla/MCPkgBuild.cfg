CONSTANTS
    l = l
    a = a
    Pkg <- MCPkg
    Host = {}
    Override <- MCOverride
    Staging <- MCStaging
    Target <- MCTarget
    Images = {}
    HasPatches <- MCHasPatches
    Deps <- MCDeps
    DownloadDeps <- MCNone
    ExtractDeps <- MCNone
    PatchDeps <- MCDeps
    Kconfig = {}
    KconfigDeps <- MCNone
    Configs = {"c"}
    MaxEdits = 0
    MaxFaults = 1
    MayTear = {a}
SPECIFICATION Spec
INVARIANTS
    StampMeansDone
    DepsInstalled
    SuccessMeansInstalled
    SettledStaysQuiet
PROPERTIES
    FailureHasCause
