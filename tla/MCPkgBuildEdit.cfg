CONSTANTS
    l = l
    Pkg <- MCPkg
    Host = {}
    Override <- MCPkg
    Staging = {}
    Target <- MCPkg
    Images = {}
    HasPatches = {}
    Deps <- MCNone
    DownloadDeps <- MCNone
    ExtractDeps <- MCNone
    PatchDeps <- MCNone
    Kconfig <- MCPkg
    KconfigDeps <- MCNone
    c = c
    d = d
    Configs <- MCConfigs
    MaxEdits = 1
    MaxFaults = 1
    MayTear = {}
SYMMETRY MCSame
SPECIFICATION Spec
INVARIANTS
    RebuildPicksUpEdit
    RestartsThere
    ConfigUsed
