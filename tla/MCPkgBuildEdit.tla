--------------------------- MODULE MCPkgBuildEdit ---------------------------
(* One overridden package with a configuration, say a kernel: its sources  *)
(* and its configuration change while commands on it run, fail and are     *)
(* given again.                                                            *)
EXTENDS PkgBuild, TLC

CONSTANTS l, c, d

MCPkg == {l}
MCConfigs == {c, d}
MCSame == Permutations(MCConfigs)
MCNone == [p \in MCPkg |-> {}]
=============================================================================
