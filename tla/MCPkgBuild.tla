----------------------------- MODULE MCPkgBuild -----------------------------
(* A library l under development, overridden and installed to staging, and   *)
(* an application a that is patched, once l has its sources, and links with  *)
(* l.                                                                        *)
EXTENDS PkgBuild

CONSTANTS l, a

MCPkg == {l, a}
MCOverride == {l}
MCStaging == {l}
MCTarget == {a}
MCHasPatches == {a}
MCDeps == [p \in MCPkg |-> IF p = a THEN {l} ELSE {}]
MCNone == [p \in MCPkg |-> {}]
=============================================================================
