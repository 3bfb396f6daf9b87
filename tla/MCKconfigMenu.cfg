SPECIFICATION Spec
CONSTANTS
    Bool = {"A", "B", "D", "MODULES"}
    Tristate = {"T"}
    Modules = "MODULES"
    Kconfigs <- MCKconfigs
CHECK_DEADLOCK FALSE
INVARIANTS MeansWritten BoolSubmenuGone OutrightGoesBelow TreeKept RecursionTold
