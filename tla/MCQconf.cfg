SPECIFICATION QSpec
CONSTANTS
    Bools <- MCBools
    Strings <- MCStrings
    Texts <- MCTexts
    ChoiceSyms <- MCChoices
    ChoiceOf <- MCChoiceOf
    Order <- MCOrder
    Kconfigs <- MCKconfigs
    Defconfigs <- MCDefconfigs
    Entries <- MCEntries
    Root = "root"
    Children <- MCChildren
    Kind <- MCKind
    SymOf <- MCSymOf
    Prompted <- MCPrompted
    ShownIf <- MCShownIf
    VisibleIf <- MCVisibleIf
    Searches <- MCSearches
    OptionModes = {"normal", "all"}
    MaxRuns = 1
    MaxEdits = 2
    MaxFails = 0
CHECK_DEADLOCK FALSE
INVARIANTS
    RowsFresh
    IconsFresh
    WaysShow
