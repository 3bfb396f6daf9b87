SPECIFICATION Spec
CONSTANTS
    Bools <- MCBools
    Strings <- MCStrings
    Texts <- MCTexts
    ChoiceSyms <- MCChoices
    ChoiceOf <- MCChoiceOf
    Order <- MCOrder
    Kconfigs <- MCKconfigs
    Defconfigs <- MCDefconfigs
    MaxRuns = 2
    MaxEdits = 2
    MaxFails = 1
CHECK_DEADLOCK FALSE
INVARIANT
    SavedWhole
