SPECIFICATION CSpec
CONSTANTS
    Bools <- MCBools
    Strings <- MCStrings
    Texts <- MCTexts
    ChoiceSyms <- MCChoices
    ChoiceOf <- MCChoiceOf
    Order <- MCOrder
    Kconfigs <- MCKconfigs
    Defconfigs <- MCDefconfigs
    Entries <- MCEntries
    Root = "root"
    Children <- MCChildren
    Kind <- MCKind
    SymOf <- MCSymOf
    Prompted <- MCEntries
    ShownIf <- MCShownIf
    VisibleIf <- MCVisibleIf
    Seeds <- MCSeeds
    MaxRuns = 2
    MaxEdits = 1
    MaxFails = 1
CHECK_DEADLOCK FALSE
INVARIANTS
    AsksToTheEnd
    EnterIsDefault
    AnswersKept
    AutoConfLast
    ChangesTouched
PROPERTIES
    AskingEnds
