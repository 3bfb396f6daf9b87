SPECIFICATION MSpec
CONSTANTS
    Letters <- MCLetters
    BoxWidth = 2
    MaxLen = 2
    MaxScroll = 1
    ListHeight = 2
    JumpNb = 9
    Bools <- MCBools
    Strings <- MCStrings
    Texts <- MCTexts
    ChoiceSyms <- MCChoices
    ChoiceOf <- MCChoiceOf
    Order <- MCOrder
    Kconfigs <- MCKconfigs
    Defconfigs <- MCDefconfigs
    Entries <- MCEntries
    Root = "root"
    Children <- MCChildren
    Kind <- MCKind
    SymOf <- MCSymOf
    Prompted <- MCPrompted
    PromptsOf <- MCPromptsOf
    ShownIf <- MCShownIf
    VisibleIf <- MCVisibleIf
    Hot <- MCHot
    Initial <- MCHot
    Matches <- MCMatches
    DotConfig = "a"
    Writable = {"a", "aa"}
    HelpLines <- MCHelpLines
    Terminals = {4, 3, 1}
    Frame <- MCFrame
    Needs <- MCNeeds
    Keyboard <- MCKeyboard
    Tried <- MCTried
    MaxRuns = 1
    MaxEdits = 2
    MaxFails = 1
    MaxSpent = 2
    MaxDepth = 3
CHECK_DEADLOCK FALSE
INVARIANTS
    RowsInStep
    BoxesInStep
PROPERTIES
    OnlyWhatIsShown
    JumpShowsTarget
