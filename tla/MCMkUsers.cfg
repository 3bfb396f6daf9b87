SPECIFICATION Spec
CONSTANTS
    User <- MCUser
    Group <- MCGroup
    MinId = 10
    MaxId = 11
    Tables <- Pairs
    Skeletons <- MCSkeletons
CHECK_DEADLOCK FALSE
INVARIANTS UidsUnique EntriesHonoured ChownMatches MembersKept ConsistentSucceeds
