CONSTANTS
    Texts <- MCTexts
    Values <- MCValues
    Sets = 2
SPECIFICATION SettingsSpec
INVARIANTS
    FileDecides
    TwoEntriesAreSafe
    SetIsSeen
CHECK_DEADLOCK FALSE
