SPECIFICATION Spec
CONSTANTS
    r1 = r1
    r2 = r2
    None = None
    Unknown = Unknown
    Rollouts <- MCRollouts
    TaskCount <- MCTaskCount
    Checked <- MCChecked
    Actors <- MCActors
    Texts <- MCTexts
    Chips <- MCChips
    StageKeys <- MCStageKeys
    SeedSize = 2
    MaxAdds = 1
    MaxEdits = 2
    MaxTokens = 1
INVARIANTS
    LinkShown
    PanelOwn
PROPERTIES
    EditorsSpec
CHECK_DEADLOCK FALSE
