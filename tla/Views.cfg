SPECIFICATION Spec
CONSTANTS
    DayLen = 8
    Zone = 1
    Shift = 1
    Spring = 729
    Autumn = 857
    None = None
    Answers <- MCAnswers
    Locks <- MCLocks
    Widths <- MCWidths
    Dates <- MCDates
    T0 = 803
    MaxTime = 812
    MaxOffset = 17
INVARIANTS
    ListComplete
    LabelHonest
    LayoutFollowsDesign
    WarningsExact
