\* One source of each way to claim and to close: one that is raised once
\* and closes its own panel, one that never loses the panel to another,
\* and one whose severity is its verdict's.  Three panels let a panel be
\* displaced during its gap and the next one too.
SPECIFICATION LiveSpec
CONSTANTS
    Kinds = {"lookalike", "trap", "injection"}
    None = None
    MaxPanels = 3
INVARIANTS
    OnePanelTellsAll
PROPERTIES
    RemovalIsAnswered
