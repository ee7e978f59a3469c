SPECIFICATION Spec
CONSTANTS
    Kinds = {"lookalike", "trap", "injection"}
    None = None
    MaxPanels = 3
INVARIANT
    DismissedStaysDown
