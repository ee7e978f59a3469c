\* Two actions: the one's deadline can still be to come when the other is
\* asked about, and either can meet the other's question; two scans
\* overlap, so that an answer can arrive after the person's.
SPECIFICATION Spec
CONSTANTS
    Actions = {a1, a2}
    Nobody = Nobody
    MaxScans = 2
INVARIANTS
    QuestionsAreOfTheHeld
PROPERTIES
    FlagStandsUntilResolved
    HeldIsDecided
