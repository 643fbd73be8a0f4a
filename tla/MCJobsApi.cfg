SPECIFICATION ApiSpec

CONSTANTS
    keyed = keyed
    stranger = stranger
    Programs <- MCPrograms
    Keyed <- MCKeyed
    Limit = 2
    Window = 2
    MaxChecks = 2
    Horizon = 6

INVARIANT WindowBound
INVARIANT VerdictHolds
PROPERTY KeepsWindow
PROPERTY ProgramsEnd
