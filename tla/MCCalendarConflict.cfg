SPECIFICATION Spec
CONSTANTS
    Calendars <- MCCalendars
    Queries <- MCQueries
    Windows <- MCWindows
    Instants <- MCInstants
    RetrievedAt = 2
    MaxAge = 2
    NoInterval = NoInterval
    NoCall = NoCall
INVARIANTS
    VerdictIsSound
    DoubtIsDue
