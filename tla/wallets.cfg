\* Races, failures, crashes and reloads; a user who edits the form at any time.
SPECIFICATION FairBalanceSpec
CONSTANTS
    Address = {w1, w2}
    Post = {p1, p2}
    Null = Null
    MaxFaults = 1
INVARIANTS
    SavedAreValidators
    RefusalsAreTrue
    ListedAreSaved
    DefaultIsChosen
PROPERTIES
    RegistrationIsResumed
    BalanceAppears
