SPECIFICATION SpotifySpec
CONSTANTS
    None = None
    c1 = c1
    c2 = c2
    State1 = State1
    State = State1
    Calls = {c1, c2}
    Wants <- MCWants
    Name <- MCName
    After <- MCAfter
    QueueLimit = 1
    BacklogLimit = 1
    Accounts = {1}
    Names = {1, 2}
    MaxSelections = 1
PROPERTIES ImplementsPromise KeepsGoing
CHECK_DEADLOCK FALSE
