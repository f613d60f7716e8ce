\* Each of two clients may join twice and say one thing in each group; there
\* may be no descriptor left, and accept may find that a client has gone.
CONSTANTS
    ngroups = 2
    capa <- mcCapa
    Names = {n1, n2}
    UserNames = {n1, n2}
    Socks <- mcSocks
    UserGroups = {0, 1}
    Clients = {a, b}
    Followed = {a}
    servsock = 4
    LookupFails = TRUE
    NoClient = NoClient
    MaxJoins = 2
    MaxTexts = 1
    Crashes = TRUE
SPECIFICATION FairSpec
INVARIANTS
    Occupancy
    NamesUnique
    OneMembership
    MembersConnected
    ChattersAreMembers
    TextsFromOwnGroup
PROPERTY RequestsAnswered
CHECK_DEADLOCK FALSE
