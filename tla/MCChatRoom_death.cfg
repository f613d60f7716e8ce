\* Users also ask for a group that does not exist.
CONSTANTS
    ngroups = 2
    capa <- mcCapa
    Names = {n1, n2}
    UserNames = {n1, n2}
    Socks <- mcSocks
    UserGroups = {0, 1, 2}
    Clients = {a, b}
    Followed = {a}
    servsock = 4
    LookupFails = FALSE
    NoClient = NoClient
    MaxJoins = 2
    MaxTexts = 1
    Crashes = TRUE
SPECIFICATION Spec
INVARIANT ServerSurvives
CHECK_DEADLOCK FALSE
