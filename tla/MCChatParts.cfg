\* The lists: three nodes, names and sockets.  The link: three servers, each
\* of which is sent one signal once it serves, or is killed.
CONSTANTS
    ngroups = 2
    capa <- mcCapa
    Names = {n1, n2, n3}
    Socks <- mcSocks
    Heap = {h1, h2, h3}
    NULL = NULL
    Servers = {p, q, r}
    Callers = {c, d}
    NoLink = NoLink
    Signals = {"TERM"}
    Early = FALSE
    Kills = TRUE
SPECIFICATION PartsSpec
INVARIANTS
    NodesAreMembers
    BackLinks
    OneServer
    ServerLinked
PROPERTY ImplementsGroups
CHECK_DEADLOCK FALSE
