\* The least room with which the server cannot be blocked for ever.
CONSTANTS
    Clients = {c1, c2, c3, c4}
    Depth = 5
    Deaths = 1
SPECIFICATION Spec
INVARIANT EnoughOnTheWay
PROPERTY EveryoneAnswered
