\* Two clients, one of which may be killed; the server is started twice.
CONSTANTS
    c1 = c1
    c2 = c2
    Server = Server
    Procs = {c1, c2, Server}
    Clients = {c1, c2}
    Runs = 2
    Updates = 3
    Depth = 2
    Mortal = {c1}
SPECIFICATION Spec
INVARIANTS
    OneHolder
    Exclusive
    LastTextShown
PROPERTY Granted
CHECK_DEADLOCK FALSE
