\* The engine, one client and a Telegram chat that sends two commands.
SPECIFICATION FairSpec
CONSTANTS
    web = web
    Clients = {web}
    Requests = {"stop", "edit"}
    Commands = {"start", "setrisk"}
    MaxUpdates = 2
    MaxFaults = 1
INVARIANTS
    TypeOK
    CommandOnce
PROPERTIES
    ProfileKept
    CommandsReach
    StatusFollows
