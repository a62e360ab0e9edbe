\* The job alone, with two failing steps, calls that hang and an API without credentials.
\* It stops when a call hangs after the last fault.
SPECIFICATION HangSpec
CONSTANTS
    Runs = {job}
    Checks = {}
    rss = rss
    api = api
    off = off
    Feeds = {rss}
    Apis = {api, off}
    Keyless = {off}
    Quiet = {}
    MaxArticle <- MCMaxArticle
    FetchLimit = 1
    ScheduledFallback = TRUE
    EmbedLimit = 2
    BackfillLimit = 2
    MaxFaults = 2
CHECK_DEADLOCK FALSE
PROPERTIES
    Heals
