\* The job and a check at once, of a feed of two articles and an API of one.
SPECIFICATION Spec
CONSTANTS
    Runs = {job, check}
    Checks = {check}
    rss = rss
    api = api
    off = off
    Feeds = {rss}
    Apis = {api}
    Keyless = {}
    Quiet = {api}
    MaxArticle <- MCMaxArticle
    FetchLimit = 1
    ScheduledFallback = FALSE
    EmbedLimit = 2
    BackfillLimit = 2
    MaxFaults = 1
INVARIANTS
    TypeOK
    SuccessIsHealthy
PROPERTIES
    KeepsNews
    VectorOfText
