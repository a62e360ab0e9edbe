\* An analysis and a BUY precheck at once, of two providers.
SPECIFICATION Spec
CONSTANTS
    gemini = gemini
    openai = openai
    analysis = analysis
    precheck = precheck
    briefing = briefing
    Calls = {analysis, precheck}
    Strict = {precheck}
    Preferred <- MCPreferred
    Priority <- MCPriority
    Keyed = {gemini, openai}
    MaxBlock = 2
    MaxFaults = 1
INVARIANTS
    TypeOK
    GivesUpWhenSpent
PROPERTIES
    BlockKept
    UsableAgain
