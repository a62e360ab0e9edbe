\* Two writers of settings whose loads overlap, a clock of two slots and one restart.
SPECIFICATION FairSpec
CONSTANTS
    web = web
    chat = chat
    Savers = {web, chat}
    Approvers = {chat}
    NewsIntervals = {2}
    AutoIntervals = {2}
    AlertSettings <- MCAlertSettings
    Bad = Bad
    Day = 2
    MaxCrashes = 1
INVARIANTS
    RegistryCurrent
PROPERTIES
    JobsGoOn
