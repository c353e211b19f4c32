SPECIFICATION MCSpec
CONSTANTS
    MaxSize = 3
    Backups = {0, 2}
    Lengths = {1, 2, 4}
    MaxLines = 6
    MaxKills = 1
    MaxFaults = 1
    Handlers = {h1, h2}
    MaxChanges = 4
    MaxFailures = 2
    Files <- MCFiles
    Envs <- MCEnvs
    Flags <- MCFlags
    Bodies <- MCBodies
    Missing = Missing
    TornFile = TornFile
    Unparsed = Unparsed
    Unopened <- MCUnopened
    NoConfig = NoConfig
INVARIANTS
    NewestInOrder
    SizesHold
    TornCostsOneRecord
    HistoryIsTrue
    StartsOnUsable
PROPERTIES
    RestartKeeps
CHECK_DEADLOCK FALSE
