SPECIFICATION MCSpec
CONSTANTS
    Workers = {w1, w2}
    Nics = {eth0}
    All = All
    Selectable = {eth0, All}
    maxSamples = 2
    MaxTime = 3
    MaxCarry = 1
    MaxFake = 2
    MaxSamples = 3
    Events = {"user", "idle", "iowait"}
    MemTotal = 2
    Capacities = {0, 4}
    Speeds = {0, 1}
    MaxJiffies = 5
    Hours = 4
    Steps = 2
    Intensities = {0, 1, 9}
    Window = 7
    Bytes = 10
    Fractions = {30, 100}
    MaxWorkers = 2
    MaxDatagram = 2
    Networks <- MCNetworks
    CountryOf <- MCCountryOf
    Asns = {1, 2}
    MaxSelected = 2
    Percentiles = {50, 75, 90, 95, 98, 99}
    MaxRecorded = 8928
INVARIANTS
    PeriodIsTrue
    FakeAddsUp
    NeverSteps
    WholeBudget
    EveryHostAlike
    IndexIsTheDatabase
    DropsTheTop
SYMMETRY Symmetry
CHECK_DEADLOCK FALSE
