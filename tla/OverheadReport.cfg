SPECIFICATION ReportSpec
CONSTANTS
    Tier = {"a", "b", "d"}
    MicroTiers <- TheMicroTiers
    RUNS = 1
    PASSES = 2
    Times = {150000, 150003, 150007, 150028}
    Latencies = {1, 3, 16, 31}
    MaxOpens = 2
    None = None
INVARIANTS
    QuantileRight
    FlagsAgree
    FlagSoundWhenDear
CHECK_DEADLOCK FALSE
