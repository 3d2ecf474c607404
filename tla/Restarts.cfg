SPECIFICATION FairSpec
CONSTANTS
    NoRate = NoRate
    Process = {1, 2, 3}
    OpenCLIP = {1}
    MaxDay = 2
    MaxPublication = 3
    RateOf <- MCRateOf
    DateOf <- MCDateOf
    Storable <- MCStorable
    InitTable <- EmptyTable
INVARIANTS
    TypeOK
    BothOrNeither
    OnePublication
    CheckedOnceADay
PROPERTIES
    RatesDoNotGoBack
    RatesKeepNoServerDown
CHECK_DEADLOCK FALSE
