SPECIFICATION DocumentsSpec
CONSTANTS
    AnonymizeRequests <- SomeRequests
    Settings <- SomeSettings
    Extensions <- SomeExtensions
    Databases <- SomeDatabases
    Entities = {"A", "B"}
    Norm <- Composed
    WordCharacters = {"j", "k", "e", "E", "m", "n", "A", "B", "1", "2"}
    Hash <- KeyHash
    MaxReverse = 3
    CommandLimit = 4
    NoSet = NoSet
    Corpora <- SomeCorpora
    Limits <- SomeLimits
    ShingleHash <- ShingleNumber
    Bits = {0, 1, 2, 3, 4, 5, 6, 7}
    Bands = {0, 1, 2, 3}
    BandOf <- BandOfBit
    GroupHash <- Scattered
    Draw <- Percent
    SampleHash <- RowHash
    HeadGroups = 2
    Support <- Production6
    MaxSwaps = 2
    None = None
INVARIANTS
    OutputsRestore
    OneValuePerKey
    SilentOnlyWhenAsked
    EverythingAccounted
    NoLeakage
    ReadersAgree
    FutureStaysAhead
CHECK_DEADLOCK FALSE
