SPECIFICATION LiveSpec
CONSTANTS
    fund = fund
    owner = owner
    adm = adm
    adm2 = adm2
    o1 = o1
    o2 = o2
    o3 = o3
    None = None
    Accounts <- LifecycleAccounts
    PalletAccount = fund
    MaxFeeds = 1
    MaxRound = 2
    MaxBlock = 4
    FirstBlock = 1
    BlockNumberMax = 255
    ValueMax = 3
    InitialFunds = 7
    ExistentialDeposit = 1
    MinimumReserve = 2
    StringLimit = 2
    OracleCountLimit = 3
    PruningWindow = 1
    Subscribed = {}
    Creators = {owner}
    FeedParams <- LivenessFeeds
    FutureRoundParams = {}
    WithdrawAmounts = {}
    DisableLists = {}
    AddLists = {}
    RequesterAccounts = {adm}
    RequesterDelays = {0}
    ConsumerFeeds = {0}
    SubmissionValues = {1}
    Successors = {}
    Recipients = {}
    LiveOracles = {o1, o2}
PROPERTY ReportingRoundSettles
PROPERTY StalledRoundGivesWay
CHECK_DEADLOCK FALSE
