SPECIFICATION Spec
CONSTANTS
    fund = fund
    owner = owner
    adm = adm
    adm2 = adm2
    o1 = o1
    o2 = o2
    o3 = o3
    None = None
    Accounts <- SmallAccounts
    PalletAccount = fund
    MaxFeeds = 1
    MaxRound = 4
    MaxBlock = 3
    FirstBlock = 1
    BlockNumberMax = 255
    ValueMax = 3
    InitialFunds = 4
    ExistentialDeposit = 1
    MinimumReserve = 2
    StringLimit = 2
    OracleCountLimit = 3
    PruningWindow = 1
    Subscribed = {}
    Creators = {owner}
    FeedParams <- PruningFeeds
    FutureRoundParams = {}
    WithdrawAmounts = {}
    DisableLists = {}
    AddLists = {}
    RequesterAccounts = {}
    RequesterDelays = {}
    ConsumerFeeds = {}
    SubmissionValues = {1}
    Successors = {}
    Recipients = {}
INVARIANT FirstValidRoundHasData
CHECK_DEADLOCK FALSE
