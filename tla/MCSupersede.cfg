SPECIFICATION Spec
CONSTANTS
    fund = fund
    owner = owner
    adm = adm
    adm2 = adm2
    o1 = o1
    o2 = o2
    o3 = o3
    None = None
    Accounts <- LifecycleAccounts
    PalletAccount = fund
    MaxFeeds = 1
    MaxRound = 2
    MaxBlock = 3
    FirstBlock = 1
    BlockNumberMax = 255
    ValueMax = 3
    InitialFunds = 4
    ExistentialDeposit = 1
    MinimumReserve = 2
    StringLimit = 2
    OracleCountLimit = 3
    PruningWindow = 1
    Subscribed = {}
    Creators = {owner}
    FeedParams <- LifecycleFeeds
    FutureRoundParams = {}
    WithdrawAmounts = {}
    DisableLists = {}
    AddLists = {}
    RequesterAccounts = {adm}
    RequesterDelays = {0, 1}
    ConsumerFeeds = {0}
    SubmissionValues = {1, 2}
    Successors = {}
    Recipients = {}
PROPERTY OpensOnlySupersedable
CHECK_DEADLOCK FALSE
