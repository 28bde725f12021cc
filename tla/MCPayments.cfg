SPECIFICATION Spec
CONSTANTS
    fund = fund
    owner = owner
    adm = adm
    adm2 = adm2
    o1 = o1
    o2 = o2
    o3 = o3
    None = None
    Accounts <- LifecycleAccounts
    PalletAccount = fund
    MaxFeeds = 1
    MaxRound = 2
    MaxBlock = 1
    FirstBlock = 1
    BlockNumberMax = 255
    ValueMax = 3
    InitialFunds = 5
    ExistentialDeposit = 1
    MinimumReserve = 2
    StringLimit = 2
    OracleCountLimit = 3
    PruningWindow = 1
    Subscribed = {}
    Creators = {owner}
    FeedParams <- PaymentFeeds
    FutureRoundParams <- PaymentFutureRounds
    WithdrawAmounts = {1, 2}
    DisableLists = {}
    AddLists = {}
    RequesterAccounts = {}
    RequesterDelays = {}
    ConsumerFeeds = {}
    SubmissionValues = {1, 2}
    Successors = {}
    Recipients = {adm, fund}
INVARIANT WithdrawableBackedByReserve
INVARIANT RoundAnswerMatchesSubmissions
PROPERTY FullRoundIsAnswered
CHECK_DEADLOCK FALSE
