SPECIFICATION Spec
CONSTANTS
    fund = fund
    owner = owner
    adm = adm
    adm2 = adm2
    o1 = o1
    o2 = o2
    o3 = o3
    None = None
    Accounts <- AllAccounts
    PalletAccount = fund
    MaxFeeds = 1
    MaxRound = 1
    MaxBlock = 1
    FirstBlock = 1
    BlockNumberMax = 255
    ValueMax = 3
    InitialFunds = 4
    ExistentialDeposit = 1
    MinimumReserve = 2
    StringLimit = 2
    OracleCountLimit = 2
    PruningWindow = 1
    Subscribed = {"OraclePermissionsUpdated"}
    Creators = {owner}
    FeedParams <- RegistryFeeds
    FutureRoundParams = {}
    WithdrawAmounts = {}
    DisableLists <- RegistryDisableLists
    AddLists <- RegistryAddLists
    RequesterAccounts = {}
    RequesterDelays = {}
    ConsumerFeeds = {}
    SubmissionValues = {1}
    Successors = {adm2}
    Recipients = {}
INVARIANT TypeOK
INVARIANT OracleCountMatchesEnabled
PROPERTY FeedOwnerHandshake
PROPERTY OracleAdminHandshake
PROPERTY PalletAdminHandshake
CHECK_DEADLOCK FALSE
PROPERTY PermissionEventsReplay
