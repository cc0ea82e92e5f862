CONSTANTS
    dev = dev
    user = user
    other = other
    app = app
    v1 = v1
    send = send
    usdc = usdc
    usdt = usdt
    None = None
    Accounts = {dev, user}
    Names = {app}
    Versions = {v1}
    Operations = {send}
    Pricings <- MCPricings
    Creators = {dev}
    Acceptors = {}
    Pauses = {}
    ProjectDeposit <- MCProjectDeposit
    VersionDeposit <- MCVersionDeposit
    AcceptDeposit = 1
    MaxProjects = 1
    Users = {user}
    Payers = {dev}
    Tokens = {usdc}
    OwnerTokens = {usdc, None}
    Limits = {1}
    Usages <- OneUsage
    InputDeposits = {1}
    Payments = {4}
    Attachments = {2}
    GuestRefunds = {0, 1}
    Deposits = {2}
    FeeSchedules <- MCFeeSchedules
    InitialFees <- MCInitialFees
    MaxRequests = 2
    MaxDeposited = 4
    MaxWithdrawals = 1
SPECIFICATION Spec
INVARIANTS
    AttachedUsdAccounted
    TokensConserved
PROPERTIES
    SettledOnce
    
