CONSTANTS
    dev = dev
    user = user
    other = other
    app = app
    v1 = v1
    send = send
    usdc = usdc
    usdt = usdt
    None = None
    Accounts = {dev, user}
    Names = {app}
    Versions = {v1}
    Operations = {send}
    Pricings <- MCPricings
    Creators = {dev}
    Acceptors = {}
    Pauses = {}
    ProjectDeposit <- MCProjectDeposit
    VersionDeposit <- MCVersionDeposit
    AcceptDeposit = 1
    MaxProjects = 1
    Users = {user}
    Payers = {user}
    Tokens = {usdc}
    OwnerTokens = {usdc}
    Limits = {1}
    Usages <- OneUsage
    InputDeposits = {0}
    Payments = {2}
    Attachments = {2}
    GuestRefunds = {0, 1}
    Deposits = {2}
    FeeSchedules = {}
    InitialFees <- MCInitialFees
    MaxRequests = 1
    MaxDeposited = 2
    MaxWithdrawals = 1
SPECIFICATION Spec
INVARIANTS
    AttachedUsdNeverDropped
