SPECIFICATION MCSpec
CONSTANTS
    None = None
    alice = alice
    bob = bob
    app = app
    v1 = v1
    v2 = v2
    send = send
    a1 = a1
    a2 = a2
    w1 = w1
    repo = repo
    Accounts = {alice, bob}
    Names = {app}
    Versions = {v1, v2}
    Operations = {send}
    Pricings <- MCPricings
    Creators = {alice, bob}
    Acceptors = {alice, bob}
    Pauses = {TRUE, FALSE}
    ProjectDeposit <- MCProjectDeposit
    VersionDeposit <- MCVersionDeposit
    AcceptDeposit = 1
    MaxProjects = 3
    Wallets = {w1}
    Approvers = {a1, a2}
    Policies <- MCPolicies
    Legacy <- MCLegacy
    PolicyCost <- MCPolicyCost
    RefundCost = 1
    TTL = 1
    MaxNow = 2
    MaxVersion = 2
    MaxSignatures = 2
    MaxLives = 1
    Keys <- MCKeys
    Repos <- MCRepos
    Hashes = {}
    Texts = {text}
    Conditions = {"AllowAll", "Whitelist"}
    Vaults = {vault}
    TextCost <- MCTextCost
    ConditionCost <- MCConditionCost
    BindingCost = 3
    MaxConsents = 2
    Segments <- MCSegments
    Requests <- MCRequests
    KeyTables <- MCKeyTables
    SubPaths = {"perp"}
    DepositViews <- MCDepositViews
    DepositCeiling = 1
    MaxVotes = 2
    NoRow = NoRow
    Written = Written
    Accessors <- MCAccessors
    Normalised <- MCNormalised
    RootedNames = {"task-key"}
    VaultArgs = {vault}
    PlainKeys = {"token"}
    ReservedKeys = {"LD_PRELOAD"}
    ProtectedKeys = {"PROTECTED_A"}
    LegacyRows <- MCLegacyRows
    UpdateRequests <- MCUpdateRequests
    GeneratedRequests <- MCGeneratedRequests
    MaxGenerated = 2
    MaxBatches = 2
INVARIANTS
    RecordsAgree
    FreezeStopsSigning
    SecretRowsFunded
    SignsAsAllowed
    
PROPERTIES
    DepositAccounting
    
