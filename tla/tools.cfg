SPECIFICATION ToolsSpec
CONSTANTS
    k1 = k1
    k2 = k2
    odd = odd
    SystemProgram = SystemProgram
    NoKey = NoKey
    Keys = {k1, k2, odd, SystemProgram}
    ValidKeys = {k1, k2, SystemProgram}
    Notifications <- MCNotifications
    Offers <- MCOffers
    MinConfidence = 600000
    FeatureTtl = 1
    MaxSupply = 1000000000
    MinLiquidity = 1000
    MaxTax = 0
    MaxPrice = 10
    Good = {"good"}
    Broken = {"broken"}
    Unfit = {"unfit"}
    Missing = {"missing"}
    NoModel = "none"
    Requests = {r1, r2, r3}
    Threshold = 2
    Recovery = 2
    MaxFailures = 4
    Tasks = {"t1", "t2", "t3"}
    Signatures = {"s1", "s2"}
    Pools = {"p1", "p2", "p3"}
    Tokens = {"m1", "m2"}
    CacheSize = 2
    BaseFee = 5000
    Congestions <- MCCongestions
    r1 = r1
    r2 = r2
    r3 = r3
    Runs = {r1, r2}
    KindOf <- MCKindOf
    OpportunityOf <- MCOpportunityOf
    MaxRetries = 2
    BaseTip = 10000
    MaxTipPercentage = 50
    Accounts = {"a1", "a2"}
    Ttl = 2
    Processes = {"bot", "setup", "reader"}
    KeyOf <- MCKeyOf
    Unset = Unset
    Placeholder <- MCPlaceholder
    Wallets = {"small", "large"}
    LengthOf <- MCLengthOf
    Positions = {"x1", "x2", "x3"}
    Capital = 1000
    max_daily_loss_sol = 30
    max_open_positions = 2
    fee_reserve_sol = 20
    min_trade_sol = 5
    max_fraction = 5
    kelly_fraction = 25
    Odds <- MCOdds
    Gains <- MCGains
    stop_loss_bps = 2000
    trailing_activation_bps = 30000
    trailing_distance_bps = 15000
    MaxTrades = 3
    OrderIds = {"o1", "o2"}
    WalletList <- MCWalletList
    MaxOrders = 4
    Setups = {"i1", "i2"}
    Null = Null
    Inserts = {r1, r2, r3, odd}
    TradeOf <- MCTradeOf
    HealthStops = {"main", "handler"}
INVARIANTS
    ConfirmedRight
    ConfirmationsKept
    LruExact
    SentOnce
    FreshKept
    WalletKept
    LossBounded
    NoncesApart
    LedgerExact
    PortFreed
PROPERTIES
    BreakerBlocks
CHECK_DEADLOCK FALSE
