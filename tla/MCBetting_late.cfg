SPECIFICATION Spec
CONSTANTS
    u1 = u1
    u2 = u2
    m1 = m1
    m2 = m2
    t1 = t1
    t2 = t2
    t3 = t3
    Users = {u1}
    Markets = {m1}
    WinnerIds = {"YES"}
    Stakes = {2}
    Quotes = {2}
    MaxBets = 2
    Tx = {t1, t2}
    NumAccounts = 4
    HousePromo = 1
    HouseRevenue = 2
    WalletOf <- OneWallet
    LiabilityOf <- OnePool
    PromoOpening = 6
    RechargeAmounts = {4}
    MaxFunding = 4
    MaxTime = 1
    KeyRank <- Backwards
    None = None
    PriceScale = 4
SYMMETRY Requests
PROPERTIES NoLateBet
CHECK_DEADLOCK FALSE
