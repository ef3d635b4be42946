SPECIFICATION Spec
CONSTANTS
    u1 = u1
    u2 = u2
    k1 = k1
    t1 = t1
    t2 = t2
    t3 = t3
    HousePromo = 1
    HouseRevenue = 2
    Escrow = 3
    Pool = 4
    None = None
    Users = {u1, u2}
    WalletOf <- TwoWallets
    NumAccounts = 6
    Stakes = {2}
    Payouts = {2, 3}
    ClientKeys = {k1}
    Amounts = {2}
    BonusAmount = 4
    MaxStakes = 1
    PromoOpening = 5
    Tx = {t1, t2}
    NumLiveBets = 2
INVARIANTS TypeOK KeysPayOnce EscrowBacksMirror TransfersTellMirror PlacementWillPost CirclesNeedAPlacement
PROPERTIES ActsAtomically
SYMMETRY Requests
