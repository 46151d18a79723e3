SPECIFICATION RelaySpec
CONSTANTS
    d1 = d1  d2 = d2  w1 = w1  w2 = w2  D = D  W = W  V = V
    None = None
    Conns = {d1, d2, w1, w2}
    DApps = {D}
    Wallets = {W, V}
    PeerOf <- TwoWallets
    Ids = {1, 2}
    QueueSize = 1
    PendingLimit = 1
    Setups <- AllSetups
    c1 = c1  c2 = c2  c3 = c3
    Channels = {c1, c2, c3}
    Tasks = {t1, t2, t3}
    Shards = 2
    ShardOf <- TwoShards
    MaxChannels = 1
    Usize = 16
    MaxLost = 2
VIEW View
INVARIANTS  Accounting OvershootBounded
PROPERTIES WalletPinned KeepsRegistration
CHECK_DEADLOCK FALSE
