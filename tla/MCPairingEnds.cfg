CONSTANTS
    w1 = w1
    Dapp = Dapp
    w2 = w2
    Wallets = {w1, w2}
    Setups <- AllSetups
    MaxJoins = 1
    MaxSeq = 1
    MaxDrops = 2
    None = None
SPECIFICATION Spec
CHECK_DEADLOCK FALSE
INVARIANT OnlyDeliberateEnds
