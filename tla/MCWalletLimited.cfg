SPECIFICATION WalletSpec
CONSTANTS
    tx = tx  sig = sig  bad = bad
    None = None
    Ids = {1, 2}
    Params = {tx, sig, bad}
    MethodOf <- Methods
    Setups <- Limited
    BroadcastLimit = 1
VIEW SessionView
INVARIANT BroadcastsKept
CHECK_DEADLOCK FALSE
