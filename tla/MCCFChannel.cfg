SPECIFICATION Spec
CONSTANTS
    DApps = {d1}  Wallets = {w1, w2}
    Socks = {s1, s2, s3}
    Ids = {1, 2}
    NoPeer = NoPeer
    PENDING_REQUEST_LIMIT = 1
INVARIANTS   PendingHasWallet
 
