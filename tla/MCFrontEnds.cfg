CONSTANTS
    tx = tx  sig = sig  bad = bad
    None = None
    Ids = {1, 2}
    Params = {tx, sig, bad}
    MethodOf <- Methods
    Setups <- RetriesAndReuses
    BroadcastLimit = 1
    Sessions = {1, 2}
    Sockets = {1, 2}
    MaxSeq = 1
    NoWrite = NoWrite
    Kinds = {"evm_dapp", "evm_wallet", "dapp", "wallet"}
    Objs = {1, 2}
    Reqs = {1, 2}
SPECIFICATION Spec
VIEW PartView
CHECK_DEADLOCK FALSE
INVARIANTS RecordsAnswerable     PanelBacked
