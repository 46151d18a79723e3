CONSTANTS
    Calls = {c1}
    Methods = {"eth_sign", "eth_chainId", "eth_accounts", "eth_call", "eth_sendTransaction", "wallet_switchEthereumChain", "wallet_addEthereumChain"}
    Chains = {1, 2}
    Accounts = {a1}
    NoAccounts = NoAccounts
    StaticChains = {1}
    MAX_RPC_FAILOVER_ENDPOINTS = 2
    MaxFrames = 3
SPECIFICATION Spec
CHECK_DEADLOCK FALSE
INVARIANTS
    
    ListenersCurrent
    
    
PROPERTY
    EveryCallEnds
