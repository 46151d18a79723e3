SPECIFICATION Spec
CONSTANTS
    Pages = {p1}
    Calls = {c1}
    Methods = {"eth_requestAccounts", "wallet_requestPermissions", "personal_sign", "eth_call"}
    MaxWrites = 2
    MaxInbox = 1
INVARIANTS GrantsRespected 
PROPERTY EveryPromiseSettles
CHECK_DEADLOCK FALSE
