------------------------------- MODULE Provider -------------------------------
(***************************************************************************)
(* The EIP-1193 provider (evm/eip1193.ts) and the wagmi connector that     *)
(* owns it (evm/wagmi.ts): routing of calls, the cached chain and          *)
(* accounts, read-only calls with endpoint failover, and the connector's   *)
(* life cycle.                                                             *)
(*                                                                         *)
(* External: DAppSession, seen as its phase and as requests that settle;   *)
(* it delivers the frames of the wallet in order, may lose those under way *)
(* when its connection drops, and then asks again.  The wallet answers a   *)
(* request asked again from its cache, and sends chainChanged whenever its *)
(* chain changes.  fetch may succeed, fail, or return a node's error.      *)
(*                                                                         *)
(* Abstracted: params, results and the way a call ended; the formats of a  *)
(* chain id; the change events the connector passes on to wagmi.           *)
(***************************************************************************)
EXTENDS Naturals, Sequences

CONSTANTS
    Calls,                          \* request() calls of the dApp
    Methods,                        \* the methods it uses
    Chains, Accounts,               \* chain ids (positive); values of `accounts`
    NoAccounts,                     \* the empty array
    StaticChains,                   \* chains with endpoints in rpcUrls
    MAX_RPC_FAILOVER_ENDPOINTS,
    MaxFrames                       \* bound: frames of the wallet under way

CONNECT == "connect"                \* the eth_requestAccounts of connector.connect

ASSUME ProviderAssumption ==
    /\ Chains \subseteq Nat \ {0} /\ StaticChains \subseteq Chains
    /\ NoAccounts \notin Accounts /\ CONNECT \notin Calls
    /\ MAX_RPC_FAILOVER_ENDPOINTS \in Nat \ {0} /\ MaxFrames \in Nat

VARIABLES
    phase,          \* session.phase, "none" when the connector has no session
    prov,           \* fields of WalletPairProvider; made = FALSE: none yet
    rpc,            \* rpc.cache[ch]: cached urls; rpc.inflight: chains looked up
    calls,
    connector,      \* sessionEventsBound, and how far connect() is
    stored,         \* storage holds walletPair.session
    view,           \* what EIP-1193 listeners were last told
    wagmi,          \* what wagmi was last told
    wallet,         \* the wallet's chain and accounts
    frames,         \* frames of the wallet under way
    chainInfo       \* "learnt" once the wallet has told its chain, "lost" after
                    \* the connection has dropped, else "unknown"

vars == <<phase, prov, rpc, calls, connector, stored, view, wagmi, wallet, frames, chainInfo>>
connection == <<phase, connector, stored, wagmi>>

-----------------------------------------------------------------------------
(* Methods *)

WALLET_METHODS ==
    {"eth_requestAccounts", "eth_accounts", "personal_sign", "eth_signTypedData_v4",
     "eth_signTypedData_v3", "eth_sendTransaction", "eth_signTransaction",
     "wallet_switchEthereumChain", "wallet_addEthereumChain", "wallet_sendCalls",
     "wallet_getCallsStatus"}
LOCAL_METHODS == {"eth_chainId", "net_version", "wallet_getCapabilities"}
READ_ONLY_METHODS ==
    {"eth_call", "eth_getBalance", "eth_getCode", "eth_getStorageAt", "eth_getProof",
     "eth_getTransactionCount", "eth_blockNumber", "eth_getBlockByNumber", "eth_getBlockByHash",
     "eth_getBlockTransactionCountByNumber", "eth_getBlockTransactionCountByHash",
     "eth_getBlockReceipts", "eth_getTransactionByHash", "eth_getTransactionByBlockHashAndIndex",
     "eth_getTransactionByBlockNumberAndIndex", "eth_getTransactionReceipt", "eth_getLogs",
     "eth_estimateGas", "eth_createAccessList", "eth_gasPrice", "eth_maxPriorityFeePerGas",
     "eth_feeHistory"}

AccountMethods == {"eth_requestAccounts", "eth_accounts"}
TxMethods == {"eth_sendTransaction", "eth_signTransaction"}
ChainMethods == TxMethods \cup {"personal_sign", "eth_signTypedData_v3", "eth_signTypedData_v4"}

\* mapRequest: the wallet methods with no counterpart are refused.
Mapped == WALLET_METHODS \ {"wallet_addEthereumChain"}

\* Where dispatch sends a call.
route(m) ==
    IF prov.disconnected \/ m = "eth_sign" THEN "refused"
    ELSE IF m \in LOCAL_METHODS \/ (m = "eth_accounts" /\ prov.accounts # NoAccounts) THEN "local"
    ELSE IF m \in READ_ONLY_METHODS THEN "read"
    ELSE IF m \in WALLET_METHODS \ Mapped THEN "refused"
    ELSE "relay"

\* Mutant: the chain of the session is sent whatever chain the transaction names
ChainParam_session(m, embedded) == prov.chainId

\* The chain a call is sent with: a transaction's own chain id if it parses
\* (0: absent or not a number), else the provider's.
ChainParam(m, embedded) == IF m \in TxMethods /\ embedded \in Chains THEN embedded ELSE prov.chainId

-----------------------------------------------------------------------------
(* State *)

NoCall == [m |-> "none", st |-> "idle", chain |-> 0, asked |-> 0, i |-> 0, n |-> 0,
           res |-> "none", val |-> NoAccounts]
NoProvider == [made |-> FALSE, chainId |-> 0, accounts |-> NoAccounts, connected |-> FALSE,
               disconnected |-> FALSE]
NoRpc == [cache |-> [ch \in Chains |-> 0], inflight |-> {}]
Slots == Calls \cup {CONNECT}

Init ==
    /\ phase = "none" /\ prov = NoProvider /\ rpc = NoRpc
    /\ calls = [c \in Slots |-> NoCall]
    /\ connector = [bound |-> FALSE, connect |-> "no"]
    /\ stored = FALSE
    /\ view = [chain |-> 0, connected |-> FALSE]
    /\ wagmi = "disconnected"
    /\ wallet \in [chain : Chains, accounts : Accounts]
    /\ frames = <<>> /\ chainInfo = "unknown"

Ended == [NoCall EXCEPT !.st = "done"]

\* Calls that wait for an answer of the wallet
Asking == {c \in Slots : calls[c].st \in {"relayed", "answered", "stale"}}

\* session.request: refused unless the session is connected
Relayed(c) == IF phase = "connected" THEN [c EXCEPT !.st = "relayed"] ELSE Ended

\* A read with the endpoints it has found: the first one, or the wallet.
Fetching(c, n) == IF n = 0 THEN Relayed(c) ELSE [c EXCEPT !.st = "fetching", !.i = 1, !.n = n]

-----------------------------------------------------------------------------
(* Calls of the dApp *)

\* resolveEndpoints and serveReadOnly: the urls of the dApp and the wallet,
\* else the cached ones, else one lookup for all who wait for this chain.
serveReadOnly(c, m) ==
    LET ch == prov.chainId
        call == [NoCall EXCEPT !.m = m, !.chain = ch]
        n == IF ch \in StaticChains THEN MAX_RPC_FAILOVER_ENDPOINTS ELSE rpc.cache[ch]
    IN  IF n > 0 THEN calls' = [calls EXCEPT ![c] = Fetching(call, n)] /\ UNCHANGED rpc
        ELSE /\ calls' = [calls EXCEPT ![c] = [call EXCEPT !.st = "resolving"]]
             /\ rpc' = [rpc EXCEPT !.inflight = @ \cup {ch}]

\* request and dispatch, up to the first await
request(c, m) ==
    /\ prov.made /\ calls[c].st = "idle"
    /\ CASE route(m) \in {"refused", "local"} ->
              /\ calls' = [calls EXCEPT ![c] = Ended]
              /\ UNCHANGED rpc
         [] route(m) = "read" -> serveReadOnly(c, m)
         [] OTHER ->
              /\ \E e \in (IF m = "wallet_switchEthereumChain" THEN Chains ELSE IF m \in TxMethods THEN Chains \cup {0} ELSE {0}) :
                    calls' = [calls EXCEPT ![c] = Relayed([NoCall EXCEPT !.m = m,
                        !.chain = IF m = "wallet_switchEthereumChain" THEN e ELSE ChainParam(m, e),
                        !.asked = IF e \in Chains THEN e ELSE view.chain])]
              /\ UNCHANGED rpc
    /\ UNCHANGED <<connection, prov, view, wallet, frames, chainInfo>>

\* Mutant: those who wait for a list that turns out empty are not resumed
discovered_stuck(ch) ==
    /\ ch \in rpc.inflight
    /\ rpc' = [rpc EXCEPT !.inflight = @ \ {ch}]
    /\ UNCHANGED <<connection, prov, calls, view, wallet, frames, chainInfo>>

\* fetchEthereumDataRpc answers: only a non-empty list is cached, and all who
\* wait for it go on with the same list.
discovered(ch) ==
    /\ ch \in rpc.inflight
    /\ \E n \in 0..MAX_RPC_FAILOVER_ENDPOINTS :
          /\ rpc' = [cache |-> [rpc.cache EXCEPT ![ch] = n], inflight |-> rpc.inflight \ {ch}]
          /\ calls' = [c \in Slots |-> IF calls[c].st = "resolving" /\ calls[c].chain = ch
                                        THEN Fetching(calls[c], n) ELSE calls[c]]
    /\ UNCHANGED <<connection, prov, view, wallet, frames, chainInfo>>

\* jsonRpcFetchFailover: an answer or a definitive error ends the call, a
\* transient error or a failed fetch moves on, the last one to the wallet.
fetched(c) ==
    LET call == calls[c] IN
    /\ call.st = "fetching"
    /\ \/ calls' = [calls EXCEPT ![c] = Ended]
       \/ calls' = [calls EXCEPT ![c] = IF call.i < call.n THEN [call EXCEPT !.i = @ + 1]
                                         ELSE Relayed([call EXCEPT !.i = @ + 1])]
    /\ UNCHANGED <<connection, prov, rpc, view, wallet, frames, chainInfo>>

-----------------------------------------------------------------------------
(* The session closes, from inside or outside *)

\* Mutant: wagmi is not told
Closed_silent(s) ==
    /\ calls' = [c \in Slots |-> IF c \in Asking THEN Ended ELSE calls[c]]
    /\ stored' = FALSE /\ frames' = <<>> /\ chainInfo' = "unknown"
    /\ phase' = s /\ UNCHANGED wagmi

\* The listeners of phase "closed": the provider's, wagmi's, the one of a
\* connect() under way; the requests of the session are rejected.
Closed(s) ==
    /\ calls' = [c \in Slots |-> IF c \in Asking THEN Ended ELSE calls[c]]
    /\ wagmi' = IF connector.bound /\ phase # "closed" THEN "disconnected" ELSE wagmi
    /\ stored' = FALSE /\ frames' = <<>> /\ chainInfo' = "unknown"
    /\ phase' = s

close ==
    /\ phase \in {"waiting", "connected", "disconnected"}
    /\ Closed("closed")
    /\ prov' = [prov EXCEPT !.connected = FALSE]
    /\ view' = [view EXCEPT !.connected = FALSE]
    /\ connector' = [connector EXCEPT !.connect = "no"]
    /\ UNCHANGED <<rpc, wallet>>

\* The connection drops: the requests stay pending, frames under way are lost.
drop ==
    /\ phase = "connected"
    /\ phase' = "disconnected"
    /\ prov' = [prov EXCEPT !.connected = FALSE]
    /\ view' = [view EXCEPT !.connected = FALSE]
    /\ calls' = [c \in Slots |-> IF calls[c].st = "answered" THEN [calls[c] EXCEPT !.st = "relayed"] ELSE calls[c]]
    /\ frames' = <<>> /\ chainInfo' = "lost"
    /\ UNCHANGED <<rpc, connector, stored, wagmi, wallet>>

\* Phase "connected": the provider emits connect with its chain, and the
\* connect() that waits asks for the accounts.  (A connect() that is asking
\* when the session drops would ask a second time; its one answer stands.)
connected ==
    /\ phase \in {"waiting", "disconnected"}
    /\ phase' = "connected" /\ stored' = TRUE
    /\ prov' = [prov EXCEPT !.connected = TRUE]
    /\ view' = [chain |-> prov.chainId, connected |-> TRUE]
    /\ IF connector.connect = "waiting"
       THEN IF prov.disconnected
            THEN connector' = [connector EXCEPT !.connect = "no"] /\ UNCHANGED calls
            ELSE /\ connector' = [connector EXCEPT !.connect = "asking"]
                 /\ calls' = [calls EXCEPT ![CONNECT] = [NoCall EXCEPT !.m = "eth_requestAccounts", !.st = "relayed"]]
       ELSE UNCHANGED <<connector, calls>>
    /\ UNCHANGED <<rpc, wagmi, wallet, frames, chainInfo>>

-----------------------------------------------------------------------------
(* Frames of the wallet *)

Send(fs) == Len(frames) + Len(fs) <= MaxFrames /\ frames' = frames \o fs
ChainEvent(ch) == [t |-> "chainChanged", v |-> ch]
Response(c, ok, v) == [t |-> "res", c |-> c, ok |-> ok, v |-> v]

\* The wallet answers a request, or repeats the answer it gave before.  A
\* switch changes its chain and comes with an event, in either order.
walletAnswers(c) ==
    LET call == calls[c] IN
    /\ call.st = "relayed" /\ phase = "connected"
    /\ \E ok \in (IF call.res = "none" THEN BOOLEAN ELSE {call.res = "ok"}) :
       LET v == IF call.res = "none" THEN wallet.accounts ELSE call.val
           switched == ok /\ call.res = "none" /\ call.m = "wallet_switchEthereumChain" /\ call.chain # wallet.chain
       IN  /\ calls' = [calls EXCEPT ![c].st = "answered", ![c].res = IF ok THEN "ok" ELSE "err", ![c].val = v]
           /\ IF switched
              THEN /\ wallet' = [wallet EXCEPT !.chain = call.chain]
                   /\ \/ Send(<<ChainEvent(call.chain), Response(c, ok, v)>>)
                      \/ Send(<<Response(c, ok, v), ChainEvent(call.chain)>>)
              ELSE Send(<<Response(c, ok, v)>>) /\ UNCHANGED wallet
    /\ UNCHANGED <<connection, prov, rpc, view, chainInfo>>

\* The user changes chain or account in the wallet, or ends the session.
walletPushes ==
    /\ phase = "connected"
    /\ \/ \E ch \in Chains \ {wallet.chain} :
             /\ wallet' = [wallet EXCEPT !.chain = ch]
             /\ Send(<<ChainEvent(ch)>>)
       \/ \E a \in Accounts \ {wallet.accounts} :
             /\ wallet' = [wallet EXCEPT !.accounts = a]
             /\ Send(<<[t |-> "accountsChanged", v |-> a]>>)
       \/ Send(<<[t |-> "disconnect"]>>) /\ UNCHANGED wallet
    /\ UNCHANGED <<connection, prov, rpc, calls, view, chainInfo>>

\* Mutant: listeners are not told
Switched_silent(ch) ==
    /\ prov' = [prov EXCEPT !.chainId = ch]
    /\ chainInfo' = IF chainInfo = "lost" THEN "lost" ELSE "learnt"
    /\ UNCHANGED view

\* The provider takes over a chain: listeners are told if it is a new one.
Switched(ch) ==
    /\ prov' = [prov EXCEPT !.chainId = ch]
    /\ view' = IF ch # prov.chainId THEN [view EXCEPT !.chain = ch] ELSE view
    /\ chainInfo' = IF chainInfo = "lost" THEN "lost" ELSE "learnt"

\* Mutant: the chain is taken over whether or not the wallet agreed
responded_optimistic(f) ==
    /\ calls[f.c].m = "wallet_switchEthereumChain" /\ Switched(calls[f.c].chain)
    /\ calls' = [calls EXCEPT ![f.c] = Ended]
    /\ UNCHANGED <<connector, wagmi>>

\* dispatch after `await session.request`, and what awaits it in connect()
responded(f) ==
    LET call == calls[f.c]
        granted == f.ok /\ call.m \in AccountMethods
    IN  /\ calls' = [calls EXCEPT ![f.c] = Ended]
        /\ IF f.ok /\ call.m = "wallet_switchEthereumChain"
           THEN Switched(call.chain)
           ELSE /\ prov' = IF granted THEN [prov EXCEPT !.accounts = f.v] ELSE prov
                /\ UNCHANGED <<view, chainInfo>>
        /\ IF f.c = CONNECT
           THEN /\ connector' = [connector EXCEPT !.connect = "no"]
                /\ wagmi' = IF f.ok THEN "connected" ELSE wagmi
           ELSE UNCHANGED <<connector, wagmi>>

\* The session hands the next frame to the provider.
deliver ==
    /\ phase = "connected" /\ frames # <<>>
    /\ LET f == Head(frames) IN
       CASE f.t = "res" /\ calls[f.c].st = "answered" ->
              responded(f) /\ frames' = Tail(frames) /\ UNCHANGED <<phase, stored>>
         [] f.t = "res" /\ calls[f.c].st # "answered" ->
              frames' = Tail(frames) /\ UNCHANGED <<connection, prov, calls, view, chainInfo>>
         [] f.t = "chainChanged" ->
              Switched(f.v) /\ frames' = Tail(frames) /\ UNCHANGED <<connection, calls>>
         [] f.t = "accountsChanged" ->
              /\ prov' = [prov EXCEPT !.accounts = f.v]
              /\ frames' = Tail(frames) /\ UNCHANGED <<connection, calls, view, chainInfo>>
         [] f.t = "disconnect" ->
              /\ Closed("closed")
              /\ prov' = [prov EXCEPT !.connected = FALSE, !.disconnected = TRUE]
              /\ view' = [view EXCEPT !.connected = FALSE]
              /\ connector' = [connector EXCEPT !.connect = "no"]
    /\ UNCHANGED <<rpc, wallet>>

\* A request of the session times out.
timeout(c) ==
    /\ c \in Asking
    /\ calls' = [calls EXCEPT ![c] = Ended]
    /\ connector' = IF c = CONNECT THEN [connector EXCEPT !.connect = "no"] ELSE connector
    /\ UNCHANGED <<phase, stored, wagmi, prov, rpc, view, wallet, frames, chainInfo>>

-----------------------------------------------------------------------------
(* The connector *)

\* Whether wagmi finds a session to reconnect when the page loads.
isAuthorized == phase = "none" /\ stored

getOrCreateProvider(ch) == IF prov.made THEN prov ELSE [NoProvider EXCEPT !.made = TRUE, !.chainId = ch]

\* Session, provider and listeners are made if need be; then the snapshot
\* found on page load is restored, or a pairing starts, unless the relay
\* cannot be reached.  A new pairing has new keys: what was asked under
\* the old ones is not asked again.
connect(ch) ==
    /\ wagmi = "disconnected" /\ connector.connect = "no"
    /\ prov' = getOrCreateProvider(ch)
    /\ view' = [view EXCEPT !.chain = prov'.chainId]
    /\ \/ /\ connector' = [bound |-> TRUE, connect |-> "waiting"]
          /\ \/ isAuthorized /\ phase' = "disconnected"
             \/ phase' = "waiting"
          /\ calls' = [c \in Slots |-> IF c \in Asking THEN [calls[c] EXCEPT !.st = "stale"] ELSE calls[c]]
          /\ frames' = <<>> /\ chainInfo' = "unknown"
       \/ /\ connector' = [bound |-> TRUE, connect |-> "no"]
          /\ phase' = IF phase = "none" THEN "idle" ELSE phase
          /\ UNCHANGED <<calls, frames, chainInfo>>
    /\ UNCHANGED <<rpc, stored, wagmi, wallet>>

\* session.close(), then session and provider are forgotten.  A read of the
\* old provider ends on its own.
disconnect ==
    /\ phase # "none"
    /\ wagmi' = "disconnected"
    /\ calls' = [c \in Slots |-> IF calls[c].st = "idle" THEN NoCall ELSE Ended]
    /\ phase' = "none" /\ prov' = NoProvider /\ rpc' = NoRpc
    /\ view' = [chain |-> 0, connected |-> FALSE]
    /\ connector' = [bound |-> FALSE, connect |-> "no"]
    /\ stored' = FALSE /\ frames' = <<>> /\ chainInfo' = "unknown"
    /\ UNCHANGED wallet

\* The page is loaded again: only the storage is kept.
reload ==
    /\ stored
    /\ phase' = "none" /\ prov' = NoProvider /\ rpc' = NoRpc
    /\ calls' = [c \in Slots |-> IF calls[c].st = "idle" THEN NoCall ELSE Ended]
    /\ connector' = [bound |-> FALSE, connect |-> "no"]
    /\ view' = [chain |-> 0, connected |-> FALSE]
    /\ wagmi' = "disconnected"
    /\ frames' = <<>> /\ chainInfo' = "unknown"
    /\ UNCHANGED <<stored, wallet>>

Next ==
    \/ \E c \in Calls, m \in Methods : request(c, m)
    \/ \E ch \in Chains : discovered(ch) \/ connect(ch)
    \/ \E c \in Slots : fetched(c) \/ walletAnswers(c) \/ timeout(c)
    \/ close \/ drop \/ connected \/ walletPushes \/ deliver \/ disconnect \/ reload

\* fetch is bounded by RPC_TIMEOUT_MS and a request of the session settles.
Spec ==
    /\ Init /\ [][Next]_vars
    /\ \A ch \in Chains : WF_vars(discovered(ch))
    /\ \A c \in Slots : WF_vars(fetched(c)) /\ WF_vars(timeout(c))

-----------------------------------------------------------------------------
(* Properties *)

\* The provider, the connector, the calls and the RPC cache have their types; a
\* cache entry never holds more endpoints than MAX_RPC_FAILOVER_ENDPOINTS
TypeOK ==
    /\ phase \in {"none", "idle", "waiting", "connected", "disconnected", "closed"}
    /\ prov \in [made : BOOLEAN, chainId : Chains \cup {0}, accounts : Accounts \cup {NoAccounts},
                 connected : BOOLEAN, disconnected : BOOLEAN]
    /\ rpc.inflight \subseteq Chains /\ rpc.cache \in [Chains -> 0..MAX_RPC_FAILOVER_ENDPOINTS]
    /\ \A c \in Slots : calls[c].st \in {"idle", "resolving", "fetching", "relayed", "answered", "stale", "done"}
    /\ connector.connect \in {"no", "waiting", "asking"}
    /\ wagmi \in {"connected", "disconnected"} /\ Len(frames) <= MaxFrames

\* isConnected() and eth_chainId agree with the last connect, disconnect and
\* chainChanged event the listeners got, through every path that changes
\* them: phases, wallet events, a resolved switch, a new pairing.
ListenersCurrent == prov.made => view = [chain |-> prov.chainId, connected |-> prov.connected]

\* Once the provider has learnt the wallet's chain, and as long as the
\* connection has not dropped, it has the wallet's chain as soon as no frame is under way: the
\* optimistic update after a switch and the chainChanged events, which race,
\* never leave it on another one.
ChainInSync ==
    (phase = "connected" /\ chainInfo = "learnt" /\ frames = <<>>) => prov.chainId = wallet.chain

\* wagmi.ts:186: "A permanently-closed session ... must move wagmi to a
\* disconnected state": while wagmi says connected, the session is alive.
WagmiNotStale == wagmi = "connected" => phase \in {"connected", "disconnected"}

\* What reaches the wallet is what should: a read only after every endpoint known
\* for its chain has failed, at most MAX_RPC_FAILOVER_ENDPOINTS of them, and a
\* request to sign with the chain its transaction names, or else the chain the
\* dApp's listeners had been told when it was made.
RelayedRightly ==
    /\ TypeOK
    /\ \A c \in Calls : calls[c].st = "relayed" =>
         /\ calls[c].m \in READ_ONLY_METHODS => calls[c].i = calls[c].n + (IF calls[c].n = 0 THEN 0 ELSE 1)
         /\ calls[c].m \in ChainMethods => calls[c].chain = calls[c].asked

\* Every call ends: no lookup, failing endpoint, closed session or forgotten
\* provider leaves its promise hanging.
EveryCallEnds == \A c \in Calls : calls[c].st # "idle" ~> calls[c].st = "done"
=============================================================================
