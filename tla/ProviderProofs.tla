--------------------------- MODULE ProviderProofs ---------------------------
(***************************************************************************)
(* Proofs about Provider, for any number of calls, chains, accounts,       *)
(* endpoints and frames under way.                                         *)
(*                                                                         *)
(* The hard one is ChainInSync: the answer to a switch and the             *)
(* chainChanged events race, and each sets the chain of the provider.      *)
(* Synced says which frames under way agree with the wallet: the last      *)
(* event, and every granted switch behind it; once no event is under way   *)
(* the provider itself does.  It is kept because a switch is granted once  *)
(* (FirstAnswers: repeated answers belong to a connection that has         *)
(* dropped) and because no frame is under way for a request that has yet   *)
(* to be answered (Latest).                                                *)
(***************************************************************************)
EXTENDS Provider, TLAPS

\* Time for the slower leaves
USE SMTT(30), ZenonT(30)

-----------------------------------------------------------------------------
(* The inductive invariant *)

Switch == "wallet_switchEthereumChain"

CallRecords ==
    [m : Methods \cup {"none", "eth_requestAccounts"}, chain : Chains \cup {0}, asked : Chains \cup {0},
     st : {"idle", "resolving", "fetching", "relayed", "answered", "stale", "done"},
     i : Nat, n : Nat, res : {"none", "ok", "err"}, val : Accounts \cup {NoAccounts}]

FrameRecords ==
    [t : {"chainChanged"}, v : Chains] \cup [t : {"accountsChanged"}, v : Accounts] \cup [t : {"disconnect"}]
      \cup [t : {"res"}, c : Slots, ok : BOOLEAN, v : Accounts \cup {NoAccounts}]

Types ==
    /\ phase \in {"none", "idle", "waiting", "connected", "disconnected", "closed"}
    /\ prov \in [made : BOOLEAN, chainId : Chains \cup {0}, accounts : Accounts \cup {NoAccounts},
                 connected : BOOLEAN, disconnected : BOOLEAN]
    /\ rpc \in [cache : [Chains -> 0 .. MAX_RPC_FAILOVER_ENDPOINTS], inflight : SUBSET Chains]
    /\ calls \in [Slots -> CallRecords]
    /\ connector \in [bound : BOOLEAN, connect : {"no", "waiting", "asking"}]
    /\ view \in [chain : Chains \cup {0}, connected : BOOLEAN]
    /\ wagmi \in {"connected", "disconnected"}
    /\ wallet \in [chain : Chains, accounts : Accounts]
    /\ frames \in Seq(FrameRecords) /\ Len(frames) <= MaxFrames
    /\ chainInfo \in {"unknown", "learnt", "lost"}

\* There is a provider, bound to its session, exactly while the connector has
\* one; without it nothing is known of a chain
Owned ==
    /\ prov.made <=> phase # "none"
    /\ phase # "none" => connector.bound /\ prov.chainId \in Chains
    /\ phase = "none" => chainInfo = "unknown" /\ ~view.connected

\* A call that has reached the wallet, or may reach it again
RightCall(call) ==
    /\ call.st \in {"resolving", "fetching"} => call.m \in READ_ONLY_METHODS /\ call.res = "none"
    /\ call.st = "resolving" => call.i = 0 /\ call.n = 0
    /\ call.st = "fetching" => call.i \in 1 .. call.n
    /\ call.st \in {"relayed", "answered"} =>
         /\ call.m \in READ_ONLY_METHODS => call.i = call.n + (IF call.n = 0 THEN 0 ELSE 1)
         /\ call.m \in ChainMethods => call.chain = call.asked

\* The wallet only repeats an answer after the connection has dropped
FirstAnswers == \A c \in Slots : calls[c].st = "relayed" /\ calls[c].res # "none" => chainInfo = "lost"

\* Frames that set the provider's chain
EventAt(i)  == frames[i].t = "chainChanged"
SwitchAt(i) == frames[i].t = "res" /\ frames[i].ok
               /\ calls[frames[i].c].st = "answered" /\ calls[frames[i].c].m = Switch
NoEventAfter(i) == \A j \in 1 .. Len(frames) : j > i => ~EventAt(j)

\* The last event under way and the switches behind it are of the wallet's
\* chain; the provider has that chain if no event is under way.
Synced ==
    chainInfo # "lost" =>
        /\ \A i \in 1 .. Len(frames) : EventAt(i) /\ NoEventAfter(i) => frames[i].v = wallet.chain
        /\ \A i \in 1 .. Len(frames) : SwitchAt(i) /\ NoEventAfter(i) => calls[frames[i].c].chain = wallet.chain
        /\ chainInfo = "learnt" /\ NoEventAfter(0) => prov.chainId = wallet.chain

Base == Types /\ Owned /\ ListenersCurrent /\ WagmiNotStale

IInv == Base /\ (\A c \in Slots : RightCall(calls[c])) /\ FirstAnswers /\ Synced

\* A frame under way for a call of the dApp is the answer it got: a request that
\* the wallet has yet to answer has none.  Only the dApp asks for another chain
Latest ==
    /\ \A i \in 1 .. Len(frames) : frames[i].t = "res" /\ frames[i].c \in Calls =>
          calls[frames[i].c].st \in {"answered", "stale", "done"}
    /\ calls[CONNECT].m # Switch
    /\ \A c \in Calls : calls[c].m = Switch => calls[c].chain \in Chains

-----------------------------------------------------------------------------
(* Calls *)

\* A read is not a request to sign.
LEMMA ReadsDiffer == \A m \in READ_ONLY_METHODS : m \notin ChainMethods
BY DEF READ_ONLY_METHODS, ChainMethods, TxMethods

\* A slot before its call and after it.
LEMMA Blank ==
    /\ NoCall \in CallRecords /\ RightCall(NoCall) /\ NoCall.st = "idle"
    /\ Ended \in CallRecords /\ RightCall(Ended) /\ Ended.st = "done"
BY DEF NoCall, Ended, CallRecords, RightCall

\* session.request keeps a call as it is, or ends it.
LEMMA RelayedCall ==
    ASSUME NEW call \in CallRecords,
           call.m \in READ_ONLY_METHODS => call.i = call.n + (IF call.n = 0 THEN 0 ELSE 1),
           call.m \in ChainMethods => call.chain = call.asked
    PROVE  /\ Relayed(call) \in CallRecords /\ RightCall(Relayed(call))
           /\ Relayed(call).st \in {"relayed", "done"}
           /\ Relayed(call).st = "relayed" => Relayed(call).res = call.res
<1>1. CASE phase = "connected"
  <2>1. Relayed(call) = [call EXCEPT !.st = "relayed"]  BY <1>1 DEF Relayed
  <2> QED BY <2>1 DEF CallRecords, RightCall
<1>2. CASE phase # "connected"
  BY <1>2, Blank DEF Relayed
<1> QED BY <1>1, <1>2

\* A read that has found its endpoints starts with the first.
LEMMA FetchingCall ==
    ASSUME NEW call \in CallRecords, NEW n \in Nat, call.m \in READ_ONLY_METHODS,
           call.i = 0, call.n = 0, call.res = "none"
    PROVE  /\ Fetching(call, n) \in CallRecords /\ RightCall(Fetching(call, n))
           /\ Fetching(call, n).st \in {"fetching", "relayed", "done"}
           /\ Fetching(call, n).st = "relayed" => Fetching(call, n).res = "none"
<1>1. CASE n = 0
  BY <1>1, RelayedCall, ReadsDiffer DEF Fetching
<1>2. CASE n # 0
  <2>1. Fetching(call, n) = [call EXCEPT !.st = "fetching", !.i = 1, !.n = n]  BY <1>2 DEF Fetching
  <2>2. Fetching(call, n) \in CallRecords
    <3>1. [call EXCEPT !.st = "fetching"] \in CallRecords  BY DEF CallRecords
    <3>2. ASSUME NEW x \in CallRecords PROVE [x EXCEPT !.i = 1] \in CallRecords  BY DEF CallRecords
    <3>3. ASSUME NEW x \in CallRecords PROVE [x EXCEPT !.n = n] \in CallRecords  BY DEF CallRecords
    <3> QED BY ZenonT(30), <2>1, <3>1, <3>2, <3>3
  <2>3. /\ Fetching(call, n).st = "fetching" /\ Fetching(call, n).i = 1 /\ Fetching(call, n).n = n
        /\ Fetching(call, n).m = call.m /\ Fetching(call, n).res = call.res
    BY <2>1 DEF CallRecords
  <2>4. 1 \in 1 .. n  BY <1>2
  <2> QED BY <2>2, <2>3, <2>4 DEF RightCall
<1> QED BY <1>1, <1>2

-----------------------------------------------------------------------------
(* Frames *)

\* Nothing that sets the chain has changed.
LEMMA SyncedQuiet ==
    ASSUME Synced, UNCHANGED <<frames, wallet, chainInfo>>,
           chainInfo = "learnt" => prov'.chainId = prov.chainId,
           \A i \in 1 .. Len(frames) : frames[i].t = "res" => frames[i].c \in Slots,
           \A c \in Slots : calls'[c].st = "answered" => calls'[c] = calls[c]
    PROVE  Synced'
<1> SUFFICES ASSUME chainInfo # "lost" PROVE Synced'  BY DEF Synced
<1>1. \A i \in 1 .. Len(frames) : /\ EventAt(i)' <=> EventAt(i)
                                  /\ SwitchAt(i)' => SwitchAt(i) /\ calls'[frames[i].c] = calls[frames[i].c]
  BY DEF EventAt, SwitchAt
<1>2. \A i : NoEventAfter(i)' <=> NoEventAfter(i)  BY <1>1 DEF NoEventAfter
<1>3. \A i \in 1 .. Len(frames) : EventAt(i)' /\ NoEventAfter(i)' => frames'[i].v = wallet'.chain
  BY <1>1, <1>2 DEF Synced
<1>4. \A i \in 1 .. Len(frames) : SwitchAt(i)' /\ NoEventAfter(i)' => calls'[frames'[i].c].chain = wallet'.chain
  BY <1>1, <1>2 DEF Synced
<1>5. chainInfo' = "learnt" /\ NoEventAfter(0)' => prov'.chainId = wallet'.chain
  BY <1>2 DEF Synced
<1> QED BY <1>3, <1>4, <1>5 DEF Synced

\* The frames under way are forgotten.
LEMMA SyncedReset ==
    ASSUME frames' = <<>>, chainInfo' \in {"unknown", "lost"}
    PROVE  Synced'
BY DEF Synced

\* What the types say of a frame.
LEMMA FrameTypes ==
    ASSUME Types
    PROVE  /\ \A i \in 1 .. Len(frames) : frames[i] \in FrameRecords
           /\ \A i \in 1 .. Len(frames) : frames[i].t = "res" => frames[i].c \in Slots
<1>1. \A i \in 1 .. Len(frames) : frames[i] \in FrameRecords  BY DEF Types
<1> QED BY <1>1 DEF FrameRecords

-----------------------------------------------------------------------------
(* Steps of calls *)

\* A slot that has changed, but not to an answer
Fine(call) ==
    /\ call \in CallRecords /\ RightCall(call) /\ call.st # "answered"
    /\ call.st = "relayed" /\ call.res # "none" => chainInfo = "lost"

\* Calls change while the frames, the wallet and the provider stay.
LEMMA CallsMove ==
    ASSUME IInv, calls' = [c \in Slots |-> calls'[c]],
           \A c \in Slots : calls'[c] = calls[c] \/ Fine(calls'[c]),
           UNCHANGED <<frames, wallet, chainInfo, prov>>
    PROVE  /\ calls' \in [Slots -> CallRecords]
           /\ (\A c \in Slots : RightCall(calls[c]))' /\ FirstAnswers' /\ Synced'
<1>1. \A c \in Slots : calls[c] \in CallRecords  BY DEF IInv, Base, Types
<1>2. \A c \in Slots : calls'[c] \in CallRecords /\ RightCall(calls'[c])  BY <1>1 DEF IInv, Fine
<1>3. calls' \in [Slots -> CallRecords]  BY <1>2
<1>4. FirstAnswers'  BY DEF IInv, FirstAnswers, Fine
<1>5. Synced'
  <2>1. \A c \in Slots : calls'[c].st = "answered" => calls'[c] = calls[c]  BY DEF Fine
  <2> QED BY <2>1, SyncedQuiet, FrameTypes DEF IInv, Base
<1> QED BY <1>2, <1>3, <1>4, <1>5

\* One call changes.
LEMMA CallMoves ==
    ASSUME IInv, NEW c \in Slots, NEW x, Fine(x), calls' = [calls EXCEPT ![c] = x],
           UNCHANGED <<frames, wallet, chainInfo, prov>>
    PROVE  /\ calls' \in [Slots -> CallRecords]
           /\ (\A d \in Slots : RightCall(calls[d]))' /\ FirstAnswers' /\ Synced'
<1>1. calls = [d \in Slots |-> calls[d]]  BY DEF IInv, Base, Types
<1>2. calls' = [d \in Slots |-> calls'[d]]  BY <1>1
<1>3. \A d \in Slots : calls'[d] = calls[d] \/ Fine(calls'[d])  BY <1>1
<1> QED BY <1>2, <1>3, CallsMove

\* Neither the provider, its listeners nor the connection change.
LEMMA BaseQuiet ==
    ASSUME IInv, UNCHANGED <<connection, prov, view, wallet, frames, chainInfo>>,
           calls' \in [Slots -> CallRecords],
           rpc' \in [cache : [Chains -> 0 .. MAX_RPC_FAILOVER_ENDPOINTS], inflight : SUBSET Chains]
    PROVE  Base'
BY DEF IInv, Base, Types, Owned, ListenersCurrent, WagmiNotStale, connection

\* request: refused, answered, read or relayed.
LEMMA RequestStep ==
    ASSUME IInv, NEW c \in Calls, NEW m \in Methods, request(c, m)
    PROVE  IInv'
<1>0. /\ c \in Slots /\ prov.chainId \in Chains /\ view.chain = prov.chainId
      /\ UNCHANGED <<connection, prov, view, wallet, frames, chainInfo>>
      /\ rpc \in [cache : [Chains -> 0 .. MAX_RPC_FAILOVER_ENDPOINTS], inflight : SUBSET Chains]
  <2>1. prov.made /\ UNCHANGED <<connection, prov, view, wallet, frames, chainInfo>>  BY ZenonT(30) DEF request
  <2>2. prov.chainId \in Chains  BY <2>1 DEF IInv, Base, Owned
  <2>3. view.chain = prov.chainId  BY <2>1 DEF IInv, Base, ListenersCurrent
  <2>4. rpc \in [cache : [Chains -> 0 .. MAX_RPC_FAILOVER_ENDPOINTS], inflight : SUBSET Chains]
    BY DEF IInv, Base, Types
  <2> QED BY <2>1, <2>2, <2>3, <2>4 DEF Slots
<1>1. Fine(Ended)  BY Blank DEF Fine
<1> SUFFICES \E x : /\ Fine(x) /\ calls' = [calls EXCEPT ![c] = x]
                    /\ rpc' \in [cache : [Chains -> 0 .. MAX_RPC_FAILOVER_ENDPOINTS], inflight : SUBSET Chains]
  BY ZenonT(30), <1>0, CallMoves, BaseQuiet DEF IInv
<1>2. CASE route(m) \in {"refused", "local"}
  BY ZenonT(30), <1>0, <1>1, <1>2 DEF request
<1>3. CASE route(m) = "read"
  <2> DEFINE ch == prov.chainId
             call == [NoCall EXCEPT !.m = m, !.chain = ch]
             n == IF ch \in StaticChains THEN MAX_RPC_FAILOVER_ENDPOINTS ELSE rpc.cache[ch]
  <2>1. serveReadOnly(c, m)  BY <1>3 DEF request
  <2>2. m \in READ_ONLY_METHODS  BY <1>3 DEF route
  <2>3. n \in Nat
    <3>1. rpc.cache[ch] \in 0 .. MAX_RPC_FAILOVER_ENDPOINTS  BY <1>0
    <3> QED BY <3>1, ProviderAssumption
  <2>4. /\ call \in CallRecords /\ call.m = m /\ call.i = 0 /\ call.n = 0 /\ call.res = "none"
    BY ZenonT(30), <1>0 DEF NoCall, CallRecords
  <2>5. CASE n > 0
    <3>1. calls' = [calls EXCEPT ![c] = Fetching(call, n)] /\ rpc' = rpc  BY <2>1, <2>5 DEF serveReadOnly
    <3>2. Fine(Fetching(call, n))  BY ZenonT(30), <2>2, <2>3, <2>4, FetchingCall DEF Fine
    <3> QED BY ZenonT(30), <1>0, <3>1, <3>2
  <2>6. CASE ~(n > 0)
    <3>1. /\ calls' = [calls EXCEPT ![c] = [call EXCEPT !.st = "resolving"]]
          /\ rpc' = [rpc EXCEPT !.inflight = @ \cup {ch}]
      BY <2>1, <2>6 DEF serveReadOnly
    <3>2. Fine([call EXCEPT !.st = "resolving"])  BY ZenonT(30), <2>2, <2>4 DEF Fine, CallRecords, RightCall
    <3>3. rpc' \in [cache : [Chains -> 0 .. MAX_RPC_FAILOVER_ENDPOINTS], inflight : SUBSET Chains]
      BY <1>0, <3>1
    <3> QED BY ZenonT(30), <3>1, <3>2, <3>3
  <2> QED BY <2>5, <2>6
<1>4. CASE route(m) \notin {"refused", "local", "read"}
  <2>1. PICK e \in Chains \cup {0} :
          /\ m \notin TxMethods \cup {Switch} => e = 0
          /\ calls' = [calls EXCEPT ![c] = Relayed([NoCall EXCEPT !.m = m,
                          !.chain = IF m = Switch THEN e ELSE ChainParam(m, e),
                          !.asked = IF e \in Chains THEN e ELSE view.chain])]
          /\ rpc' = rpc
    BY ZenonT(30), <1>4 DEF request, Switch
  <2> DEFINE call == [NoCall EXCEPT !.m = m, !.chain = IF m = Switch THEN e ELSE ChainParam(m, e),
                                    !.asked = IF e \in Chains THEN e ELSE view.chain]
  <2>2. call \in CallRecords  BY ZenonT(30), <1>0 DEF NoCall, CallRecords, ChainParam
  <2>3. m \notin READ_ONLY_METHODS  BY <1>4 DEF route
  <2>4. m \in ChainMethods => call.chain = call.asked
    BY <1>0, <2>1, ProviderAssumption DEF ChainParam, ChainMethods, TxMethods, NoCall, Switch
  <2>5. call.m = m /\ call.res = "none"  BY DEF NoCall
  <2>6. Fine(Relayed(call))
    <3>1. call.m \notin READ_ONLY_METHODS /\ (call.m \in ChainMethods => call.chain = call.asked)
      BY <2>3, <2>4, <2>5
    <3> HIDE DEF call
    <3>2. /\ Relayed(call) \in CallRecords /\ RightCall(Relayed(call))
          /\ Relayed(call).st \in {"relayed", "done"}
          /\ Relayed(call).st = "relayed" => Relayed(call).res = call.res
      BY <2>2, <3>1, RelayedCall
    <3> QED BY <2>5, <3>2 DEF Fine
  <2> QED BY ZenonT(30), <1>0, <2>1, <2>6
<1> QED BY <1>2, <1>3, <1>4

\* The endpoints of a chain arrive: those who wait for them go on.
LEMMA DiscoveredStep ==
    ASSUME IInv, NEW ch \in Chains, discovered(ch)
    PROVE  IInv'
<1>0. UNCHANGED <<connection, prov, view, wallet, frames, chainInfo>>  BY DEF discovered
<1>1. PICK n \in 0 .. MAX_RPC_FAILOVER_ENDPOINTS :
        /\ rpc' = [cache |-> [rpc.cache EXCEPT ![ch] = n], inflight |-> rpc.inflight \ {ch}]
        /\ calls' = [c \in Slots |-> IF calls[c].st = "resolving" /\ calls[c].chain = ch
                                      THEN Fetching(calls[c], n) ELSE calls[c]]
  BY ZenonT(30) DEF discovered
<1>2. n \in Nat  BY ProviderAssumption
<1>3. ASSUME NEW c \in Slots, calls[c].st = "resolving" PROVE Fine(Fetching(calls[c], n))
  <2>1. calls[c] \in CallRecords /\ RightCall(calls[c])  BY DEF IInv, Base, Types
  <2> QED BY <1>2, <1>3, <2>1, FetchingCall DEF Fine, RightCall
<1>4. \A c \in Slots : calls'[c] = calls[c] \/ Fine(calls'[c])  BY <1>1, <1>3
<1>5. calls' = [c \in Slots |-> calls'[c]]  BY <1>1
<1>6. rpc' \in [cache : [Chains -> 0 .. MAX_RPC_FAILOVER_ENDPOINTS], inflight : SUBSET Chains]
  BY <1>1 DEF IInv, Base, Types
<1> QED BY <1>0, <1>4, <1>5, <1>6, CallsMove, BaseQuiet DEF IInv

\* An endpoint answers, or the read goes on to the next one or to the wallet.
LEMMA FetchedStep ==
    ASSUME IInv, NEW c \in Slots, fetched(c)
    PROVE  IInv'
<1>0. UNCHANGED <<connection, prov, rpc, view, wallet, frames, chainInfo>>  BY DEF fetched
<1> DEFINE call == calls[c]
           more == [call EXCEPT !.i = @ + 1]
<1>1. /\ call \in CallRecords /\ call.st = "fetching" /\ call.m \in READ_ONLY_METHODS /\ call.res = "none"
      /\ call.n \in Nat /\ call.i \in 1 .. call.n
  <2>1. call \in CallRecords /\ RightCall(call) /\ call.st = "fetching"  BY DEF IInv, Base, Types, fetched
  <2> QED BY <2>1 DEF RightCall, CallRecords
<1>2. /\ more \in CallRecords /\ more.i = call.i + 1 /\ more.n = call.n /\ more.m = call.m
      /\ more.res = call.res /\ more.st = call.st
  BY <1>1 DEF CallRecords
<1>3. rpc' \in [cache : [Chains -> 0 .. MAX_RPC_FAILOVER_ENDPOINTS], inflight : SUBSET Chains]
  BY <1>0 DEF IInv, Base, Types
<1> SUFFICES \E x : Fine(x) /\ calls' = [calls EXCEPT ![c] = x]
  BY ZenonT(30), <1>0, <1>3, CallMoves, BaseQuiet DEF IInv
<1>4. CASE calls' = [calls EXCEPT ![c] = Ended]  BY ZenonT(30), <1>4, Blank DEF Fine
<1>5. CASE call.i < call.n /\ calls' = [calls EXCEPT ![c] = more]
  <2>1. more.i \in 1 .. more.n  BY <1>1, <1>2, <1>5
  <2> QED BY ZenonT(30), <1>1, <1>2, <1>5, <2>1 DEF Fine, RightCall
<1>6. CASE ~(call.i < call.n) /\ calls' = [calls EXCEPT ![c] = Relayed(more)]
  <2>1. more.n # 0 /\ more.i = more.n + 1  BY <1>1, <1>2, <1>6
  <2> QED BY ZenonT(30), <1>1, <1>2, <1>6, <2>1, RelayedCall, ReadsDiffer DEF Fine
<1> QED BY <1>4, <1>5, <1>6 DEF fetched

\* A request of the session times out; the connect() that waits for it ends.
LEMMA TimeoutStep ==
    ASSUME IInv, NEW c \in Slots, timeout(c)
    PROVE  IInv'
<1>1. /\ calls' = [calls EXCEPT ![c] = Ended]
      /\ connector' = IF c = CONNECT THEN [connector EXCEPT !.connect = "no"] ELSE connector
      /\ UNCHANGED <<phase, stored, wagmi, prov, rpc, view, wallet, frames, chainInfo>>
  BY DEF timeout
<1>2. Fine(Ended)  BY Blank DEF Fine
<1>3. /\ calls' \in [Slots -> CallRecords]
      /\ (\A d \in Slots : RightCall(calls[d]))' /\ FirstAnswers' /\ Synced'
  BY ZenonT(30), <1>1, <1>2, CallMoves
<1>4. connector' \in [bound : BOOLEAN, connect : {"no", "waiting", "asking"}] /\ connector'.bound = connector.bound
  BY <1>1 DEF IInv, Base, Types
<1>5. Base'  BY <1>1, <1>3, <1>4 DEF IInv, Base, Types, Owned, ListenersCurrent, WagmiNotStale
<1> QED BY <1>3, <1>5 DEF IInv

-----------------------------------------------------------------------------
(* Steps of the connection *)

\* The frames under way are dropped, and every call that waits for the wallet
\* ends, is asked again, or is left behind.
LEMMA CallsReset ==
    ASSUME IInv, calls' = [c \in Slots |-> calls'[c]], frames' = <<>>, chainInfo' \in {"unknown", "lost"},
           \A c \in Slots :
               \/ calls'[c] \in {NoCall, Ended}
               \/ calls'[c] = calls[c] /\ (chainInfo' = "lost" \/ c \notin Asking)
               \/ calls'[c] = [calls[c] EXCEPT !.st = "stale"]
               \/ calls[c].st = "answered" /\ chainInfo' = "lost" /\ calls'[c] = [calls[c] EXCEPT !.st = "relayed"]
    PROVE  /\ calls' \in [Slots -> CallRecords]
           /\ (\A c \in Slots : RightCall(calls[c]))' /\ FirstAnswers' /\ Synced'
<1>1. ASSUME NEW c \in Slots
      PROVE  /\ calls'[c] \in CallRecords /\ RightCall(calls'[c])
             /\ calls'[c].st = "relayed" /\ calls'[c].res # "none" => chainInfo' = "lost"
  <2>0. calls[c] \in CallRecords /\ RightCall(calls[c])  BY DEF IInv, Base, Types
  <2>1. CASE calls'[c] \in {NoCall, Ended}  BY <2>1, Blank
  <2>2. CASE calls'[c] = calls[c] /\ (chainInfo' = "lost" \/ c \notin Asking)
    BY <2>0, <2>2 DEF Asking
  <2>3. CASE calls'[c] = [calls[c] EXCEPT !.st = "stale"]
    BY <2>0, <2>3 DEF CallRecords, RightCall
  <2>4. CASE calls[c].st = "answered" /\ chainInfo' = "lost" /\ calls'[c] = [calls[c] EXCEPT !.st = "relayed"]
    BY <2>0, <2>4 DEF CallRecords, RightCall
  <2> QED BY <2>1, <2>2, <2>3, <2>4
<1>2. calls' \in [Slots -> CallRecords]  BY <1>1
<1>3. FirstAnswers'  BY <1>1 DEF FirstAnswers
<1> QED BY <1>1, <1>2, <1>3, SyncedReset

\* What the listeners of phase closed leave behind.
LEMMA ClosedStep ==
    ASSUME IInv, phase # "none", phase # "closed", Closed("closed"), UNCHANGED <<rpc, wallet>>,
           NEW b \in BOOLEAN,
           prov' = [prov EXCEPT !.connected = FALSE, !.disconnected = b],
           view' = [view EXCEPT !.connected = FALSE],
           connector' = [connector EXCEPT !.connect = "no"]
    PROVE  IInv'
<1>1. /\ calls' = [c \in Slots |-> IF c \in Asking THEN Ended ELSE calls[c]]
      /\ frames' = <<>> /\ chainInfo' = "unknown" /\ phase' = "closed"
      /\ wagmi' = IF connector.bound THEN "disconnected" ELSE wagmi
  BY DEF Closed
<1>2. /\ calls' \in [Slots -> CallRecords]
      /\ (\A c \in Slots : RightCall(calls[c]))' /\ FirstAnswers' /\ Synced'
  <2>1. \A c \in Slots : calls'[c] \in {NoCall, Ended} \/ (calls'[c] = calls[c] /\ c \notin Asking)  BY <1>1
  <2>2. calls' = [c \in Slots |-> calls'[c]]  BY <1>1
  <2> QED BY <1>1, <2>1, <2>2, CallsReset
<1>3. wagmi' = "disconnected"  BY <1>1 DEF IInv, Base, Owned
<1>4. frames' \in Seq(FrameRecords) /\ Len(frames') <= MaxFrames  BY <1>1, ProviderAssumption
<1>5. Types'  BY ZenonT(30), <1>1, <1>2, <1>3, <1>4 DEF IInv, Base, Types
<1>6. /\ prov'.made = prov.made /\ prov'.chainId = prov.chainId /\ ~prov'.connected
      /\ view' = [chain |-> view.chain, connected |-> FALSE] /\ connector'.bound = connector.bound
  BY ZenonT(30) DEF IInv, Base, Types
<1>7. Owned'  BY <1>1, <1>6 DEF IInv, Base, Owned
<1>8. ListenersCurrent'
  <2>1. prov.made /\ view.chain = prov.chainId  BY DEF IInv, Base, Owned, ListenersCurrent
  <2>2. prov'.connected = FALSE  BY DEF IInv, Base, Types
  <2> QED BY ZenonT(30), <1>6, <2>1, <2>2 DEF ListenersCurrent
<1> QED BY <1>2, <1>3, <1>5, <1>7, <1>8 DEF IInv, Base, WagmiNotStale

\* The session closes from inside.
LEMMA CloseStep == ASSUME IInv, close PROVE IInv'
<1>1. prov' = [prov EXCEPT !.connected = FALSE, !.disconnected = prov.disconnected] /\ prov.disconnected \in BOOLEAN
  BY ZenonT(30) DEF close, IInv, Base, Types
<1> QED BY <1>1, ClosedStep DEF close

\* The connection drops.
LEMMA DropStep == ASSUME IInv, drop PROVE IInv'
<1>1. /\ calls' = [c \in Slots |-> IF calls[c].st = "answered" THEN [calls[c] EXCEPT !.st = "relayed"] ELSE calls[c]]
      /\ frames' = <<>> /\ chainInfo' = "lost" /\ phase = "connected" /\ phase' = "disconnected"
      /\ prov' = [prov EXCEPT !.connected = FALSE] /\ view' = [view EXCEPT !.connected = FALSE]
      /\ UNCHANGED <<rpc, connector, stored, wagmi, wallet>>
  BY DEF drop
<1>2. /\ calls' \in [Slots -> CallRecords]
      /\ (\A c \in Slots : RightCall(calls[c]))' /\ FirstAnswers' /\ Synced'
  <2>1. \A c \in Slots : calls'[c] = calls[c] \/ (calls[c].st = "answered" /\ calls'[c] = [calls[c] EXCEPT !.st = "relayed"])
    BY <1>1
  <2>2. calls' = [c \in Slots |-> calls'[c]]  BY <1>1
  <2> QED BY ZenonT(30), <1>1, <2>1, <2>2, CallsReset
<1>3. frames' \in Seq(FrameRecords) /\ Len(frames') <= MaxFrames  BY <1>1, ProviderAssumption
<1>4. Types'  BY ZenonT(30), <1>1, <1>2, <1>3 DEF IInv, Base, Types
<1>5. /\ prov'.made = prov.made /\ prov'.chainId = prov.chainId /\ prov'.connected = FALSE
      /\ view' = [chain |-> view.chain, connected |-> FALSE]
  BY ZenonT(30), <1>1 DEF IInv, Base, Types
<1>6. Owned' /\ WagmiNotStale'  BY <1>1, <1>5 DEF IInv, Base, Owned, WagmiNotStale
<1>7. ListenersCurrent'
  <2>1. prov.made /\ view.chain = prov.chainId  BY <1>1 DEF IInv, Base, Owned, ListenersCurrent
  <2> QED BY ZenonT(30), <1>5, <2>1 DEF ListenersCurrent
<1> QED BY <1>2, <1>4, <1>6, <1>7 DEF IInv, Base

\* The session is connected: a connect() that waits asks for the accounts.
LEMMA ConnectedStep == ASSUME IInv, connected PROVE IInv'
<1>1. /\ phase \in {"waiting", "disconnected"} /\ phase' = "connected"
      /\ prov' = [prov EXCEPT !.connected = TRUE]
      /\ view' = [chain |-> prov.chainId, connected |-> TRUE]
      /\ UNCHANGED <<rpc, wagmi, wallet, frames, chainInfo>>
  BY DEF connected
<1>2. connector' \in [bound : BOOLEAN, connect : {"no", "waiting", "asking"}] /\ connector'.bound = connector.bound
  BY DEF connected, IInv, Base, Types
<1>3. /\ calls' \in [Slots -> CallRecords]
      /\ (\A d \in Slots : RightCall(calls[d]))' /\ FirstAnswers' /\ Synced'
  <2> DEFINE x == [NoCall EXCEPT !.m = "eth_requestAccounts", !.st = "relayed"]
  <2>1. Fine(x)
    <3>1. x \in CallRecords /\ x.m = "eth_requestAccounts" /\ x.st = "relayed" /\ x.res = "none"
      BY ZenonT(30) DEF NoCall, CallRecords
    <3>2. x.m \notin READ_ONLY_METHODS /\ x.m \notin ChainMethods
      BY <3>1 DEF READ_ONLY_METHODS, ChainMethods, TxMethods
    <3> QED BY <3>1, <3>2 DEF Fine, RightCall
  <2>2. calls = [c \in Slots |-> calls[c]]  BY DEF IInv, Base, Types
  <2>3. calls' = [c \in Slots |-> calls'[c]] /\ \A c \in Slots : calls'[c] = calls[c] \/ calls'[c] = x
    BY <2>2 DEF connected, Slots
  <2>4. \A c \in Slots : calls'[c] = calls[c] \/ Fine(calls'[c])  BY <2>1, <2>3
  <2>5. \A c \in Slots : calls'[c] \in CallRecords /\ RightCall(calls'[c])
    BY <2>4 DEF IInv, Base, Types, Fine
  <2>6. FirstAnswers'  BY <1>1, <2>4 DEF IInv, FirstAnswers, Fine
  <2>7. \A c \in Slots : calls'[c].st = "answered" => calls'[c] = calls[c]  BY <2>4 DEF Fine
  <2>8. prov'.chainId = prov.chainId  BY <1>1 DEF IInv, Base, Types
  <2>9. Synced'  BY <1>1, <2>7, <2>8, SyncedQuiet, FrameTypes DEF IInv, Base
  <2> QED BY <2>3, <2>5, <2>6, <2>9
<1>4. Types'  BY ZenonT(30), <1>1, <1>2, <1>3 DEF IInv, Base, Types
<1>5. Owned' /\ ListenersCurrent' /\ WagmiNotStale'
  BY <1>1, <1>2 DEF IInv, Base, Types, Owned, ListenersCurrent, WagmiNotStale
<1> QED BY <1>3, <1>4, <1>5 DEF IInv, Base

\* connect: a pairing or a restored session starts, or the relay is not reached.
LEMMA ConnectStep == ASSUME IInv, NEW ch \in Chains, connect(ch) PROVE IInv'
<1>1. /\ wagmi = "disconnected" /\ prov' = getOrCreateProvider(ch)
      /\ view' = [view EXCEPT !.chain = prov'.chainId] /\ UNCHANGED <<rpc, stored, wagmi, wallet>>
      /\ connector'.bound /\ phase' \in {"idle", "waiting", "connected", "disconnected", "closed"}
      /\ connector' \in [bound : BOOLEAN, connect : {"no", "waiting", "asking"}]
  <2>1. /\ wagmi = "disconnected" /\ prov' = getOrCreateProvider(ch)
        /\ view' = [view EXCEPT !.chain = prov'.chainId] /\ UNCHANGED <<rpc, stored, wagmi, wallet>>
        /\ phase' \in {"disconnected", "waiting", IF phase = "none" THEN "idle" ELSE phase}
        /\ connector' \in {[bound |-> TRUE, connect |-> "waiting"], [bound |-> TRUE, connect |-> "no"]}
    BY DEF connect
  <2>2. phase' \in {"idle", "waiting", "connected", "disconnected", "closed"}
    BY <2>1 DEF IInv, Base, Types
  <2>3. connector' \in [bound : BOOLEAN, connect : {"no", "waiting", "asking"}] /\ connector'.bound
    <3>1. CASE connector' = [bound |-> TRUE, connect |-> "waiting"]  BY <3>1
    <3>2. CASE connector' = [bound |-> TRUE, connect |-> "no"]  BY <3>2
    <3> QED BY <2>1, <3>1, <3>2
  <2> QED BY <2>1, <2>2, <2>3
<1>2. /\ prov'.made /\ prov'.chainId \in Chains
      /\ prov.made => prov' = prov
      /\ ~prov.made => prov'.connected = FALSE
      /\ prov' \in [made : BOOLEAN, chainId : Chains \cup {0}, accounts : Accounts \cup {NoAccounts},
                    connected : BOOLEAN, disconnected : BOOLEAN]
  <2>1. CASE prov.made
    <3>1. prov' = prov  BY <1>1, <2>1 DEF getOrCreateProvider
    <3> QED BY <2>1, <3>1 DEF IInv, Base, Types, Owned
  <2>2. CASE ~prov.made
    <3>1. prov' = [made |-> TRUE, chainId |-> ch, accounts |-> NoAccounts, connected |-> FALSE,
                   disconnected |-> FALSE]
      BY ZenonT(30), <1>1, <2>2 DEF getOrCreateProvider, NoProvider
    <3> QED BY ZenonT(30), <2>2, <3>1
  <2> QED BY ZenonT(30), <2>1, <2>2
<1>3. /\ calls' \in [Slots -> CallRecords] /\ chainInfo' \in {"unknown", "learnt", "lost"}
      /\ frames' \in Seq(FrameRecords) /\ Len(frames') <= MaxFrames
      /\ (\A c \in Slots : RightCall(calls[c]))' /\ FirstAnswers' /\ Synced'
  <2>1. CASE /\ calls' = [c \in Slots |-> IF c \in Asking THEN [calls[c] EXCEPT !.st = "stale"] ELSE calls[c]]
             /\ frames' = <<>> /\ chainInfo' = "unknown"
    <3>1. calls' = [c \in Slots |-> calls'[c]]  BY <2>1
    <3>2. \A c \in Slots : (calls'[c] = calls[c] /\ c \notin Asking) \/ calls'[c] = [calls[c] EXCEPT !.st = "stale"]
      BY <2>1
    <3>3. frames' \in Seq(FrameRecords) /\ Len(frames') <= MaxFrames  BY <2>1, ProviderAssumption
    <3>4. /\ calls' \in [Slots -> CallRecords]
          /\ (\A c \in Slots : RightCall(calls[c]))' /\ FirstAnswers' /\ Synced'
      BY <2>1, <3>1, <3>2, CallsReset
    <3> QED BY <2>1, <3>3, <3>4
  <2>2. CASE UNCHANGED <<calls, frames, chainInfo>>
    <3>1. chainInfo = "learnt" => prov'.chainId = prov.chainId  BY <1>2 DEF IInv, Base, Owned
    <3>2. Synced'  BY <1>1, <2>2, <3>1, SyncedQuiet, FrameTypes DEF IInv, Base
    <3> QED BY <2>2, <3>2 DEF IInv, Base, Types, FirstAnswers
  <2> QED BY <2>1, <2>2 DEF connect
<1>4. Types'  BY ZenonT(30), <1>1, <1>2, <1>3 DEF IInv, Base, Types
<1>5. Owned' /\ WagmiNotStale'  BY <1>1, <1>2 DEF Owned, WagmiNotStale
<1>6. ListenersCurrent'
  <2>1. view' = [chain |-> prov'.chainId, connected |-> view.connected]  BY <1>1 DEF IInv, Base, Types
  <2>2. view.connected = prov'.connected
    <3>1. CASE prov.made  BY <1>2, <3>1 DEF IInv, Base, ListenersCurrent
    <3>2. CASE ~prov.made
      BY <1>2, <3>2 DEF IInv, Base, Types, Owned
    <3> QED BY <3>1, <3>2
  <2> QED BY <2>1, <2>2 DEF ListenersCurrent
<1> QED BY <1>3, <1>4, <1>5, <1>6 DEF IInv, Base

\* The provider is forgotten: by disconnect, or with the page.
LEMMA ForgetStep == ASSUME IInv, disconnect \/ reload PROVE IInv'
<1>1. /\ phase' = "none" /\ prov' = NoProvider /\ rpc' = NoRpc /\ wagmi' = "disconnected"
      /\ calls' = [c \in Slots |-> IF calls[c].st = "idle" THEN NoCall ELSE Ended]
      /\ connector' = [bound |-> FALSE, connect |-> "no"] /\ view' = [chain |-> 0, connected |-> FALSE]
      /\ frames' = <<>> /\ chainInfo' = "unknown" /\ UNCHANGED wallet
  BY DEF disconnect, reload
<1>2. /\ calls' \in [Slots -> CallRecords]
      /\ (\A c \in Slots : RightCall(calls[c]))' /\ FirstAnswers' /\ Synced'
  <2>1. calls' = [c \in Slots |-> calls'[c]]  BY <1>1
  <2>2. \A c \in Slots : calls'[c] \in {NoCall, Ended}  BY <1>1
  <2> QED BY <1>1, <2>1, <2>2, CallsReset
<1>3. frames' \in Seq(FrameRecords) /\ Len(frames') <= MaxFrames  BY <1>1, ProviderAssumption
<1>4. rpc' \in [cache : [Chains -> 0 .. MAX_RPC_FAILOVER_ENDPOINTS], inflight : SUBSET Chains]
  BY <1>1, ProviderAssumption DEF NoRpc
<1>5. Types'  BY <1>1, <1>2, <1>3, <1>4 DEF IInv, Base, Types, NoProvider
<1>6. Owned' /\ ListenersCurrent' /\ WagmiNotStale'
  BY <1>1 DEF Owned, ListenersCurrent, WagmiNotStale, NoProvider
<1> QED BY <1>2, <1>5, <1>6 DEF IInv, Base

-----------------------------------------------------------------------------
(* Steps of the wallet *)

\* The wallet sends fs behind the frames under way.
LEMMA Appended ==
    ASSUME Types, NEW fs \in Seq(FrameRecords), Send(fs)
    PROVE  /\ frames' \in Seq(FrameRecords) /\ Len(frames') <= MaxFrames
           /\ Len(frames') = Len(frames) + Len(fs) /\ Len(frames) \in Nat /\ Len(fs) \in Nat
           /\ \A i \in 1 .. Len(frames) : frames'[i] = frames[i]
           /\ \A k \in 1 .. Len(fs) : frames'[Len(frames) + k] = fs[k]
<1>1. frames' = frames \o fs /\ Len(frames) + Len(fs) <= MaxFrames /\ frames \in Seq(FrameRecords)
  BY DEF Send, Types
<1>2. /\ frames' \in Seq(FrameRecords) /\ Len(frames') = Len(frames) + Len(fs)
      /\ Len(frames) \in Nat /\ Len(fs) \in Nat
      /\ \A i \in 1 .. Len(frames) : frames'[i] = frames[i]
  BY <1>1
<1>3. \A k \in 1 .. Len(fs) : frames'[Len(frames) + k] = fs[k]  BY <1>1, <1>2
<1> QED BY <1>1, <1>2, <1>3

\* One frame.
LEMMA SentOne ==
    ASSUME Types, NEW f \in FrameRecords, Send(<<f>>), NEW n, n = Len(frames)
    PROVE  /\ frames' \in Seq(FrameRecords) /\ Len(frames') <= MaxFrames /\ Len(frames') = n + 1
           /\ \A i \in 1 .. n : frames'[i] = frames[i]
           /\ frames'[n + 1] = f
<1>1. <<f>> \in Seq(FrameRecords) /\ Len(<<f>>) = 1 /\ <<f>>[1] = f /\ 1 \in 1 .. 1  OBVIOUS
<1>2. /\ frames' \in Seq(FrameRecords) /\ Len(frames') <= MaxFrames /\ Len(frames') = n + 1
      /\ \A i \in 1 .. n : frames'[i] = frames[i]
  BY ZenonT(30), <1>1, Appended
<1>3. frames'[Len(frames) + 1] = f  BY ZenonT(30), <1>1, Appended
<1> QED BY <1>2, <1>3

\* Two frames.
LEMMA SentTwo ==
    ASSUME Types, NEW f \in FrameRecords, NEW g \in FrameRecords, Send(<<f, g>>), NEW n, n = Len(frames)
    PROVE  /\ frames' \in Seq(FrameRecords) /\ Len(frames') <= MaxFrames /\ Len(frames') = n + 2
           /\ \A i \in 1 .. n : frames'[i] = frames[i]
           /\ frames'[n + 1] = f /\ frames'[n + 2] = g
<1>1. /\ <<f, g>> \in Seq(FrameRecords) /\ Len(<<f, g>>) = 2 /\ <<f, g>>[1] = f /\ <<f, g>>[2] = g
      /\ 1 \in 1 .. 2 /\ 2 \in 1 .. 2
  OBVIOUS
<1>2. /\ frames' \in Seq(FrameRecords) /\ Len(frames') <= MaxFrames /\ Len(frames') = n + 2
      /\ \A i \in 1 .. n : frames'[i] = frames[i]
  BY ZenonT(30), <1>1, Appended
<1>3. frames'[Len(frames) + 1] = f /\ frames'[Len(frames) + 2] = g  BY ZenonT(30), <1>1, Appended
<1> QED BY <1>2, <1>3

\* An event of the wallet's new chain, or a chain that stays, keeps Synced.
LEMMA SyncedSend ==
    ASSUME Synced, NEW n \in Nat, n = Len(frames), NEW k \in Nat, Len(frames') = n + k,
           \A i \in 1 .. n : frames'[i] = frames[i],
           UNCHANGED <<chainInfo, prov>>,
           chainInfo # "lost" =>
             /\ \A i \in 1 .. n : SwitchAt(i)' => SwitchAt(i) /\ calls'[frames[i].c].chain = calls[frames[i].c].chain
             /\ \A i \in n + 1 .. n + k : SwitchAt(i)' => calls'[frames'[i].c].chain = wallet'.chain
             /\ \A i \in n + 1 .. n + k : EventAt(i)' => frames'[i].v = wallet'.chain
             /\ wallet'.chain = wallet.chain \/ \E i \in n + 1 .. n + k : EventAt(i)'
    PROVE  Synced'
<1> SUFFICES ASSUME chainInfo # "lost" PROVE Synced'  BY DEF Synced
<1>1. \A i \in 1 .. n : EventAt(i)' <=> EventAt(i)  BY DEF EventAt
<1>2. ASSUME NEW i \in 0 .. n, NoEventAfter(i)'
      PROVE  NoEventAfter(i) /\ wallet'.chain = wallet.chain
  <2>1. \A j \in 1 .. n + k : j > i => ~EventAt(j)'  BY <1>2 DEF NoEventAfter
  <2>2. NoEventAfter(i)  BY <1>1, <2>1 DEF NoEventAfter
  <2>3. \A j \in n + 1 .. n + k : ~EventAt(j)'  BY <2>1
  <2> QED BY <2>2, <2>3
<1>3. \A i \in 1 .. n + k : i \in 1 .. n \/ i \in n + 1 .. n + k  OBVIOUS
<1>4. ASSUME NEW i \in 1 .. n + k, EventAt(i)', NoEventAfter(i)'
      PROVE  frames'[i].v = wallet'.chain
  <2>1. CASE i \in 1 .. n
    <3>1. NoEventAfter(i) /\ wallet'.chain = wallet.chain  BY <1>2, <1>4, <2>1
    <3> QED BY <1>1, <1>4, <2>1, <3>1 DEF Synced
  <2> QED BY <1>3, <1>4, <2>1
<1>5. ASSUME NEW i \in 1 .. n + k, SwitchAt(i)', NoEventAfter(i)'
      PROVE  calls'[frames'[i].c].chain = wallet'.chain
  <2>1. CASE i \in 1 .. n
    <3>1. NoEventAfter(i) /\ wallet'.chain = wallet.chain  BY <1>2, <1>5, <2>1
    <3>2. SwitchAt(i) /\ calls'[frames[i].c].chain = calls[frames[i].c].chain  BY <1>5, <2>1
    <3> QED BY <2>1, <3>1, <3>2 DEF Synced
  <2> QED BY <1>3, <1>5, <2>1
<1>6. ASSUME chainInfo' = "learnt", NoEventAfter(0)' PROVE prov'.chainId = wallet'.chain
  BY <1>2, <1>6 DEF Synced
<1> QED BY <1>4, <1>5, <1>6 DEF Synced

\* The user changes chain or account in the wallet, or ends the session.
LEMMA PushesStep == ASSUME IInv, walletPushes PROVE IInv'
<1>1. UNCHANGED <<connection, prov, rpc, calls, view, chainInfo>>  BY DEF walletPushes
<1>2. ASSUME NEW f \in FrameRecords, f.t # "res", Send(<<f>>),
             wallet' \in [chain : Chains, accounts : Accounts],
             f.t = "chainChanged" => f.v = wallet'.chain,
             wallet'.chain = wallet.chain \/ f.t = "chainChanged"
      PROVE  IInv'
  <2>1. PICK n \in Nat : n = Len(frames)  BY DEF IInv, Base, Types
  <2>2. /\ frames' \in Seq(FrameRecords) /\ Len(frames') <= MaxFrames /\ Len(frames') = n + 1
        /\ \A i \in 1 .. n : frames'[i] = frames[i]
        /\ frames'[n + 1] = f
    BY ZenonT(30), <1>2, <2>1, SentOne DEF IInv, Base
  <2>3. \A i \in 1 .. n : SwitchAt(i)' => SwitchAt(i) /\ calls'[frames[i].c].chain = calls[frames[i].c].chain
    BY <1>1, <2>2 DEF SwitchAt
  <2>4. ~SwitchAt(n + 1)' /\ (EventAt(n + 1)' <=> f.t = "chainChanged")  BY <1>2, <2>2 DEF SwitchAt, EventAt
  <2>5. Synced'
    <3>1. \A i : i \in n + 1 .. n + 1 <=> i = n + 1  OBVIOUS
    <3> QED BY <1>1, <1>2, <2>1, <2>2, <2>3, <2>4, <3>1, SyncedSend DEF IInv
  <2>6. Types'  BY <1>1, <1>2, <2>2 DEF IInv, Base, Types, connection
  <2>7. Owned' /\ ListenersCurrent' /\ WagmiNotStale'
    BY <1>1 DEF IInv, Base, Owned, ListenersCurrent, WagmiNotStale, connection
  <2>8. (\A c \in Slots : RightCall(calls[c]))' /\ FirstAnswers'
    BY <1>1 DEF IInv, FirstAnswers
  <2> QED BY <2>5, <2>6, <2>7, <2>8 DEF IInv, Base
<1>3. ASSUME NEW ch \in Chains, wallet' = [wallet EXCEPT !.chain = ch], Send(<<ChainEvent(ch)>>) PROVE IInv'
  <2>1. ChainEvent(ch) \in FrameRecords /\ ChainEvent(ch).t = "chainChanged" /\ ChainEvent(ch).v = ch
    BY DEF ChainEvent, FrameRecords
  <2>2. wallet' \in [chain : Chains, accounts : Accounts] /\ wallet'.chain = ch
    BY <1>3 DEF IInv, Base, Types
  <2> QED BY <1>2, <1>3, <2>1, <2>2
<1>4. ASSUME NEW a \in Accounts, wallet' = [wallet EXCEPT !.accounts = a],
             Send(<<[t |-> "accountsChanged", v |-> a]>>)
      PROVE  IInv'
  <2> DEFINE f == [t |-> "accountsChanged", v |-> a]
  <2>1. f \in FrameRecords /\ f.t = "accountsChanged"  BY DEF FrameRecords
  <2>2. wallet' \in [chain : Chains, accounts : Accounts] /\ wallet'.chain = wallet.chain
    BY ZenonT(30), <1>4 DEF IInv, Base, Types
  <2> QED BY <1>2, <1>4, <2>1, <2>2
<1>5. ASSUME wallet' = wallet, Send(<<[t |-> "disconnect"]>>) PROVE IInv'
  <2> DEFINE f == [t |-> "disconnect"]
  <2>1. f \in FrameRecords /\ f.t = "disconnect"  BY DEF FrameRecords
  <2>2. wallet' \in [chain : Chains, accounts : Accounts]  BY <1>5 DEF IInv, Base, Types
  <2> QED BY <1>2, <1>5, <2>1, <2>2
<1> QED BY ZenonT(30), <1>3, <1>4, <1>5 DEF walletPushes

\* The wallet answers: what it answers for the first time comes with its chain,
\* what it repeats comes after the connection has dropped.
LEMMA AnswersStep == ASSUME IInv, Latest, NEW c \in Slots, walletAnswers(c) PROVE IInv'
<1> DEFINE call == calls[c]
<1>1. /\ call.st = "relayed" /\ call \in CallRecords /\ RightCall(call) /\ calls \in [Slots -> CallRecords]
      /\ wallet \in [chain : Chains, accounts : Accounts]
      /\ UNCHANGED <<connection, prov, rpc, view, chainInfo>>
  <2>1. call.st = "relayed" /\ UNCHANGED <<connection, prov, rpc, view, chainInfo>>  BY ZenonT(30) DEF walletAnswers
  <2> QED BY <2>1 DEF IInv, Base, Types
<1>2. PICK ok \in (IF call.res = "none" THEN BOOLEAN ELSE {call.res = "ok"}) :
        LET v == IF call.res = "none" THEN wallet.accounts ELSE call.val
            switched == ok /\ call.res = "none" /\ call.m = Switch /\ call.chain # wallet.chain
        IN  /\ calls' = [calls EXCEPT ![c].st = "answered", ![c].res = IF ok THEN "ok" ELSE "err", ![c].val = v]
            /\ IF switched
               THEN /\ wallet' = [wallet EXCEPT !.chain = call.chain]
                    /\ \/ Send(<<ChainEvent(call.chain), Response(c, ok, v)>>)
                       \/ Send(<<Response(c, ok, v), ChainEvent(call.chain)>>)
               ELSE Send(<<Response(c, ok, v)>>) /\ UNCHANGED wallet
  BY ZenonT(30) DEF walletAnswers, Switch
<1> DEFINE v == IF call.res = "none" THEN wallet.accounts ELSE call.val
           switched == ok /\ call.res = "none" /\ call.m = Switch /\ call.chain # wallet.chain
           g == Response(c, ok, v)
           x == calls'[c]
<1>3. ok \in BOOLEAN  BY ZenonT(30), <1>2
<1>4. v \in Accounts \cup {NoAccounts}  BY <1>1 DEF CallRecords
<1>5. /\ calls' \in [Slots -> CallRecords] /\ x.st = "answered" /\ x.m = call.m /\ x.chain = call.chain
      /\ x.i = call.i /\ x.n = call.n /\ x.asked = call.asked
      /\ \A d \in Slots : d # c => calls'[d] = calls[d]
  <2> DEFINE y1 == [call EXCEPT !.st = "answered"]
             y2 == [y1 EXCEPT !.res = IF ok THEN "ok" ELSE "err"]
             y3 == [y2 EXCEPT !.val = v]
  <2>1. calls' = [calls EXCEPT ![c] = y3]  BY ZenonT(30), <1>1, <1>2
  <2>2. y1 \in CallRecords /\ y1.st = "answered" /\ y1.m = call.m /\ y1.chain = call.chain
        /\ y1.i = call.i /\ y1.n = call.n /\ y1.asked = call.asked
    BY <1>1 DEF CallRecords
  <2> HIDE DEF y1
  <2>3. y2 \in CallRecords /\ y2.st = "answered" /\ y2.m = call.m /\ y2.chain = call.chain
        /\ y2.i = call.i /\ y2.n = call.n /\ y2.asked = call.asked
    <3>1. ASSUME NEW r \in {"ok", "err"} PROVE [y1 EXCEPT !.res = r] \in CallRecords
      BY <2>2 DEF CallRecords
    <3> QED BY ZenonT(30), <2>2, <3>1 DEF CallRecords
  <2> HIDE DEF y2
  <2>4. y3 \in CallRecords /\ y3.st = "answered" /\ y3.m = call.m /\ y3.chain = call.chain
        /\ y3.i = call.i /\ y3.n = call.n /\ y3.asked = call.asked
    <3>1. y3 \in CallRecords  BY <1>4, <2>3 DEF CallRecords
    <3> QED BY ZenonT(30), <2>3, <3>1 DEF CallRecords
  <2> HIDE DEF y3
  <2> QED BY <1>1, <2>1, <2>4
<1> HIDE DEF x, v
<1>6. RightCall(x)  BY <1>1, <1>5 DEF RightCall
<1>7. (\A d \in Slots : RightCall(calls[d]))'  BY <1>5, <1>6 DEF IInv, x
<1>8. FirstAnswers'  BY <1>1, <1>5 DEF IInv, FirstAnswers, x
<1>9. call.m = Switch => call.chain \in Chains  BY DEF Latest, Slots
<1>10. g \in FrameRecords /\ g.t = "res" /\ g.c = c /\ g.ok = ok
  BY <1>3, <1>4 DEF Response, FrameRecords
<1>11. PICK n \in Nat : n = Len(frames)  BY DEF IInv, Base, Types
<1>12. chainInfo # "lost" => call.res = "none"  BY <1>1 DEF IInv, FirstAnswers
<1>13. ASSUME \A i \in 1 .. n : frames'[i] = frames[i], NEW i \in 1 .. n, SwitchAt(i)'
       PROVE  SwitchAt(i) /\ calls'[frames[i].c].chain = calls[frames[i].c].chain
  <2>1. frames[i].t = "res" /\ frames[i].ok /\ calls'[frames[i].c].st = "answered" /\ calls'[frames[i].c].m = Switch
    BY <1>13 DEF SwitchAt
  <2>2. frames[i].c \in Slots  BY <1>11, <2>1, FrameTypes DEF IInv, Base
  <2>3. frames[i].c # c
    <3>1. SUFFICES ASSUME frames[i].c = c PROVE FALSE  OBVIOUS
    <3>2. c # CONNECT  BY <1>5, <2>1, <3>1 DEF Latest, x
    <3>3. c \in Calls  BY <3>2 DEF Slots
    <3> QED BY <1>1, <1>11, <2>1, <3>1, <3>3 DEF Latest
  <2>4. calls'[frames[i].c] = calls[frames[i].c]  BY <1>5, <2>2, <2>3
  <2> QED BY <2>1, <2>4 DEF SwitchAt
<1>14. /\ frames' \in Seq(FrameRecords) /\ Len(frames') <= MaxFrames
       /\ wallet' \in [chain : Chains, accounts : Accounts] /\ Synced'
  <2>1. CASE ~switched
    <3>1. Send(<<g>>) /\ wallet' = wallet  BY <1>2, <2>1 DEF v
    <3>2. /\ frames' \in Seq(FrameRecords) /\ Len(frames') <= MaxFrames /\ Len(frames') = n + 1
          /\ \A i \in 1 .. n : frames'[i] = frames[i]
          /\ frames'[n + 1] = g
      BY <1>10, <1>11, <3>1, SentOne DEF IInv, Base
    <3>3. ~EventAt(n + 1)'  BY <1>10, <3>2 DEF EventAt
    <3>4. chainInfo # "lost" /\ SwitchAt(n + 1)' => calls'[frames'[n + 1].c].chain = wallet'.chain
      <4>1. SwitchAt(n + 1)' => ok /\ call.m = Switch  BY <1>5, <1>10, <3>2 DEF SwitchAt, x
      <4> QED BY ZenonT(30), <1>5, <1>10, <1>12, <2>1, <3>1, <3>2, <4>1 DEF x
    <3>5. \A i : i \in n + 1 .. n + 1 <=> i = n + 1  OBVIOUS
    <3>6. Synced'
      <4>1. /\ \A i \in n + 1 .. n + 1 : chainInfo # "lost" /\ SwitchAt(i)' => calls'[frames'[i].c].chain = wallet'.chain
            /\ \A i \in n + 1 .. n + 1 : ~EventAt(i)'
        BY ZenonT(30), <3>3, <3>4, <3>5
      <4>2. \A i \in 1 .. n : SwitchAt(i)' => SwitchAt(i) /\ calls'[frames[i].c].chain = calls[frames[i].c].chain
        BY <1>13, <3>2
      <4>3. Synced /\ UNCHANGED <<chainInfo, prov>> /\ 1 \in Nat  BY <1>1 DEF IInv
      <4> QED BY ZenonT(30), <1>11, <3>1, <3>2, <4>1, <4>2, <4>3, SyncedSend
    <3> QED BY <1>1, <3>1, <3>2, <3>6
  <2>2. CASE switched
    <3> DEFINE f == ChainEvent(call.chain)
    <3>1. f \in FrameRecords /\ f.t = "chainChanged" /\ f.v = call.chain
      BY <1>9, <2>2 DEF ChainEvent, FrameRecords
    <3>2. wallet' \in [chain : Chains, accounts : Accounts] /\ wallet'.chain = call.chain
      BY <1>1, <1>2, <1>9, <2>2
    <3>3. PICK a \in FrameRecords, b \in FrameRecords :
            Send(<<a, b>>) /\ ((a = f /\ b = g) \/ (a = g /\ b = f))
      BY ZenonT(30), <1>2, <1>10, <2>2, <3>1 DEF v
    <3>4. /\ frames' \in Seq(FrameRecords) /\ Len(frames') <= MaxFrames /\ Len(frames') = n + 2
          /\ \A i \in 1 .. n : frames'[i] = frames[i]
          /\ frames'[n + 1] = a /\ frames'[n + 2] = b
      <4>1. Types /\ Send(<<a, b>>)  BY <3>3 DEF IInv, Base
      <4> QED BY <1>11, <4>1, SentTwo
    <3>5. \A i : i \in n + 1 .. n + 2 <=> i \in {n + 1, n + 2}  OBVIOUS
    <3>6. \A i \in {n + 1, n + 2} : EventAt(i)' => frames'[i].v = wallet'.chain
      BY <1>10, <3>1, <3>2, <3>3, <3>4 DEF EventAt
    <3>7. ASSUME NEW i \in {n + 1, n + 2}, SwitchAt(i)' PROVE calls'[frames'[i].c].chain = wallet'.chain
      <4> HIDE DEF f, g
      <4>1. frames'[i] \in {f, g}  BY <3>3, <3>4
      <4>2. frames'[i] = g  BY <3>1, <3>7, <4>1 DEF SwitchAt
      <4> QED BY ZenonT(30), <1>5, <1>10, <3>2, <4>2 DEF x
    <3>8. EventAt(n + 1)' \/ EventAt(n + 2)'  BY <3>1, <3>3, <3>4 DEF EventAt
    <3>9. Synced'
      <4>1. /\ \A i \in n + 1 .. n + 2 : SwitchAt(i)' => calls'[frames'[i].c].chain = wallet'.chain
            /\ \A i \in n + 1 .. n + 2 : EventAt(i)' => frames'[i].v = wallet'.chain
            /\ \E i \in n + 1 .. n + 2 : EventAt(i)'
        BY ZenonT(30), <3>5, <3>6, <3>7, <3>8
      <4>2. 2 \in Nat  OBVIOUS
      <4> QED BY ZenonT(30), <1>1, <1>11, <1>13, <3>4, <4>1, <4>2, SyncedSend DEF IInv
    <3> QED BY <3>2, <3>4, <3>9
  <2> QED BY <2>1, <2>2
<1>15. Types'
  <2>1. Types /\ UNCHANGED <<phase, prov, rpc, connector, view, wagmi, chainInfo>>
    BY ZenonT(30), <1>1 DEF IInv, Base, connection
  <2> QED BY <1>5, <1>14, <2>1 DEF Types
<1>16. Owned' /\ ListenersCurrent' /\ WagmiNotStale'
  BY <1>1 DEF IInv, Base, Owned, ListenersCurrent, WagmiNotStale, connection
<1> QED BY <1>7, <1>8, <1>14, <1>15, <1>16 DEF IInv, Base

-----------------------------------------------------------------------------
(* Frames reach the provider *)

\* The first frame is taken: the provider follows it, or it does not set a chain.
LEMMA SyncedTail ==
    ASSUME Types, Synced, frames # <<>>, frames' = Tail(frames), UNCHANGED wallet,
           chainInfo' = "lost" <=> chainInfo = "lost",
           \A c \in Slots : calls'[c].st = "answered" => calls'[c] = calls[c],
           chainInfo # "lost" /\ chainInfo' = "learnt" /\ NoEventAfter(1) => prov'.chainId = wallet.chain
    PROVE  Synced'
<1> SUFFICES ASSUME chainInfo # "lost" PROVE Synced'  BY DEF Synced
<1>0. frames' \in Seq(FrameRecords)
  <2>1. frames \in Seq(FrameRecords)  BY DEF Types
  <2> QED BY <2>1
<1>1. PICK n \in Nat : n = Len(frames')  BY <1>0
<1>2. Len(frames) = n + 1 /\ \A i \in 1 .. n : frames'[i] = frames[i + 1]  BY <1>1 DEF Types
<1>3. \A i \in 1 .. n : EventAt(i)' <=> EventAt(i + 1)  BY <1>2 DEF EventAt
<1>4. ASSUME NEW i \in 1 .. n, SwitchAt(i)'
      PROVE  SwitchAt(i + 1) /\ calls'[frames'[i].c] = calls[frames[i + 1].c]
  <2>1. frames'[i] = frames[i + 1] /\ i + 1 \in 1 .. Len(frames)  BY <1>2
  <2>2. frames[i + 1].t = "res" /\ frames[i + 1].ok /\ calls'[frames[i + 1].c].st = "answered"
        /\ calls'[frames[i + 1].c].m = Switch
    BY <1>4, <2>1 DEF SwitchAt
  <2>3. frames[i + 1].c \in Slots  BY <2>1, <2>2, FrameTypes
  <2>4. calls'[frames[i + 1].c] = calls[frames[i + 1].c]  BY <2>2, <2>3
  <2> QED BY <2>1, <2>2, <2>4 DEF SwitchAt
<1>5. ASSUME NEW i \in 0 .. n, NoEventAfter(i)' PROVE NoEventAfter(i + 1)
  <2>1. \A j \in 1 .. n : j > i => ~EventAt(j)'  BY <1>1, <1>5 DEF NoEventAfter
  <2>2. ASSUME NEW j \in 1 .. n + 1, j > i + 1 PROVE ~EventAt(j)
    <3>1. j - 1 \in 1 .. n /\ j - 1 > i /\ (j - 1) + 1 = j  BY <2>2
    <3>2. PICK q \in 1 .. n : q > i /\ q + 1 = j  BY <3>1
    <3> QED BY ZenonT(30), <1>3, <2>1, <3>2
  <2> QED BY <1>2, <2>2 DEF NoEventAfter
<1>6. ASSUME NEW i \in 1 .. n, EventAt(i)', NoEventAfter(i)' PROVE frames'[i].v = wallet'.chain
  <2>1. i + 1 \in 1 .. Len(frames) /\ EventAt(i + 1) /\ NoEventAfter(i + 1)  BY <1>2, <1>3, <1>5, <1>6
  <2> QED BY <1>2, <2>1 DEF Synced
<1>7. ASSUME NEW i \in 1 .. n, SwitchAt(i)', NoEventAfter(i)' PROVE calls'[frames'[i].c].chain = wallet'.chain
  <2>1. i + 1 \in 1 .. Len(frames) /\ SwitchAt(i + 1) /\ NoEventAfter(i + 1)  BY <1>2, <1>4, <1>5, <1>7
  <2>2. calls'[frames'[i].c] = calls[frames[i + 1].c]  BY ZenonT(30), <1>4, <1>7
  <2> QED BY <2>1, <2>2 DEF Synced
<1>8. ASSUME chainInfo' = "learnt", NoEventAfter(0)' PROVE prov'.chainId = wallet'.chain
  <2>1. NoEventAfter(0 + 1)  BY <1>5, <1>8
  <2> QED BY <1>8, <2>1
<1> QED BY <1>1, <1>6, <1>7, <1>8 DEF Synced

\* What a frame may do to the provider.
LEMMA DeliverMove ==
    ASSUME IInv, phase = "connected", frames # <<>>, frames' = Tail(frames), UNCHANGED <<phase, rpc, wallet>>,
           connector' \in [bound : BOOLEAN, connect : {"no", "waiting", "asking"}],
           connector'.bound = connector.bound, wagmi' \in {"connected", "disconnected"},
           prov' \in [made : BOOLEAN, chainId : Chains \cup {0}, accounts : Accounts \cup {NoAccounts},
                     connected : BOOLEAN, disconnected : BOOLEAN],
           prov'.made, prov'.chainId \in Chains,
           view' = [chain |-> prov'.chainId, connected |-> prov'.connected],
           chainInfo' \in {"unknown", "learnt", "lost"}, chainInfo' = "lost" <=> chainInfo = "lost",
           chainInfo # "lost" /\ chainInfo' = "learnt" /\ NoEventAfter(1) => prov'.chainId = wallet.chain,
           calls' = calls \/ \E c \in Slots : calls' = [calls EXCEPT ![c] = Ended]
    PROVE  IInv'
<1>1. calls = [c \in Slots |-> calls[c]]  BY DEF IInv, Base, Types
<1>2. calls' = [c \in Slots |-> calls'[c]] /\ \A c \in Slots : calls'[c] = calls[c] \/ calls'[c] = Ended
  BY <1>1
<1>3. \A c \in Slots : calls'[c] \in CallRecords /\ RightCall(calls'[c])
  BY <1>2, Blank DEF IInv, Base, Types
<1>4. calls' \in [Slots -> CallRecords]  BY <1>2, <1>3
<1>5. FirstAnswers'  BY <1>2, Blank DEF IInv, FirstAnswers
<1>6. Synced'
  <2>1. \A c \in Slots : calls'[c].st = "answered" => calls'[c] = calls[c]  BY <1>2, Blank
  <2> QED BY <2>1, SyncedTail DEF IInv, Base
<1>7. frames' \in Seq(FrameRecords) /\ Len(frames') <= MaxFrames
  <2>1. frames \in Seq(FrameRecords) /\ Len(frames) <= MaxFrames  BY DEF IInv, Base, Types
  <2>2. frames' \in Seq(FrameRecords) /\ Len(frames') = Len(frames) - 1  BY <2>1
  <2> QED BY <2>1, <2>2, ProviderAssumption
<1>8. Types'
  <2>1. view' \in [chain : Chains \cup {0}, connected : BOOLEAN]  OBVIOUS
  <2> QED BY <1>4, <1>7, <2>1 DEF IInv, Base, Types
<1>9. Owned' /\ WagmiNotStale'  BY DEF IInv, Base, Owned, WagmiNotStale
<1>10. ListenersCurrent'  BY DEF ListenersCurrent
<1> QED BY <1>3, <1>5, <1>6, <1>8, <1>9, <1>10 DEF IInv, Base

\* The provider takes over a chain, and its listeners are told.
LEMMA SwitchedFacts ==
    ASSUME IInv, phase = "connected", NEW ch \in Chains, Switched(ch)
    PROVE  /\ prov' \in [made : BOOLEAN, chainId : Chains \cup {0}, accounts : Accounts \cup {NoAccounts},
                         connected : BOOLEAN, disconnected : BOOLEAN]
           /\ prov'.made /\ prov'.chainId = ch
           /\ view' = [chain |-> prov'.chainId, connected |-> prov'.connected]
           /\ chainInfo' \in {"unknown", "learnt", "lost"}
           /\ chainInfo' = "lost" <=> chainInfo = "lost"
<1>1. /\ prov' = [prov EXCEPT !.chainId = ch]
      /\ view' = IF ch # prov.chainId THEN [view EXCEPT !.chain = ch] ELSE view
      /\ chainInfo' = IF chainInfo = "lost" THEN "lost" ELSE "learnt"
  BY DEF Switched
<1>2. prov.made /\ view = [chain |-> prov.chainId, connected |-> prov.connected]
  BY DEF IInv, Base, Owned, ListenersCurrent
<1>3. /\ prov' \in [made : BOOLEAN, chainId : Chains \cup {0}, accounts : Accounts \cup {NoAccounts},
                    connected : BOOLEAN, disconnected : BOOLEAN]
      /\ prov'.made = prov.made /\ prov'.chainId = ch /\ prov'.connected = prov.connected
  <2>1. prov \in [made : BOOLEAN, chainId : Chains \cup {0}, accounts : Accounts \cup {NoAccounts},
                  connected : BOOLEAN, disconnected : BOOLEAN]
    BY DEF IInv, Base, Types
  <2> QED BY <1>1, <2>1
<1>4. view' = [chain |-> ch, connected |-> prov.connected]
  <2>1. CASE ch # prov.chainId  BY <1>1, <1>2, <2>1
  <2>2. CASE ch = prov.chainId  BY ZenonT(30), <1>1, <1>2, <2>2
  <2> QED BY <2>1, <2>2
<1> QED BY <1>1, <1>2, <1>3, <1>4

\* A frame that does not set the chain leaves the provider in step.
LEMMA OtherFrame ==
    ASSUME Types, Synced, frames # <<>>, ~EventAt(1), NoEventAfter(1), chainInfo = "learnt"
    PROVE  prov.chainId = wallet.chain
<1>1. NoEventAfter(0)
  <2>1. ASSUME NEW j \in 1 .. Len(frames), j > 0 PROVE ~EventAt(j)
    <3>1. Len(frames) \in Nat  BY DEF Types
    <3>2. j = 1 \/ j > 1  BY <2>1, <3>1
    <3> QED BY ZenonT(30), <3>2 DEF NoEventAfter
  <2> QED BY <2>1 DEF NoEventAfter
<1> QED BY <1>1 DEF Synced

\* What the session does with the first frame
Deliver(f) ==
    \/ f.t = "res" /\ calls[f.c].st = "answered" /\ responded(f) /\ frames' = Tail(frames) /\ UNCHANGED phase
    \/ f.t = "res" /\ frames' = Tail(frames) /\ UNCHANGED <<connection, prov, calls, view, chainInfo>>
    \/ f.t = "chainChanged" /\ Switched(f.v) /\ frames' = Tail(frames) /\ UNCHANGED <<connection, calls>>
    \/ /\ f.t = "accountsChanged" /\ frames' = Tail(frames) /\ UNCHANGED <<connection, calls, view, chainInfo>>
       /\ prov' = [prov EXCEPT !.accounts = f.v]
    \/ /\ Closed("closed") /\ prov' = [prov EXCEPT !.connected = FALSE, !.disconnected = TRUE]
       /\ view' = [view EXCEPT !.connected = FALSE] /\ connector' = [connector EXCEPT !.connect = "no"]

\* A frame is one of those five.
LEMMA Delivered ==
    ASSUME Types, deliver
    PROVE  Deliver(frames[1])
<1> DEFINE f == frames[1]
<1>1. Head(frames) = f /\ f \in FrameRecords
  <2>1. frames \in Seq(FrameRecords) /\ frames # <<>>  BY DEF Types, deliver
  <2> QED BY <2>1
<1>2. f.t \in {"res", "chainChanged", "accountsChanged", "disconnect"}  BY <1>1 DEF FrameRecords
<1> HIDE DEF f
<1>3. Deliver(f)  BY ZenonT(30), <1>1, <1>2 DEF deliver, Deliver
<1> QED BY <1>3 DEF f

\* The session hands the next frame to the provider.
LEMMA DeliverStep == ASSUME IInv, Latest, deliver PROVE IInv'
<1> DEFINE f == frames[1]
<1>1. /\ phase = "connected" /\ frames # <<>> /\ UNCHANGED <<rpc, wallet>> /\ Head(frames) = f
      /\ 1 \in 1 .. Len(frames) /\ f \in FrameRecords
  <2>1. phase = "connected" /\ frames # <<>> /\ UNCHANGED <<rpc, wallet>>  BY DEF deliver
  <2>2. frames \in Seq(FrameRecords)  BY DEF IInv, Base, Types
  <2> QED BY <2>1, <2>2
<1>2. /\ prov \in [made : BOOLEAN, chainId : Chains \cup {0}, accounts : Accounts \cup {NoAccounts},
                   connected : BOOLEAN, disconnected : BOOLEAN]
      /\ prov.made /\ prov.chainId \in Chains
      /\ view = [chain |-> prov.chainId, connected |-> prov.connected]
  BY <1>1 DEF IInv, Base, Types, Owned, ListenersCurrent
<1>3. /\ connector \in [bound : BOOLEAN, connect : {"no", "waiting", "asking"}]
      /\ wagmi \in {"connected", "disconnected"} /\ chainInfo \in {"unknown", "learnt", "lost"}
  BY DEF IInv, Base, Types
<1>4. ASSUME ~EventAt(1), UNCHANGED <<chainInfo, view>>, frames' = Tail(frames), UNCHANGED phase,
             NEW a \in Accounts \cup {NoAccounts}, prov' = [prov EXCEPT !.accounts = a],
             connector' \in [bound : BOOLEAN, connect : {"no", "waiting", "asking"}],
             connector'.bound = connector.bound, wagmi' \in {"connected", "disconnected"},
             calls' = calls \/ \E c \in Slots : calls' = [calls EXCEPT ![c] = Ended]
      PROVE  IInv'
  <2>1. /\ prov' \in [made : BOOLEAN, chainId : Chains \cup {0}, accounts : Accounts \cup {NoAccounts},
                      connected : BOOLEAN, disconnected : BOOLEAN]
        /\ prov'.made = prov.made /\ prov'.chainId = prov.chainId /\ prov'.connected = prov.connected
    BY ZenonT(30), <1>2, <1>4
  <2>2. chainInfo = "learnt" /\ NoEventAfter(1) => prov.chainId = wallet.chain
    BY <1>1, <1>4, OtherFrame DEF IInv, Base
  <2>3. view' = [chain |-> prov'.chainId, connected |-> prov'.connected]  BY <1>2, <1>4, <2>1
  <2> QED BY <1>1, <1>2, <1>3, <1>4, <2>1, <2>2, <2>3, DeliverMove
<1>5. ASSUME f.t = "res", calls[f.c].st = "answered", responded(f), frames' = Tail(frames), UNCHANGED phase
      PROVE  IInv'
  <2> DEFINE call == calls[f.c]
  <2>1. f.c \in Slots /\ f.ok \in BOOLEAN /\ f.v \in Accounts \cup {NoAccounts}
    BY <1>1, <1>5 DEF FrameRecords
  <2>2. /\ calls' = [calls EXCEPT ![f.c] = Ended]
        /\ connector' = connector \/ connector' = [connector EXCEPT !.connect = "no"]
        /\ wagmi' \in {"connected", wagmi}
    BY <1>5 DEF responded
  <2>3. /\ connector' \in [bound : BOOLEAN, connect : {"no", "waiting", "asking"}]
        /\ connector'.bound = connector.bound /\ wagmi' \in {"connected", "disconnected"}
    BY <1>3, <2>2
  <2>4. CASE f.ok /\ call.m = Switch
    <3>1. Switched(call.chain)  BY <1>5, <2>4 DEF responded, Switch
    <3>2. call.chain \in Chains  BY <2>1, <2>4 DEF Latest, Slots
    <3>3. SwitchAt(1)  BY <1>5, <2>4 DEF SwitchAt
    <3>4. chainInfo # "lost" /\ NoEventAfter(1) => call.chain = wallet.chain
      BY <1>1, <3>3 DEF IInv, Synced
    <3> HIDE DEF f, call
    <3> QED BY ZenonT(30), <1>1, <1>5, <2>1, <2>2, <2>3, <3>1, <3>2, <3>4, SwitchedFacts, DeliverMove
  <2>5. CASE ~(f.ok /\ call.m = Switch)
    <3>1. UNCHANGED <<view, chainInfo>>  BY <1>5, <2>5 DEF responded, Switch
    <3>2. prov' = prov \/ prov' = [prov EXCEPT !.accounts = f.v]  BY <1>5, <2>5 DEF responded, Switch
    <3>3. \E a \in Accounts \cup {NoAccounts} : prov' = [prov EXCEPT !.accounts = a]
      BY <1>2, <2>1, <3>2
    <3>4. ~EventAt(1)  BY <1>5 DEF EventAt
    <3> QED BY ZenonT(30), <1>4, <1>5, <2>1, <2>2, <2>3, <3>1, <3>3, <3>4
  <2> QED BY <2>4, <2>5
<1>6. ASSUME f.t # "chainChanged", frames' = Tail(frames), UNCHANGED <<connection, calls, view, chainInfo>>,
             NEW a \in Accounts \cup {NoAccounts}, prov' = [prov EXCEPT !.accounts = a]
      PROVE  IInv'
  BY <1>3, <1>4, <1>6 DEF EventAt, connection
<1>7. ASSUME f.t = "res", frames' = Tail(frames), UNCHANGED <<connection, prov, calls, view, chainInfo>>
      PROVE  IInv'
  <2>1. prov' = [prov EXCEPT !.accounts = prov.accounts] /\ prov.accounts \in Accounts \cup {NoAccounts}
    BY <1>2, <1>7
  <2> QED BY ZenonT(30), <1>6, <1>7, <2>1
<1>8. ASSUME f.t = "accountsChanged", frames' = Tail(frames), UNCHANGED <<connection, calls, view, chainInfo>>,
             prov' = [prov EXCEPT !.accounts = f.v]
      PROVE  IInv'
  <2>1. f.v \in Accounts  BY <1>1, <1>8 DEF FrameRecords
  <2> QED BY <1>6, <1>8, <2>1
<1>9. ASSUME f.t = "chainChanged", Switched(f.v), frames' = Tail(frames), UNCHANGED <<connection, calls>>
      PROVE  IInv'
  <2>1. f.v \in Chains  BY <1>1, <1>9 DEF FrameRecords
  <2>2. EventAt(1)  BY <1>9 DEF EventAt
  <2>3. chainInfo # "lost" /\ NoEventAfter(1) => f.v = wallet.chain  BY <1>1, <2>2 DEF IInv, Synced
  <2>4. UNCHANGED <<phase, connector, wagmi>>  BY <1>9 DEF connection
  <2> HIDE DEF f
  <2> QED BY <1>1, <1>3, <1>9, <2>1, <2>3, <2>4, SwitchedFacts, DeliverMove
<1>10. ASSUME Closed("closed"), prov' = [prov EXCEPT !.connected = FALSE, !.disconnected = TRUE],
              view' = [view EXCEPT !.connected = FALSE], connector' = [connector EXCEPT !.connect = "no"]
       PROVE  IInv'
  BY ZenonT(30), <1>1, <1>10, ClosedStep
<1>11. Deliver(f)  BY <1>1, Delivered DEF IInv, Base
<1> QED BY <1>5, <1>7, <1>8, <1>9, <1>10, <1>11 DEF Deliver

-----------------------------------------------------------------------------
(* Answers under way *)

\* A call keeps its method and chain, or does not ask for a chain.
Same(x, y) == y.m # Switch \/ (y.m = x.m /\ y.chain = x.chain)

\* What session.request, a read and the end of a call do to it.
LEMMA SameCall ==
    /\ Ended.m # Switch /\ NoCall.m # Switch
    /\ \A x \in CallRecords : Same(x, Relayed(x)) /\ \A n : Same(x, Fetching(x, n))
    /\ \A x \in CallRecords : \A s : Same(x, [x EXCEPT !.st = s])
<1>1. Ended.m # Switch /\ NoCall.m # Switch  BY DEF Ended, NoCall, Switch
<1>2. \A x \in CallRecords : \A s : Same(x, [x EXCEPT !.st = s])  BY DEF Same, CallRecords
<1>3. ASSUME NEW x \in CallRecords PROVE Same(x, Relayed(x))  BY <1>1, <1>2 DEF Relayed, Same
<1>4. ASSUME NEW x \in CallRecords, NEW n PROVE Same(x, Fetching(x, n))
  <2>1. CASE n = 0  BY <1>3, <2>1 DEF Fetching
  <2>2. CASE n # 0
    <3>1. Fetching(x, n) = [x EXCEPT !.st = "fetching", !.i = 1, !.n = n]  BY ZenonT(30), <2>2 DEF Fetching
    <3> QED BY <3>1 DEF Same, CallRecords
  <2> QED BY <2>1, <2>2
<1> QED BY <1>1, <1>2, <1>3, <1>4

\* No frame is new but an answer, and a call that has been answered stays so.
LEMMA LatestMove ==
    ASSUME Latest,
           \A i \in 1 .. Len(frames') : \/ \E j \in 1 .. Len(frames) : frames'[i] = frames[j]
                                       \/ frames'[i].t # "res"
                                       \/ calls'[frames'[i].c].st = "answered",
           Len(frames') = 0 \/ \A c \in Calls : \/ calls'[c].st \in {calls[c].st, "answered", "stale", "done"}
                                              \/ calls[c].st \in {"idle", "resolving", "fetching"},
           \A c \in Slots : Same(calls[c], calls'[c]) \/ (c \in Calls /\ calls'[c].chain \in Chains)
    PROVE  Latest'
<1>1. ASSUME NEW i \in 1 .. Len(frames'), frames'[i].t = "res", frames'[i].c \in Calls
      PROVE  calls'[frames'[i].c].st \in {"answered", "stale", "done"}
  <2>1. CASE calls'[frames'[i].c].st = "answered"  BY <2>1
  <2>2. CASE \E j \in 1 .. Len(frames) : frames'[i] = frames[j]
    <3>1. calls[frames'[i].c].st \in {"answered", "stale", "done"}  BY <1>1, <2>2 DEF Latest
    <3>2. Len(frames') # 0  BY <1>1
    <3> QED BY <1>1, <3>1, <3>2
  <2> QED BY <1>1, <2>1, <2>2
<1>2. CONNECT \in Slots /\ CONNECT \notin Calls /\ Calls \subseteq Slots  BY ProviderAssumption DEF Slots
<1>3. calls'[CONNECT].m # Switch  BY <1>2 DEF Same, Latest
<1>4. \A c \in Calls : calls'[c].m = Switch => calls'[c].chain \in Chains  BY <1>2 DEF Same, Latest
<1> QED BY ZenonT(30), <1>1, <1>3, <1>4 DEF Latest

\* The frames under way stay, or there are none.
LEMMA LatestQuiet ==
    ASSUME Latest, Types, frames' = frames \/ frames' = <<>>,
           \A c \in Slots :
             \/ calls'[c] \in {calls[c], NoCall, Ended} /\ (frames' = <<>> \/ calls'[c] # NoCall \/ calls[c].st = "idle")
             \/ frames' = <<>> /\ \E s : calls'[c] = [calls[c] EXCEPT !.st = s]
             \/ calls[c].st \in {"idle", "resolving", "fetching"} /\ Same(calls[c], calls'[c])
             \/ c = CONNECT /\ calls'[c].m # Switch
             \/ calls[c].st = "idle" /\ c \in Calls /\ (calls'[c].m = Switch => calls'[c].chain \in Chains)
    PROVE  Latest'
<1>1. \A c \in Slots : calls[c] \in CallRecords  BY DEF Types
<1>2. \A i \in 1 .. Len(frames') : \E j \in 1 .. Len(frames) : frames'[i] = frames[j]  OBVIOUS
<1>3. Len(frames') = 0 \/ \A c \in Calls : \/ calls'[c].st \in {calls[c].st, "answered", "stale", "done"}
                                          \/ calls[c].st \in {"idle", "resolving", "fetching"}
  <2>1. CASE frames' = <<>>  BY <2>1
  <2>2. CASE frames' # <<>>
    <3>1. ASSUME NEW c \in Calls
          PROVE  \/ calls'[c].st \in {calls[c].st, "answered", "stale", "done"}
                 \/ calls[c].st \in {"idle", "resolving", "fetching"}
      <4>1. c \in Slots /\ c # CONNECT  BY ProviderAssumption DEF Slots
      <4> QED BY <2>2, <4>1, Blank
    <3> QED BY <3>1
  <2> QED BY <2>1, <2>2
<1>4. ASSUME NEW c \in Slots
      PROVE  Same(calls[c], calls'[c]) \/ (c \in Calls /\ calls'[c].chain \in Chains)
  <2>1. CASE calls'[c] \in {calls[c], NoCall, Ended}  BY <2>1, SameCall DEF Same
  <2>2. CASE \E s : calls'[c] = [calls[c] EXCEPT !.st = s]
    <3>1. PICK s : calls'[c] = [calls[c] EXCEPT !.st = s]  BY <2>2, ZenonT(30)
    <3>2. calls[c] \in CallRecords  BY <1>1
    <3>3. Same(calls[c], [calls[c] EXCEPT !.st = s])  BY <3>2, SameCall, ZenonT(30)
    <3> QED BY <3>1, <3>3, ZenonT(30)
  <2>3. CASE calls'[c].m # Switch  BY <2>3 DEF Same
  <2>4. CASE c \in Calls /\ (calls'[c].m = Switch => calls'[c].chain \in Chains)  BY <2>4 DEF Same
  <2> QED BY ZenonT(30), <2>1, <2>2, <2>3, <2>4
<1> QED BY <1>2, <1>3, <1>4, LatestMove

\* A new call, with the chain a switch names.
LEMMA LatestRequest ==
    ASSUME IInv, Latest, NEW c \in Calls, NEW m \in Methods, request(c, m)
    PROVE  Latest'
<1>0. Types /\ c \in Slots /\ calls[c].st = "idle" /\ frames' = frames
  BY ZenonT(30) DEF IInv, Base, Slots, request
<1>1. calls \in [Slots -> CallRecords]  BY <1>0 DEF Types
<1> SUFFICES \E x : calls' = [calls EXCEPT ![c] = x] /\ (x.m = Switch => x.chain \in Chains)
  <2> SUFFICES ASSUME NEW x, calls' = [calls EXCEPT ![c] = x], x.m = Switch => x.chain \in Chains
               PROVE  Latest'
    BY ZenonT(30)
  <2>1. calls'[c] = x /\ \A d \in Slots : d # c => calls'[d] = calls[d]  BY <1>0, <1>1
  <2>2. ASSUME NEW d \in Slots
        PROVE  \/ calls'[d] = calls[d] /\ (calls'[d] # NoCall \/ calls[d].st = "idle")
               \/ calls[d].st = "idle" /\ d \in Calls /\ (calls'[d].m = Switch => calls'[d].chain \in Chains)
    <3>1. CASE d = c  BY <1>0, <2>1, <3>1
    <3>2. CASE d # c  BY <2>1, <3>2, Blank
    <3> QED BY <3>1, <3>2
  <2> QED BY <1>0, <2>2, LatestQuiet
<1>2. CASE route(m) \in {"refused", "local"}
  BY ZenonT(30), <1>2, SameCall DEF request
<1>3. CASE route(m) = "read"
  <2> DEFINE call == [NoCall EXCEPT !.m = m, !.chain = prov.chainId]
  <2>1. serveReadOnly(c, m) /\ m # Switch
    BY ZenonT(30), <1>3 DEF request, route, READ_ONLY_METHODS, Switch
  <2>2. call.m = m /\ call \in CallRecords
    <3>1. prov.chainId \in Chains
      <4>1. prov.made  BY ZenonT(30) DEF request
      <4> QED BY <4>1 DEF IInv, Base, Owned
    <3> QED BY ZenonT(30), <3>1 DEF NoCall, CallRecords
  <2>3. ASSUME NEW n PROVE Fetching(call, n).m # Switch  BY ZenonT(30), <2>1, <2>2, SameCall DEF Same
  <2>4. [call EXCEPT !.st = "resolving"].m # Switch  BY <2>1, <2>2, SameCall DEF Same
  <2>5. \/ \E n : calls' = [calls EXCEPT ![c] = Fetching(call, n)]
        \/ calls' = [calls EXCEPT ![c] = [call EXCEPT !.st = "resolving"]]
    BY <2>1 DEF serveReadOnly
  <2> HIDE DEF call
  <2>6. ASSUME NEW x, calls' = [calls EXCEPT ![c] = x], x.m # Switch
        PROVE  \E y : calls' = [calls EXCEPT ![c] = y] /\ (y.m = Switch => y.chain \in Chains)
    BY ZenonT(30), <2>6
  <2> QED BY ZenonT(30), <2>3, <2>4, <2>5, <2>6
<1>4. CASE route(m) \notin {"refused", "local", "read"}
  <2>1. PICK e \in Chains \cup {0} :
          /\ m = Switch => e \in Chains
          /\ calls' = [calls EXCEPT ![c] = Relayed([NoCall EXCEPT !.m = m,
                          !.chain = IF m = Switch THEN e ELSE ChainParam(m, e),
                          !.asked = IF e \in Chains THEN e ELSE view.chain])]
    BY ZenonT(30), <1>4 DEF request, Switch
  <2> DEFINE call == [NoCall EXCEPT !.m = m, !.chain = IF m = Switch THEN e ELSE ChainParam(m, e),
                                    !.asked = IF e \in Chains THEN e ELSE view.chain]
  <2>2. call.m = m /\ (m = Switch => call.chain \in Chains)  BY <2>1 DEF NoCall
  <2>3. call \in CallRecords
    <3>1. prov.chainId \in Chains /\ view.chain = prov.chainId
      <4>1. prov.made  BY ZenonT(30) DEF request
      <4> QED BY <4>1 DEF IInv, Base, Owned, ListenersCurrent
    <3> QED BY ZenonT(30), <3>1 DEF NoCall, CallRecords, ChainParam
  <2>4. Same(call, Relayed(call))  BY <2>3, SameCall
  <2> QED BY ZenonT(30), <2>1, <2>2, <2>4 DEF Same
<1> QED BY <1>2, <1>3, <1>4

\* A read that goes on.
LEMMA LatestRead ==
    ASSUME IInv, Latest, NEW c \in Slots, NEW ch \in Chains, discovered(ch) \/ fetched(c)
    PROVE  Latest'
<1>0. Types /\ frames' = frames /\ \A d \in Slots : calls[d] \in CallRecords
  BY DEF IInv, Base, Types, discovered, fetched
<1> SUFFICES ASSUME NEW d \in Slots
             PROVE  \/ calls'[d] \in {calls[d], Ended}
                    \/ calls[d].st \in {"resolving", "fetching"} /\ Same(calls[d], calls'[d])
  BY <1>0, Blank, LatestQuiet
<1>1. CASE discovered(ch)
  BY <1>0, <1>1, SameCall DEF discovered
<1>2. CASE fetched(c)
  <2>1. calls[c].st = "fetching" /\ calls \in [Slots -> CallRecords]  BY <1>2 DEF fetched, IInv, Base, Types
  <2> DEFINE next == [calls[c] EXCEPT !.i = @ + 1]
  <2>2. next \in CallRecords /\ next.m = calls[c].m /\ next.chain = calls[c].chain
    <3>1. calls[c].i \in Nat  BY <2>1 DEF CallRecords
    <3> QED BY <2>1, <3>1 DEF CallRecords
  <2>3. Same(calls[c], next) /\ Same(calls[c], Relayed(next))  BY ZenonT(30), <2>2, SameCall DEF Same
  <2>4. \/ calls' = [calls EXCEPT ![c] = Ended]
        \/ calls' = [calls EXCEPT ![c] = IF calls[c].i < calls[c].n THEN next ELSE Relayed(next)]
    BY <1>2 DEF fetched
  <2> HIDE DEF next
  <2> QED BY <2>1, <2>3, <2>4
<1> QED BY <1>1, <1>2

\* The session closes, drops, connects or is left, and a call that times out.
LEMMA LatestSession ==
    ASSUME IInv, Latest,
           \/ \E c \in Slots : timeout(c)
           \/ close \/ drop \/ connected \/ disconnect \/ reload \/ \E ch \in Chains : connect(ch)
    PROVE  Latest'
<1>0. Types /\ calls \in [Slots -> CallRecords] /\ CONNECT \in Slots  BY DEF IInv, Base, Types, Slots
<1>1. CASE \E c \in Slots : timeout(c)
  <2>1. frames' = frames /\ \A d \in Slots : calls'[d] \in {calls[d], Ended}  BY <1>0, <1>1 DEF timeout
  <2> QED BY <1>0, <2>1, Blank, LatestQuiet
<1>2. CASE close
  <2>1. frames' = <<>> /\ \A d \in Slots : calls'[d] \in {calls[d], Ended}  BY <1>2 DEF close, Closed
  <2> QED BY <1>0, <2>1, LatestQuiet
<1>3. CASE drop
  <2>1. /\ frames' = <<>>
        /\ \A d \in Slots : calls'[d] = calls[d] \/ calls'[d] = [calls[d] EXCEPT !.st = "relayed"]
    BY <1>3 DEF drop
  <2> QED BY ZenonT(30), <1>0, <2>1, LatestQuiet
<1>4. CASE connected
  <2>1. /\ frames' = frames
        /\ \/ calls' = calls
           \/ calls' = [calls EXCEPT ![CONNECT] = [NoCall EXCEPT !.m = "eth_requestAccounts", !.st = "relayed"]]
    BY <1>4 DEF connected
  <2>2. [NoCall EXCEPT !.m = "eth_requestAccounts", !.st = "relayed"].m # Switch  BY DEF NoCall, Switch
  <2>3. \A d \in Slots : calls'[d] = calls[d] \/ (d = CONNECT /\ calls'[d].m # Switch)
    BY ZenonT(30), <1>0, <2>1, <2>2
  <2> QED BY <1>0, <2>1, <2>3, Blank, LatestQuiet
<1>5. CASE disconnect \/ reload
  <2>1. frames' = <<>> /\ \A d \in Slots : calls'[d] \in {NoCall, Ended}  BY ZenonT(30), <1>5 DEF disconnect, reload
  <2> QED BY <1>0, <2>1, LatestQuiet
<1>6. CASE \E ch \in Chains : connect(ch)
  <2>1. \/ /\ frames' = <<>>
           /\ \A d \in Slots : calls'[d] = calls[d] \/ calls'[d] = [calls[d] EXCEPT !.st = "stale"]
        \/ frames' = frames /\ calls' = calls
    BY <1>6 DEF connect
  <2> QED BY ZenonT(30), <1>0, <2>1, Blank, LatestQuiet
<1> QED BY <1>1, <1>2, <1>3, <1>4, <1>5, <1>6

\* The wallet answers or tells of a change.
LEMMA LatestSends ==
    ASSUME IInv, Latest, NEW c \in Slots, walletAnswers(c) \/ walletPushes
    PROVE  Latest'
<1>0. Types /\ calls \in [Slots -> CallRecords] /\ frames \in Seq(FrameRecords)  BY DEF IInv, Base, Types
<1>1. CASE walletPushes
  <2>1. calls' = calls /\ \E f : f.t # "res" /\ frames' = frames \o <<f>>
    BY ZenonT(30), <1>1 DEF walletPushes, Send, ChainEvent
  <2>2. \A i \in 1 .. Len(frames') : (\E j \in 1 .. Len(frames) : frames'[i] = frames[j]) \/ frames'[i].t # "res"
    BY <1>0, <2>1
  <2> QED BY <2>1, <2>2, LatestMove DEF Same
<1>2. CASE walletAnswers(c)
  <2> DEFINE v == IF calls[c].res = "none" THEN wallet.accounts ELSE calls[c].val
  <2>1. PICK ok :
          /\ calls' = [calls EXCEPT ![c].st = "answered", ![c].res = IF ok THEN "ok" ELSE "err", ![c].val = v]
          /\ \/ frames' = frames \o <<ChainEvent(calls[c].chain), Response(c, ok, v)>>
             \/ frames' = frames \o <<Response(c, ok, v), ChainEvent(calls[c].chain)>>
             \/ frames' = frames \o <<Response(c, ok, v)>>
    BY ZenonT(30), <1>2 DEF walletAnswers, Send
  <2> HIDE DEF v
  <2>2. /\ calls'[c].st = "answered" /\ Same(calls[c], calls'[c])
        /\ \A d \in Slots : d # c => calls'[d] = calls[d]
    BY <1>0, <2>1 DEF CallRecords, Same
  <2>3. ASSUME NEW i \in 1 .. Len(frames')
        PROVE  \/ \E j \in 1 .. Len(frames) : frames'[i] = frames[j]
               \/ frames'[i].t # "res"
               \/ frames'[i].c = c
    <3>1. ASSUME NEW ch PROVE ChainEvent(ch).t # "res" /\ Response(c, ok, v).c = c  BY DEF ChainEvent, Response
    <3>2. CASE frames' = frames \o <<Response(c, ok, v)>>  BY <1>0, <3>1, <3>2
    <3>3. ASSUME NEW ch, frames' = frames \o <<ChainEvent(ch), Response(c, ok, v)>>
          PROVE  \/ \E j \in 1 .. Len(frames) : frames'[i] = frames[j]
                 \/ frames'[i].t # "res" \/ frames'[i].c = c
      BY <1>0, <3>1, <3>3
    <3>4. ASSUME NEW ch, frames' = frames \o <<Response(c, ok, v), ChainEvent(ch)>>
          PROVE  \/ \E j \in 1 .. Len(frames) : frames'[i] = frames[j]
                 \/ frames'[i].t # "res" \/ frames'[i].c = c
      BY <1>0, <3>1, <3>4
    <3> QED BY ZenonT(30), <2>1, <3>2, <3>3, <3>4
  <2>4. \A d \in Calls : calls'[d].st \in {calls[d].st, "answered"}  BY <2>2 DEF Slots
  <2>5. \A d \in Slots : Same(calls[d], calls'[d])  BY <2>2 DEF Same
  <2> QED BY <2>2, <2>3, <2>4, <2>5, LatestMove
<1> QED BY <1>1, <1>2

\* A frame is handed on.
LEMMA LatestDeliver ==
    ASSUME IInv, Latest, deliver
    PROVE  Latest'
<1>0. Types /\ calls \in [Slots -> CallRecords] /\ frames \in Seq(FrameRecords) /\ frames # <<>>
  BY DEF IInv, Base, Types, deliver
<1>1. /\ frames' = Tail(frames) \/ frames' = <<>>
      /\ \/ calls' = calls
         \/ \E c : calls' = [calls EXCEPT ![c] = Ended]
         \/ calls' = [c \in Slots |-> IF c \in Asking THEN Ended ELSE calls[c]]
  <2>1. Deliver(frames[1])  BY <1>0, Delivered
  <2> QED BY ZenonT(30), <2>1 DEF Deliver, Closed, responded
<1>2. \A i \in 1 .. Len(frames') : \E j \in 1 .. Len(frames) : frames'[i] = frames[j]
  <2>1. ASSUME frames' = Tail(frames), NEW i \in 1 .. Len(frames')
        PROVE  i + 1 \in 1 .. Len(frames) /\ frames'[i] = frames[i + 1]
    BY <1>0, <2>1
  <2> QED BY <1>1, <2>1
<1>3. \A d \in Slots : calls'[d] \in {calls[d], Ended}  BY <1>0, <1>1
<1>4. \A d \in Calls : calls'[d].st \in {calls[d].st, "done"}  BY <1>3, Blank DEF Slots
<1>5. \A d \in Slots : Same(calls[d], calls'[d])  BY <1>3, SameCall DEF Same
<1> QED BY <1>2, <1>4, <1>5, LatestMove

-----------------------------------------------------------------------------
(* The theorems *)

AInv == IInv /\ Latest

LEMMA AInvInit == Init => AInv
<1> SUFFICES ASSUME Init PROVE AInv  OBVIOUS
<1>1. Types
  <2>1. /\ prov \in [made : BOOLEAN, chainId : Chains \cup {0}, accounts : Accounts \cup {NoAccounts},
                     connected : BOOLEAN, disconnected : BOOLEAN]
        /\ view \in [chain : Chains \cup {0}, connected : BOOLEAN]
    BY DEF Init, NoProvider
  <2>2. rpc \in [cache : [Chains -> 0 .. MAX_RPC_FAILOVER_ENDPOINTS], inflight : SUBSET Chains]
    BY ProviderAssumption DEF Init, NoRpc
  <2>3. calls \in [Slots -> CallRecords]  BY Blank DEF Init
  <2>4. frames \in Seq(FrameRecords) /\ Len(frames) <= MaxFrames  BY ProviderAssumption DEF Init
  <2> QED BY <2>1, <2>2, <2>3, <2>4 DEF Types, Init
<1>2. Owned /\ ListenersCurrent /\ WagmiNotStale
  BY DEF Init, NoProvider, Owned, ListenersCurrent, WagmiNotStale
<1>3. \A c \in Slots : calls[c] = NoCall  BY DEF Init
<1>4. (\A c \in Slots : RightCall(calls[c])) /\ FirstAnswers  BY <1>3, Blank DEF FirstAnswers
<1>5. frames = <<>> /\ chainInfo = "unknown" /\ Len(frames) = 0  BY DEF Init
<1>6. Synced  BY <1>5 DEF Synced
<1>7. Latest  BY <1>3, <1>5, SameCall DEF Latest, Slots
<1> QED BY <1>1, <1>2, <1>4, <1>6, <1>7 DEF AInv, IInv, Base

LEMMA AInvNext == AInv /\ [Next]_vars => AInv'
<1> SUFFICES ASSUME AInv, [Next]_vars PROVE AInv'  OBVIOUS
<1>0. IInv /\ Latest  BY DEF AInv
<1>1. ASSUME NEW c \in Calls, NEW m \in Methods, request(c, m) PROVE AInv'
  BY <1>0, <1>1, RequestStep, LatestRequest DEF AInv
<1>2. ASSUME NEW ch \in Chains, discovered(ch) PROVE AInv'
  <2>1. CONNECT \in Slots  BY DEF Slots
  <2> QED BY <1>0, <1>2, <2>1, DiscoveredStep, LatestRead DEF AInv
<1>3. ASSUME NEW ch \in Chains, connect(ch) PROVE AInv'
  BY <1>0, <1>3, ConnectStep, LatestSession DEF AInv
<1>4. ASSUME NEW c \in Slots, fetched(c) PROVE AInv'
  <2>1. wallet.chain \in Chains  BY <1>0 DEF IInv, Base, Types
  <2> QED BY <1>0, <1>4, <2>1, FetchedStep, LatestRead DEF AInv
<1>5. ASSUME NEW c \in Slots, walletAnswers(c) PROVE AInv'
  BY <1>0, <1>5, AnswersStep, LatestSends DEF AInv
<1>6. ASSUME NEW c \in Slots, timeout(c) PROVE AInv'
  BY <1>0, <1>6, TimeoutStep, LatestSession DEF AInv
<1>7. CASE close  BY <1>0, <1>7, CloseStep, LatestSession DEF AInv
<1>8. CASE drop  BY <1>0, <1>8, DropStep, LatestSession DEF AInv
<1>9. CASE connected  BY <1>0, <1>9, ConnectedStep, LatestSession DEF AInv
<1>10. CASE walletPushes
  <2>1. CONNECT \in Slots  BY DEF Slots
  <2> QED BY <1>0, <1>10, <2>1, PushesStep, LatestSends DEF AInv
<1>11. CASE deliver  BY <1>0, <1>11, DeliverStep, LatestDeliver DEF AInv
<1>12. CASE disconnect \/ reload  BY <1>0, <1>12, ForgetStep, LatestSession DEF AInv
<1>13. CASE UNCHANGED vars
  <2>1. Base'  BY <1>0, <1>13 DEF IInv, Base, Types, Owned, ListenersCurrent, WagmiNotStale, vars
  <2>2. (\A c \in Slots : RightCall(calls[c]))' /\ FirstAnswers'
    BY ZenonT(30), <1>0, <1>13 DEF IInv, FirstAnswers, RightCall, vars
  <2>3. Synced'  BY ZenonT(30), <1>0, <1>13 DEF IInv, Synced, EventAt, SwitchAt, NoEventAfter, vars
  <2>4. Latest'  BY <1>0, <1>13 DEF Latest, vars
  <2> QED BY <2>1, <2>2, <2>3, <2>4 DEF AInv, IInv
<1> QED BY <1>1, <1>2, <1>3, <1>4, <1>5, <1>6, <1>7, <1>8, <1>9, <1>10, <1>11, <1>12, <1>13 DEF Next

LEMMA AInvAlways == Spec => []AInv
BY AInvInit, AInvNext, PTL DEF Spec

\* A read reaches the wallet only after every endpoint known for its chain has
\* failed, and a request to sign carries the chain its transaction names, or the
\* chain the listeners had been told.
THEOREM AlwaysRelayedRightly == Spec => []RelayedRightly
<1>1. AInv => RelayedRightly
  <2> SUFFICES ASSUME AInv PROVE RelayedRightly  OBVIOUS
  <2>1. Types /\ \A c \in Slots : RightCall(calls[c])  BY DEF AInv, IInv, Base
  <2>2. \A c \in Slots : calls[c].st \in {"idle", "resolving", "fetching", "relayed", "answered", "stale", "done"}
    BY <2>1 DEF Types, CallRecords
  <2>3. TypeOK  BY <2>1, <2>2 DEF TypeOK, Types
  <2> QED BY <2>1, <2>3 DEF RelayedRightly, RightCall, Slots
<1> QED BY <1>1, AInvAlways, PTL

\* The chain and the connection that the provider reports are those its listeners
\* were last told, along every path that changes them.
THEOREM ListenersAlwaysCurrent == Spec => []ListenersCurrent
<1>1. AInv => ListenersCurrent  BY DEF AInv, IInv, Base
<1> QED BY <1>1, AInvAlways, PTL

\* A resolved switch and the chainChanged events, which race, leave the provider
\* on the wallet's chain.
THEOREM ChainAlwaysInSync == Spec => []ChainInSync
<1>1. AInv => ChainInSync
  BY DEF AInv, IInv, Synced, NoEventAfter, ChainInSync
<1> QED BY <1>1, AInvAlways, PTL

\* wagmi never says connected of a session that is closed or forgotten.
THEOREM WagmiNeverStale == Spec => []WagmiNotStale
<1>1. AInv => WagmiNotStale  BY DEF AInv, IInv, Base
<1> QED BY <1>1, AInvAlways, PTL
=============================================================================
