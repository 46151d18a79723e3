--------------------------- MODULE ExtensionBridge ---------------------------
(***************************************************************************)
(* A page and the extension: the injected provider (provider-factory.ts,   *)
(* provider.content.ts), the content script's port (content.ts), and what  *)
(* the service worker answers and broadcasts to an origin: permissions     *)
(* (storage.ts), account requests, read-only calls (rpc-proxy.ts).  The    *)
(* session is only up or down here; Background details it.                 *)
(***************************************************************************)
EXTENDS Naturals, Sequences

CONSTANTS
    Pages,      \* tabs, each with an origin of its own
    Calls,      \* calls of provider.request that the content script forwards
    Methods,    \* their methods
    MaxWrites,  \* bound: permission updates waiting for the lock
    MaxInbox    \* bound: messages on the way to a page

ASSUME BridgeBounds == MaxWrites \in Nat \ {0} /\ MaxInbox \in Nat \ {0}

VARIABLES
    page,        \* page[p]: the provider's state, and the content script's port
    call,        \* call[c]: its promise in the page and where the worker is with it
    inbox,       \* inbox[p]: messages posted to the page, oldest first
    registered,  \* contentPorts
    stale,       \* pages whose previous document's port is still to disconnect
    session,     \* the session is connected
    stored,      \* connectedWallet in storage
    permissions, writes, expected,   \* origins granted, updates under the lock, their outcome (history)
    approved,    \* origins the wallet has once approved (history)
    missed       \* pages the last disconnect event was not posted to (history)

vars == <<page, call, inbox, registered, stale, session, stored, permissions, writes, expected, approved, missed>>
granting == <<permissions, writes, expected>>
history == <<approved, missed>>

NewPage == [accounts |-> FALSE, port |-> "none"]
NoCall == [promise |-> "none", at |-> "idle", method |-> "none", page |-> "none", permitted |-> FALSE, wrapped |-> FALSE, lost |-> FALSE]

Stages == {"idle", "checking", "reading", "deferred", "forwarded", "answered", "posted"}

Init ==
    /\ page = [p \in Pages |-> NewPage]
    /\ call = [c \in Calls |-> NoCall]
    /\ inbox = [p \in Pages |-> <<>>]
    /\ registered = {} /\ stale = {}
    /\ session = FALSE /\ stored = FALSE
    /\ permissions = {} /\ writes = <<>> /\ expected = {}
    /\ approved = {} /\ missed = {}

\* --------------------------------------------------- page to worker

\* A settled promise whose call the worker is done with leaves no trace.
Tidy(r) == IF r.promise = "none" /\ r.at = "idle" THEN NoCall ELSE r

\* The page's message goes over the port, which is opened if there is none, or
\* with sendMessage if posting fails.
sendToBackground(p) ==
    \E port \in {"up", "none"} :
        /\ page' = [page EXCEPT ![p].port = port]
        /\ registered' = IF port = "up" /\ page[p].port = "none" THEN registered \cup {p} ELSE registered

\* provider.request: isPermitted is read when the message arrives and used
\* when handleRpcRequest goes on.
request(c, p, m) ==
    /\ call[c] = NoCall /\ page[p].port # "dead"
    /\ sendToBackground(p)
    /\ call' = [call EXCEPT ![c] = [NoCall EXCEPT !.promise = "pending", !.at = "checking", !.method = m,
                                                 !.page = p, !.permitted = m = "personal_sign" /\ p \in permissions]]
    /\ UNCHANGED <<inbox, stale, session, stored, granting, history>>

timeout_cleared(c) ==
    /\ call[c].promise = "pending" /\ call[c].at # "idle"
    /\ call' = [call EXCEPT ![c] = Tidy([@ EXCEPT !.promise = "none"])]
    /\ UNCHANGED <<page, inbox, registered, stale, session, stored, granting, history>>

\* The provider's 60 s timer; the worker may still be at work on the call.
timeout(c) ==
    /\ call[c].promise = "pending"
    /\ call' = [call EXCEPT ![c] = Tidy([@ EXCEPT !.promise = "none"])]
    /\ UNCHANGED <<page, inbox, registered, stale, session, stored, granting, history>>

\* --------------------------------------------------- worker to page

\* port.postMessage or sendResponse: an answer to a call whose port is gone
\* is lost.  Only an answer with accounts has its place among the events.
Replied(r) == Tidy([r EXCEPT !.at = IF r.lost THEN "idle" ELSE "answered", !.permitted = FALSE, !.wrapped = FALSE])

Reply(c) == call' = [call EXCEPT ![c] = Replied(@)] /\ UNCHANGED inbox

ReplyAccounts(c) ==
    LET p == call[c].page
    IN IF call[c].lost
       THEN Reply(c)
       ELSE /\ Len(inbox[p]) < MaxInbox
            /\ call' = [call EXCEPT ![c] = [Replied(@) EXCEPT !.at = "posted"]]
            /\ inbox' = [inbox EXCEPT ![p] = Append(@, [type |-> "response", call |-> c])]

deliver(c) ==
    /\ call[c].at = "answered"
    /\ call' = [call EXCEPT ![c] = NoCall]
    /\ UNCHANGED <<page, inbox, registered, stale, session, stored, granting, history>>

Receivers_all == registered

\* broadcastEvent: to the registered ports of permitted origins.
Receivers == registered \cap permissions

broadcastEvent(e) ==
    /\ \A p \in Pages : Len(inbox[p]) < MaxInbox
    /\ inbox' = [p \in Pages |-> IF p \in Receivers
                                 THEN Append(inbox[p], [type |-> e, call |-> "none"])
                                 ELSE inbox[p]]

\* handleMessage in the provider.
Told(v, type) ==
    CASE type \in {"response", "accounts"}      -> [v EXCEPT !.accounts = TRUE]
      [] type \in {"no_accounts", "disconnect"} -> [v EXCEPT !.accounts = FALSE]

\* A response is only looked at while its promise is pending.
handleMessage(p) ==
    /\ inbox[p] # <<>>
    /\ inbox' = [inbox EXCEPT ![p] = Tail(@)]
    /\ LET m == Head(inbox[p])
           heard == m.type # "response" \/ call[m.call].promise = "pending"
       IN /\ page' = IF heard THEN [page EXCEPT ![p] = Told(@, m.type)] ELSE page
          /\ call' = IF m.type = "response" THEN [call EXCEPT ![m.call] = NoCall] ELSE call
    /\ UNCHANGED <<registered, stale, session, stored, granting, history>>

\* ------------------------------------------------- handleRpcRequest

\* withPermissionLock queues an update; it runs when those before it are done.
Enqueue(grant, p) ==
    /\ Len(writes) < MaxWrites
    /\ writes' = Append(writes, [grant |-> grant, origin |-> p, read |-> FALSE, snap |-> {}])
    /\ expected' = IF grant THEN expected \cup {p} ELSE expected \ {p}
    /\ UNCHANGED permissions

AccountMethods == {"eth_requestAccounts", "wallet_requestPermissions"}

\* Past isPermitted: reads go to the RPC proxy; without a session account
\* requests are deferred and the rest refused; with one, only account
\* requests and permitted origins are forwarded.
handleRpcRequest(c) ==
    /\ call[c].at = "checking"
    /\ LET m == call[c].method
           next == CASE m = "eth_call"                                   -> "reading"
                     [] m # "eth_call" /\ ~session /\ m \in AccountMethods -> "deferred"
                     [] session /\ (m \in AccountMethods \/ (m # "eth_call" /\ call[c].permitted)) -> "forwarded"
                     [] OTHER                                            -> "refused"
       IN IF next = "refused"
          THEN Reply(c)
          ELSE /\ call' = [call EXCEPT ![c].at = next, ![c].permitted = FALSE,
                                        ![c].wrapped = @ \/ (next = "deferred" /\ m = "wallet_requestPermissions")]
               /\ UNCHANGED inbox
    /\ UNCHANGED <<page, registered, stale, session, stored, granting, history>>

deferredTimeout(c) ==
    /\ call[c].at = "deferred"
    /\ Reply(c)
    /\ UNCHANGED <<page, registered, stale, session, stored, granting, history>>

\* The wallet approved: an account request stores the wallet and grants the
\* origin, a wallet_requestPermissions grants it only if it had been deferred.
walletApproves(c) ==
    /\ call[c].at = "forwarded" /\ session
    /\ IF call[c].method = "eth_requestAccounts" THEN ReplyAccounts(c) ELSE Reply(c)
    /\ LET p == call[c].page
           m == call[c].method
       IN /\ stored' = (stored \/ m = "eth_requestAccounts")
          /\ approved' = IF m \in AccountMethods THEN approved \cup {p} ELSE approved
          /\ IF m = "eth_requestAccounts" \/ call[c].wrapped THEN Enqueue(TRUE, p) ELSE UNCHANGED granting
    /\ UNCHANGED <<page, registered, stale, session, missed>>

forwardFails(c) ==
    /\ call[c].at = "forwarded"
    /\ Reply(c)
    /\ UNCHANGED <<page, registered, stale, session, stored, granting, history>>

\* proxyRpcCall: an answer of the chain's endpoint or of a fallback, or an error.
proxyRpcCall(c) ==
    /\ call[c].at = "reading"
    /\ Reply(c)
    /\ UNCHANGED <<page, registered, stale, session, stored, granting, history>>

\* ------------------------------------------------------- permissions

revokePermission(p) ==
    /\ Enqueue(FALSE, p)
    /\ UNCHANGED <<page, call, inbox, registered, stale, session, stored, history>>

MayRun(k) == k = 1

withPermissionLock(k) ==
    /\ MayRun(k)
    /\ LET u == writes[k]
       IN \/ /\ ~u.read
             /\ writes' = [writes EXCEPT ![k].read = TRUE, ![k].snap = permissions]
             /\ UNCHANGED permissions
          \/ /\ u.read
             /\ permissions' = IF u.grant THEN u.snap \cup {u.origin} ELSE u.snap \ {u.origin}
             /\ writes' = [n \in 1..(Len(writes) - 1) |-> IF n < k THEN writes[n] ELSE writes[n + 1]]
    /\ UNCHANGED <<page, call, inbox, registered, stale, session, stored, expected, history>>

\* ------------------------------------------------- session and wallet

\* "connected": deferred calls run handleRpcRequest again.
sessionUp ==
    /\ ~session /\ session' = TRUE
    /\ call' = [c \in Calls |-> IF call[c].at = "deferred"
                                THEN [call[c] EXCEPT !.at = "checking"]
                                ELSE call[c]]
    /\ UNCHANGED <<page, inbox, registered, stale, stored, granting, history>>

sessionDrops ==
    /\ session /\ session' = FALSE
    /\ UNCHANGED <<page, call, inbox, registered, stale, stored, granting, history>>

handleSessionClosed_silent ==
    /\ session' = FALSE /\ stored' = FALSE
    /\ missed' = Pages \ Receivers
    /\ UNCHANGED <<page, call, inbox, registered, stale, granting, approved>>

\* handleSessionClosed: deferred calls are rejected, the wallet is forgotten
\* and permitted pages are told.
handleSessionClosed ==
    /\ session' = FALSE /\ stored' = FALSE
    /\ broadcastEvent("disconnect")
    /\ missed' = Pages \ Receivers
    /\ call' = [c \in Calls |-> IF call[c].at = "deferred" THEN Replied(call[c]) ELSE call[c]]
    /\ UNCHANGED <<page, registered, stale, granting, approved>>

\* accountsChanged from the wallet, and the wallet restored by a rebuild.
onAccountsChanged(some) ==
    /\ session \/ (some /\ stored)
    /\ stored' = (stored \/ some)
    /\ broadcastEvent(IF some THEN "accounts" ELSE "no_accounts")
    /\ UNCHANGED <<page, call, registered, stale, session, granting, history>>

\* doTryReconnect finds the snapshot past its age: forgotten, nobody is told.
snapshotExpired ==
    /\ ~session /\ stored
    /\ stored' = FALSE /\ missed' = Pages
    /\ UNCHANGED <<page, call, inbox, registered, stale, session, granting, approved>>

\* ------------------------------------------------- documents and ports

\* A navigation: a new document with a new provider; the old port's
\* disconnect reaches the worker on its own.
reload(p) ==
    /\ page' = [page EXCEPT ![p] = NewPage]
    /\ call' = [c \in Calls |-> IF call[c].page = p THEN Tidy([call[c] EXCEPT !.promise = "none", !.lost = TRUE,
                                                                              !.at = IF @ \in {"posted", "answered"} THEN "idle" ELSE @])
                                                    ELSE call[c]]
    /\ inbox' = [inbox EXCEPT ![p] = <<>>]
    /\ stale' = IF page[p].port = "up" THEN stale \cup {p} ELSE stale
    /\ UNCHANGED <<registered, session, stored, granting, history>>

\* port.onDisconnect in the worker: deletes the tab's entry, whoever's it is.
portDisconnected(p) ==
    /\ p \in stale
    /\ stale' = stale \ {p} /\ registered' = registered \ {p}
    /\ UNCHANGED <<page, call, inbox, session, stored, granting, history>>

\* The browser stops the worker: ports close, the calls it held are lost.
stopWorker ==
    /\ writes = <<>> /\ \A c \in Calls : call[c].at # "checking"
    /\ page' = [p \in Pages |-> [page[p] EXCEPT !.port = IF @ = "dead" THEN @ ELSE "none"]]
    /\ call' = [c \in Calls |-> IF call[c].at \in {"posted", "answered"} THEN call[c] ELSE Tidy([call[c] EXCEPT !.at = "idle", !.lost = TRUE])]
    /\ registered' = {} /\ stale' = {} /\ session' = FALSE
    /\ UNCHANGED <<inbox, stored, granting, history>>

\* The extension is updated: this document's content script is cut off for good.
contextInvalidated(p) ==
    /\ page[p].port # "dead"
    /\ page' = [page EXCEPT ![p].port = "dead"]
    /\ registered' = registered \ {p}
    /\ call' = [c \in Calls |-> IF call[c].page = p /\ call[c].at \notin {"idle", "posted", "answered"} THEN [call[c] EXCEPT !.lost = TRUE] ELSE call[c]]
    /\ UNCHANGED <<inbox, stale, session, stored, granting, history>>

WorkerStep(c) == handleRpcRequest(c) \/ deferredTimeout(c) \/ forwardFails(c) \/ proxyRpcCall(c)

Next ==
    \/ \E c \in Calls : \/ \E p \in Pages, m \in Methods : request(c, p, m)
                        \/ timeout(c) \/ deliver(c) \/ WorkerStep(c) \/ walletApproves(c)
    \/ \E p \in Pages : handleMessage(p) \/ revokePermission(p) \/ reload(p) \/ portDisconnected(p) \/ contextInvalidated(p)
    \/ \E k \in DOMAIN writes : withPermissionLock(k)
    \/ sessionUp \/ sessionDrops \/ handleSessionClosed \/ snapshotExpired
    \/ \E some \in BOOLEAN : onAccountsChanged(some)
    \/ stopWorker

\* Timers fire, messages are delivered, storage and fetches answer.
Fairness ==
    /\ \A c \in Calls : WF_vars(timeout(c)) /\ WF_vars(deliver(c)) /\ WF_vars(WorkerStep(c))
    /\ \A p \in Pages : WF_vars(handleMessage(p))
    /\ WF_vars(\E k \in DOMAIN writes : withPermissionLock(k))

Spec == Init /\ [][Next]_vars /\ Fairness

\* -------------------------------------------------------- properties

\* Pages, calls, permissions and frames on the ports have their types
TypeOK ==
    /\ page \in [Pages -> [accounts : BOOLEAN, port : {"none", "up", "dead"}]]
    /\ \A c \in Calls : call[c].promise \in {"none", "pending"} /\ call[c].at \in Stages
    /\ \A p \in Pages : Len(inbox[p]) \in 0..MaxInbox
    /\ registered \subseteq Pages /\ stale \subseteq Pages
    /\ session \in BOOLEAN /\ stored \in BOOLEAN
    /\ permissions \subseteq Pages /\ Len(writes) \in 0..MaxWrites

\* Grants are kept and respected: the lock of storage.ts loses no update (once its
\* queue is drained the granted origins are the outcome of all grants and
\* revocations in order), and a page knows an account only if the wallet has
\* approved its origin, whatever is broadcast, repeated or late.
GrantsRespected ==
    /\ TypeOK
    /\ writes = <<>> => permissions = expected
    /\ \A p \in Pages : page[p].accounts => p \in approved

\* When the wallet has been forgotten, a page that still shows its account has
\* a message on the way, or is one the disconnect event was not posted to.
PagesTold == \A p \in Pages : page[p].accounts /\ ~stored /\ inbox[p] = <<>> => p \in missed

\* Every promise the provider hands out settles, also when the port, the
\* worker, the session or the answer is lost (provider-factory.ts:109-114).
EveryPromiseSettles == \A c \in Calls : []<>(call[c].promise = "none")
=============================================================================
