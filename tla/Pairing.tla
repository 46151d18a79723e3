------------------------------- MODULE Pairing -------------------------------
(***************************************************************************)
(* One dApp, its wallets and the relay together: the handshake that        *)
(* derives the traffic keys, and the reconnects that have to arrive at the *)
(* same keys again.  The key schedule exists twice, in the SDK (crypto.ts) *)
(* and in the mobile wallet (lib/walletpair.ts); a wallet is one or the    *)
(* other.  The relay is the Rust relay or the Cloudflare worker, reduced   *)
(* from RelayChannel and CFChannel to what the two ends can observe: it    *)
(* handles a frame when it is sent, and its answers are queued.            *)
(***************************************************************************)
EXTENDS Naturals, Integers, Sequences

CONSTANTS
    Dapp,       \* the dApp, and the public key in its pairing URI
    Wallets,
    Setups,     \* dApp option, relay, and what the wallets grant
    MaxJoins,   \* bound on the key pairs of a wallet
    MaxSeq,     \* bound on the requests of the dApp
    MaxDrops,   \* bound on lost connections
    None

VARIABLES
    setup,      \* [auto, relay, requires, apps, caps] of this behaviour
    dapp,       \* the DAppSession
    wal,        \* wal[w]: the WalletSession, or the app's session
    net,        \* the channel at the relay and the queues to its peers
    drops,
    garbled     \* history: requests the wallet could not decrypt

vars == <<setup, dapp, wal, net, drops, garbled>>

-----------------------------------------------------------------------------
(* Terms: a derived value is the tuple of what it is derived from.         *)

Ch   == "ch"        \* the channel id
Name == "name"      \* the dApp's name

computeSharedSecret(a, b) == {a, b}

deriveSessionKey(shared, ch) == <<"walletpair-v1 root", shared, ch>>

\* The dApp's SessionCryptoContext; an absent meta is null on both sides
sessionContext(wallet, caps, meta) ==
    [dapp |-> Dapp, wallet |-> wallet, caps |-> caps, meta |-> meta, name |-> Name]

computeHandshakeTranscriptHash(ch, c) ==
    <<"walletpair-v1-transcript", ch, c.dapp, c.wallet, c.caps, c.meta, c.name>>

deriveDirectionalSessionKeys(root, ch, c) ==
    LET hash == computeHandshakeTranscriptHash(ch, c) IN
    [toWallet |-> <<"walletpair-v1 dapp-to-wallet", root, hash>>,
     toDapp   |-> <<"walletpair-v1 wallet-to-dapp", root, hash>>]

deriveJoinEncryptionKey(root, ch) == <<"walletpair-v1 join-encryption", root, ch>>

sealJoin(key, ch, caps, meta) == [key |-> key, aad |-> <<ch, 4>>, caps |-> caps, meta |-> meta]

unseals(key, ch, sealed) == sealed.key = key /\ sealed.aad = <<ch, 4>>

\* buildAad: the type byte, then sender and id
AadByte == [req |-> 1, res |-> 2, evt |-> 3]
buildAad(ch, type, from, id) == <<ch, AadByte[type], from, id>>

sealPayload(key, ch, seq, type, from, id) ==
    [t |-> type, key |-> key, seq |-> seq, aad |-> buildAad(ch, type, from, id), id |-> id]

\* The nonce is recomputed from the key and the number in front of the frame
unsealPayload(key, ch, m, type, from) == m.key = key /\ m.aad = buildAad(ch, type, from, m.id)

\* The mobile wallet's own versions
deriveRootKey(shared, ch) == <<"walletpair-v1 root", shared, ch>>
\* Mutant: the transcript without the dApp's name
computeTranscriptHash_nameless(ch, d, wallet, caps, meta, name) ==
    <<"walletpair-v1-transcript", ch, d, wallet, caps, meta>>
computeTranscriptHash(ch, d, wallet, caps, meta, name) ==
    <<"walletpair-v1-transcript", ch, d, wallet, caps, meta, name>>
deriveDirectionalKeys(root, hash) ==
    [toWallet |-> <<"walletpair-v1 dapp-to-wallet", root, hash>>,
     toDapp   |-> <<"walletpair-v1 wallet-to-dapp", root, hash>>]
deriveJoinKey(root, ch) == <<"walletpair-v1 join-encryption", root, ch>>
appSealJoin(key, ch, caps, meta) ==
    [key |-> key, aad |-> <<ch, 4>>, caps |-> caps, meta |-> IF meta = "null" THEN "{}" ELSE meta]
\* Mutant: the type byte of a response
appAad_swapped(ch, type, from, id) ==
    <<ch, IF type = "req" THEN 2 ELSE IF type = "res" THEN 1 ELSE 3, from, id>>
appAad(ch, type, from, id) ==
    <<ch, IF type = "req" THEN 1 ELSE IF type = "res" THEN 2 ELSE 3, from, id>>
appUnsealPayload(key, ch, m, type, from) == m.key = key /\ m.aad = appAad(ch, type, from, m.id)

Apps == setup.apps      \* the wallets that are the mobile app

\* The pairing URI: a parameter is there or not
Declared == IF setup.requires THEN {"methods", "chains"} ELSE {}
buildPairingUri ==
    [p \in {"ch", "pubkey", "relay", "name", "url", "icon"} \cup Declared |->
       CASE p = "ch" -> Ch [] p = "pubkey" -> Dapp [] p = "name" -> Name [] OTHER -> p]
parsePairingUri(uri) ==
    IF {"ch", "pubkey", "relay", "name", "url", "icon"} \subseteq DOMAIN uri
    THEN [ch |-> uri["ch"], pubkey |-> uri["pubkey"], name |-> uri["name"]] ELSE None
appParsePairingUri(uri) ==
    IF {"ch", "pubkey", "relay"} \subseteq DOMAIN uri
    THEN [ch |-> uri["ch"], pubkey |-> uri["pubkey"],
          name |-> IF "name" \in DOMAIN uri THEN uri["name"] ELSE ""] ELSE None

\* A wallet grants all it has, whatever the URI declares.
effectiveCapabilities(w) == setup.caps[w]
Meta(w) == IF w \in Apps THEN "meta" ELSE "null"

\* The SDK wallet's SessionCryptoContext is made of the URI.
walletContext(uri, w, k) ==
    [dapp |-> uri.pubkey, wallet |-> k, caps |-> effectiveCapabilities(w), meta |-> Meta(w),
     name |-> uri.name]

\* Both make the traffic keys and the key of the join from the URI and a new
\* public key k.
prepareJoin(uri, w, k) ==
    LET root == deriveSessionKey(computeSharedSecret(k, uri.pubkey), uri.ch) IN
    [keys    |-> deriveDirectionalSessionKeys(root, uri.ch, walletContext(uri, w, k)),
     joinKey |-> deriveJoinEncryptionKey(root, uri.ch)]
deriveSessionKeys(uri, w, k) ==
    LET root == deriveRootKey(computeSharedSecret(k, uri.pubkey), uri.ch)
        hash == computeTranscriptHash(uri.ch, uri.pubkey, k, effectiveCapabilities(w), Meta(w), uri.name) IN
    [keys |-> deriveDirectionalKeys(root, hash), joinKey |-> deriveJoinKey(root, uri.ch)]

-----------------------------------------------------------------------------
(* The relay: each operator takes the state `n` of the channel and gives    *)
(* the one after the frame.                                                 *)

Ready(state, remote) == [t |-> "ready", state |-> state, remote |-> remote]
Terminate(why)       == [t |-> "terminate", reason |-> why]
Eof                  == [t |-> "eof"]

queued(n, who, m) == [n EXCEPT !.q[who] = Append(@, m)]
toDapp(n, m)      == IF n.dapp THEN queued(n, Dapp, m) ELSE n
toWallet(n, m)    == IF n.up # None THEN queued(n, n.up, m) ELSE n
\* The worker ends the wallet's socket, the Rust relay leaves it be
hangUp(n, m) == IF n.up = None \/ setup.relay = "rust" THEN n
                ELSE [queued(n, n.up, m) EXCEPT !.read = @ \ {n.up}]
Removed(n) == [n EXCEPT !.state = "none", !.wallet = None, !.dapp = FALSE, !.up = None]

\* A socket ends.  The worker closes a channel that loses its dApp, and lets
\* one that loses its wallet wait again, before it is connected.
disconnect(n, who) ==
    LET early == setup.relay = "cf" /\ n.state \in {"waiting", "pending_accept"}
        left  == CASE who = Dapp /\ n.dapp /\ early  -> Removed(hangUp(n, Terminate("channel_not_found")))
                   [] who = Dapp /\ n.dapp /\ ~early -> [n EXCEPT !.dapp = FALSE]
                   [] who = n.up /\ early  -> [n EXCEPT !.state = "waiting", !.wallet = None, !.up = None]
                   [] who = n.up /\ ~early -> [n EXCEPT !.up = None]
                   [] OTHER -> n
    IN [left EXCEPT !.read = @ \ {who}]

refuse(n, who, why) == queued(disconnect(n, who), who, Terminate(why))

\* The worker tells the wallet of the channel it replaces that it is over.
handle_create(n) ==
    IF n.state = "pending_accept" \/ (n.state = "connected" /\ n.dapp)
    THEN refuse(n, Dapp, "channel_exists")
    ELSE queued([Removed(hangUp(n, Terminate("normal"))) EXCEPT !.state = "waiting", !.dapp = TRUE],
                Dapp, Ready("waiting", None))

\* The Rust relay takes a join for a dApp that is away, and loses it.
handle_join(n, w, key, sealed) ==
    CASE n.state = "none"    -> refuse(n, w, "channel_not_found")
      [] n.state = "waiting" ->
           queued(toDapp([n EXCEPT !.state = "pending_accept", !.wallet = key, !.up = w],
                         [t |-> "join", from |-> key, sealed |-> sealed]),
                  w, Ready("waiting", None))
      [] OTHER               -> refuse(n, w, "already_connected")

handle_accept(n, target) ==
    CASE n.state = "none" -> refuse(n, Dapp, "channel_not_found")
      [] n.state = "pending_accept" /\ target = n.wallet ->
           toWallet(toDapp([n EXCEPT !.state = "connected"], Ready("connected", n.wallet)),
                    Ready("connected", Dapp))
      [] OTHER -> refuse(n, Dapp, "invalid_state")

\* The channel is removed; the worker also closes both sockets.
handle_close(n, who, why) ==
    LET m == [t |-> "close", reason |-> why]
        eofs(x) == IF setup.relay = "rust" THEN x
                   ELSE [(IF who = Dapp THEN toWallet(x, Eof) ELSE toDapp(x, Eof))
                         EXCEPT !.q[who] = Append(@, Eof), !.read = @ \ {who, n.up, Dapp}]
    IN CASE n.state = "none"          -> n
         [] n.state # "none" /\ who = Dapp /\ n.dapp -> Removed(eofs(toWallet(n, m)))
         [] n.state # "none" /\ who = n.up           -> Removed(eofs(toDapp(n, m)))
         [] OTHER                     -> refuse(n, who, "invalid_role")

\* A frame with a payload, or a ping, for the other peer
handle_data(n, who, m) ==
    IF (who = Dapp /\ ~n.dapp) \/ (who # Dapp /\ who # n.up)
    THEN refuse(n, who, IF n.state = "none" THEN "channel_not_found" ELSE "invalid_role")
    ELSE IF who = Dapp THEN toWallet(n, m) ELSE n

\* A peer's frame reaches the relay only on a socket that is still read
sent(n, who, after) == IF who \in n.read THEN after ELSE n
\* A peer's own end of its socket, and a new one
gone(n, who) == [disconnect(n, who) EXCEPT !.q[who] = <<>>]
opened(n, who) == [gone(n, who) EXCEPT !.read = @ \cup {who}]

Init ==
    /\ setup \in Setups
    /\ dapp = [phase |-> "idle", sock |-> FALSE, remote |-> None, keys |-> None,
               scope |-> None, approved |-> None, timer |-> FALSE, leaked |-> FALSE,
               seq |-> 0, stranger |-> FALSE, ended |-> FALSE]
    /\ wal = [w \in Wallets |-> [phase |-> "idle", sock |-> FALSE, n |-> 0, key |-> None,
                                 keys |-> None, recvSeq |-> -1, why |-> None]]
    /\ net = [state |-> "none", wallet |-> None, dapp |-> FALSE, up |-> None,
              read |-> {}, q |-> [x \in Wallets \cup {Dapp} |-> <<>>]]
    /\ drops = 0 /\ garbled = {}

-----------------------------------------------------------------------------
(* The dApp                                                                *)

Permanent == {"normal", "user_rejected", "unsupported_capability", "unsupported_version",
              "already_connected", "decryption_failed"}

dappClosed(d) == [d EXCEPT !.phase = "closed", !.timer = FALSE, !.sock = FALSE, !.ended = TRUE]
\* startReconnect, the socket gone
dappLost(d) == IF d.phase = "closed" THEN [d EXCEPT !.sock = FALSE]
               ELSE [d EXCEPT !.phase = "disconnected", !.timer = FALSE, !.sock = FALSE]

local == UNCHANGED <<setup, drops, garbled>>

createPairing ==
    /\ dapp.phase = "idle"
    /\ dapp' = [dapp EXCEPT !.phase = "waiting", !.sock = TRUE]
    /\ net' = handle_create(opened(net, Dapp))
    /\ UNCHANGED wal /\ local

\* close(): the frame goes out if the socket still takes it, then the socket ends.
close(why) ==
    /\ dapp' = dappClosed(dapp)
    /\ net' = gone(sent(net, Dapp, handle_close(net, Dapp, why)), Dapp)
    /\ UNCHANGED wal /\ local

doAccept(d, n) ==
    /\ dapp' = [d EXCEPT !.approved = [key |-> d.remote, caps |-> d.scope.caps, meta |-> d.scope.meta]]
    /\ net' = sent(n, Dapp, handle_accept(n, d.remote))
    /\ UNCHANGED wal /\ local

\* The application answers a join that asks for it, once.
acceptWallet ==
    /\ dapp.phase = "pending_accept" /\ dapp.timer
    /\ doAccept([dapp EXCEPT !.timer = FALSE], net)

rejectWallet == dapp.phase = "pending_accept" /\ dapp.timer /\ close("user_rejected")

acceptTimeout == dapp.timer /\ close("timeout")
leakedTimeout ==
    /\ dapp.leaked /\ dapp.phase # "closed"
    /\ dapp' = [dappClosed(dapp) EXCEPT !.leaked = FALSE]
    /\ net' = gone(sent(net, Dapp, handle_close(net, Dapp, "timeout")), Dapp)
    /\ UNCHANGED wal /\ local

\* What the join says of the wallet: a null join of a paired dApp is a reconnect
\* and has the approved scope.
joinScope(m) ==
    LET root == deriveSessionKey(computeSharedSecret(m.from, Dapp), Ch) IN
    CASE m.sealed = None /\ dapp.approved # None ->
           [caps |-> dapp.approved.caps, meta |-> dapp.approved.meta]
      [] m.sealed # None /\ unseals(deriveJoinEncryptionKey(root, Ch), Ch, m.sealed) ->
           [caps |-> m.sealed.caps, meta |-> m.sealed.meta]
      [] OTHER -> None

isSameApprovedWallet(m, scope) ==
    dapp.approved # None /\ dapp.approved = [key |-> m.from, caps |-> scope.caps, meta |-> scope.meta]

\* The timer of an earlier join is overwritten, and goes on.
askUser(d) == [d EXCEPT !.timer = TRUE, !.leaked = @ \/ d.timer]

\* Mutant: the keys of the first pairing are kept
join_keeps_keys(m, n) ==
    LET scope == joinScope(m)
        keyed == [dapp EXCEPT !.remote = m.from, !.scope = scope,
                    !.keys = IF @ # None THEN @ ELSE deriveDirectionalSessionKeys(
                               deriveSessionKey(computeSharedSecret(m.from, Dapp), Ch), Ch,
                               sessionContext(m.from, scope.caps, scope.meta))] IN
    IF scope = None
    THEN /\ dapp' = [dapp EXCEPT !.remote = m.from]
         /\ net' = sent(n, Dapp, handle_close(n, Dapp, "protocol_error"))
         /\ UNCHANGED wal /\ local
    ELSE doAccept([keyed EXCEPT !.phase = "pending_accept"], n)

\* A join that is refused leaves the session waiting, with the new remote key
\* and, if the scope is too small, the new traffic keys.
join(m, n) ==
    LET scope == joinScope(m)
        root  == deriveSessionKey(computeSharedSecret(m.from, Dapp), Ch)
        keyed == [dapp EXCEPT !.remote = m.from, !.scope = scope,
                    !.keys = deriveDirectionalSessionKeys(root, Ch,
                               sessionContext(m.from, scope.caps, scope.meta))]
        known == isSameApprovedWallet(m, scope)
        pending == [keyed EXCEPT !.phase = "pending_accept",
                      !.stranger = @ \/ (m.sealed = None /\ ~known)] IN
    CASE scope = None ->
           /\ dapp' = [dapp EXCEPT !.remote = m.from]
           /\ net' = sent(n, Dapp, handle_close(n, Dapp,
                          IF m.sealed = None THEN "protocol_error" ELSE "decryption_failed"))
           /\ UNCHANGED wal /\ local
      [] scope # None /\ setup.requires /\ scope.caps = "narrow" ->
           /\ dapp' = keyed
           /\ net' = sent(n, Dapp, handle_close(n, Dapp, "unsupported_capability"))
           /\ UNCHANGED wal /\ local
      [] scope # None /\ ~(setup.requires /\ scope.caps = "narrow") /\ (setup.auto \/ known) ->
           doAccept(pending, n)
      [] OTHER -> dapp' = askUser(pending) /\ net' = n /\ UNCHANGED wal /\ local

\* handleMessage of the dApp, on the next frame of its queue
dappReceives ==
    /\ dapp.sock /\ net.q[Dapp] # <<>>
    /\ LET m    == Head(net.q[Dapp])
           n    == [net EXCEPT !.q[Dapp] = Tail(@)]
           only(d) == dapp' = d /\ net' = n /\ UNCHANGED wal /\ local
           lost == dapp' = dappLost(dapp) /\ net' = gone(n, Dapp) /\ UNCHANGED wal /\ local
       IN CASE m.t = "join" -> join(m, n)
            [] m.t = "ready" /\ m.state = "waiting" -> only([dapp EXCEPT !.phase = "waiting"])
            [] m.t = "ready" /\ m.state = "connected" ->
                 IF m.remote = dapp.remote THEN only([dapp EXCEPT !.phase = "connected"])
                                           ELSE close("normal")
            [] m.t = "close" ->
                 only(IF dapp.phase = "disconnected" THEN dapp ELSE [dapp EXCEPT !.phase = "closed"])
            [] m.t = "terminate" /\ m.reason \in Permanent -> only([dapp EXCEPT !.phase = "closed"])
            [] OTHER -> lost

\* doReconnectAttempt
dappReconnects ==
    /\ dapp.phase = "disconnected" /\ ~dapp.sock
    /\ dapp' = [dapp EXCEPT !.sock = TRUE]
    /\ net' = handle_create(opened(net, Dapp))
    /\ UNCHANGED wal /\ local

\* The heartbeat: the relay refuses the ping of a dApp whose channel is gone;
\* with no wallet to answer, the session gives the connection up.
dappHeartbeat ==
    /\ dapp.phase = "connected" /\ Dapp \in net.read
    /\ \/ ~net.dapp /\ net' = handle_data(net, Dapp, Eof) /\ UNCHANGED dapp
       \/ net.dapp /\ net.up = None /\ dapp' = dappLost(dapp) /\ net' = gone(net, Dapp)
    /\ UNCHANGED wal /\ local

request ==
    /\ dapp.phase = "connected" /\ dapp.seq < MaxSeq
    /\ dapp' = [dapp EXCEPT !.seq = @ + 1]
    /\ net' = sent(net, Dapp, handle_data(net, Dapp,
                     sealPayload(dapp.keys.toWallet, Ch, dapp.seq, "req", Dapp, dapp.seq)))
    /\ UNCHANGED wal /\ local

userCloses == dapp.phase \in {"waiting", "connected"} /\ close("normal")

-----------------------------------------------------------------------------
(* The wallets                                                             *)

on(w, s, n) ==
    /\ wal' = [wal EXCEPT ![w] = s]
    /\ net' = n
    /\ UNCHANGED <<setup, dapp, drops, garbled>>

away(w) == IF w \in Apps THEN "reconnecting" ELSE "disconnected"
walletLost(w) == [wal[w] EXCEPT !.phase = IF @ = "closed" THEN @ ELSE away(w), !.sock = FALSE]

\* confirmJoin, and the app's freshJoin and connectAndJoin: the join is sealed
\* once, and its key erased.  The connection may be lost with the join on it.
sendJoin(w) ==
    LET k == <<w, wal[w].n + 1>>
        p == IF w \in Apps THEN deriveSessionKeys(appParsePairingUri(buildPairingUri), w, k)
                           ELSE prepareJoin(parsePairingUri(buildPairingUri), w, k)
        sealed == IF w \in Apps THEN appSealJoin(p.joinKey, Ch, effectiveCapabilities(w), Meta(w))
                                ELSE sealJoin(p.joinKey, Ch, effectiveCapabilities(w), Meta(w))
        s == [wal[w] EXCEPT !.n = @ + 1, !.key = k, !.keys = p.keys, !.recvSeq = -1,
                            !.sock = TRUE, !.why = None,
                            !.phase = IF w \in Apps THEN "waiting" ELSE "waiting_accept"] IN
    /\ dapp.phase # "idle"
    /\ wal[w].phase \in {"idle", "closed"} /\ wal[w].n < MaxJoins
    /\ \/ on(w, s, handle_join(opened(net, w), w, k, sealed))
       \/ /\ drops < MaxDrops /\ drops' = drops + 1
          /\ wal' = [wal EXCEPT ![w] = [s EXCEPT !.phase = away(w), !.sock = FALSE]]
          /\ UNCHANGED <<setup, dapp, net, garbled>>

\* doReconnectAttempt, and the app's tryConnect: a join without a scope
walletReconnects(w) ==
    /\ wal[w].phase = away(w) /\ ~wal[w].sock
    /\ on(w, [wal[w] EXCEPT !.sock = TRUE, !.phase = IF w \in Apps THEN @ ELSE "waiting_accept"],
          handle_join(opened(net, w), w, wal[w].key, None))

\* The request is for this wallet's key, or it cannot be read.
req(w, m, n) ==
    IF ~(IF w \in Apps THEN appUnsealPayload(wal[w].keys.toWallet, Ch, m, "req", Dapp)
                       ELSE unsealPayload(wal[w].keys.toWallet, Ch, m, "req", Dapp))
    THEN /\ garbled' = garbled \cup {<<w, m.seq>>}
         /\ net' = n
         /\ UNCHANGED <<setup, dapp, wal, drops>>
    ELSE on(w, [wal[w] EXCEPT !.recvSeq = IF m.seq <= @ THEN @ ELSE m.seq], n)

\* handleMessage of the two wallets.  The app ends its session at any terminate
\* that does not find it reconnecting.
walletReceives(w) ==
    /\ wal[w].sock /\ net.q[w] # <<>>
    /\ LET m == Head(net.q[w])
           n == [net EXCEPT !.q[w] = Tail(@)]
           ended(why) == on(w, [wal[w] EXCEPT !.phase = "closed", !.why = why], n)
           lost == on(w, walletLost(w), gone(n, w))
       IN CASE m.t = "ready" /\ m.state = "waiting" ->
                 on(w, [wal[w] EXCEPT !.phase = IF w \in Apps THEN "waiting" ELSE "waiting_accept"], n)
            [] m.t = "ready" /\ m.state = "connected" -> on(w, [wal[w] EXCEPT !.phase = "connected"], n)
            [] m.t = "req" -> IF wal[w].phase = "connected" THEN req(w, m, n) ELSE on(w, wal[w], n)
            [] m.t = "close" -> IF wal[w].phase = "reconnecting" THEN on(w, wal[w], n) ELSE ended(m.reason)
            [] m.t = "terminate" ->
                 IF (IF w \in Apps THEN wal[w].phase # "reconnecting" ELSE m.reason \in Permanent)
                 THEN ended(m.reason) ELSE lost
            [] OTHER -> lost

\* Mutant: the wallet pings only to see whether the dApp is there
walletHeartbeat_lax(w) ==
    /\ wal[w].phase = "connected" /\ w \in net.read
    /\ w \notin Apps /\ net.up = w /\ ~net.dapp /\ on(w, walletLost(w), gone(net, w))

\* The heartbeat of the SDK's wallet; the app only finds out when it sends.
walletHeartbeat(w) ==
    /\ wal[w].phase = "connected" /\ w \in net.read
    /\ \/ net.up # w /\ on(w, wal[w], handle_data(net, w, Eof))
       \/ w \notin Apps /\ net.up = w /\ ~net.dapp /\ on(w, walletLost(w), gone(net, w))

walletCloses(w) ==
    /\ wal[w].phase \notin {"idle", "closed"}
    /\ on(w, [wal[w] EXCEPT !.phase = "closed", !.sock = FALSE],
          gone(sent(net, w, handle_close(net, w, "normal")), w))

\* A connection is lost, with what was queued on it.
drop(who) ==
    /\ drops < MaxDrops /\ drops' = drops + 1
    /\ net' = gone(net, who)
    /\ IF who = Dapp THEN dapp.sock /\ dapp' = dappLost(dapp) /\ UNCHANGED wal
                     ELSE wal[who].sock /\ wal' = [wal EXCEPT ![who] = walletLost(who)] /\ UNCHANGED dapp
    /\ UNCHANGED <<setup, garbled>>

\* The unpaired channel's time is up.  It is long against the backoff, so only a
\* channel that waits for nothing else gets there: a wallet joined while the dApp
\* was away, and the relay refuses the create of its return.
expire ==
    /\ net.state = "pending_accept" /\ ~net.dapp
    /\ net' = Removed(toWallet([net EXCEPT !.read = @ \ {net.up}], Terminate("timeout")))
    /\ UNCHANGED <<setup, dapp, wal, drops, garbled>>

dappNext == \/ createPairing \/ dappReceives \/ dappReconnects \/ dappHeartbeat \/ request
            \/ acceptWallet \/ rejectWallet \/ acceptTimeout \/ leakedTimeout \/ userCloses

walletNext(w) == \/ sendJoin(w) \/ walletReceives(w) \/ walletReconnects(w) \/ walletHeartbeat(w)
                 \/ walletCloses(w)

Next == dappNext \/ expire \/ (\E w \in Wallets : walletNext(w)) \/ (\E x \in Wallets \cup {Dapp} : drop(x))

\* Queued frames are read, reconnect and heartbeat timers fire, and so does the
\* timer of an unanswered join.
Fairness ==
    /\ WF_vars(dappReceives) /\ WF_vars(dappReconnects) /\ WF_vars(dappHeartbeat)
    /\ WF_vars(acceptTimeout) /\ WF_vars(expire)
    /\ \A w \in Wallets : WF_vars(walletReceives(w)) /\ WF_vars(walletReconnects(w))
                          /\ WF_vars(walletHeartbeat(w))

Spec == Init /\ [][Next]_vars /\ Fairness

-----------------------------------------------------------------------------
(* Properties                                                              *)

Keys == {None} \cup (Wallets \X (1..MaxJoins))

\* The types of the sessions and of the channel; a queue holds at most the
\* frames of one handshake, the requests, and the end of the socket.
TypeOK ==
    /\ dapp.phase \in {"idle", "waiting", "pending_accept", "connected", "disconnected", "closed"}
    /\ dapp.remote \in Keys /\ dapp.seq \in 0..MaxSeq
    /\ \A w \in Wallets : wal[w].key \in Keys /\ wal[w].recvSeq \in -1..MaxSeq
    /\ net.state \in {"none", "waiting", "pending_accept", "connected"}
    /\ net.wallet \in Keys /\ net.up \in Wallets \cup {None}
    /\ net.read \subseteq Wallets \cup {Dapp}
    /\ \A x \in Wallets \cup {Dapp} : Len(net.q[x]) <= 4 + MaxSeq + MaxDrops

\* When the dApp and the wallet it names are both connected they hold the same
\* traffic keys, whatever was lost, refused or joined again in between and
\* whichever of the two key schedules the wallet has, and no wallet ever gets a
\* request that it cannot decrypt.  A null join from a wallet that the dApp has
\* not approved is excluded: the join handler takes it for a reconnect and
\* derives keys of the other wallet's scope.
KeysAgree ==
    /\ TypeOK
    /\ ~dapp.stranger =>
         /\ garbled = {}
         /\ \A w \in Wallets :
              dapp.phase = "connected" /\ wal[w].phase = "connected" /\ dapp.remote = wal[w].key
                  => dapp.keys = wal[w].keys

\* A connected dApp talks to the wallet it approved, under the approved scope,
\* although a refused join already overwrites remotePubKey and the traffic keys.
ConnectedApproved ==
    dapp.phase = "connected" /\ ~dapp.stranger =>
        /\ dapp.approved # None /\ dapp.remote = dapp.approved.key
        /\ dapp.keys = deriveDirectionalSessionKeys(
                         deriveSessionKey(computeSharedSecret(dapp.remote, Dapp), Ch), Ch,
                         sessionContext(dapp.remote, dapp.approved.caps, dapp.approved.meta))

Approved(w) == dapp.approved # None /\ dapp.approved.key = wal[w].key
Together(w) == dapp.phase = "connected" /\ wal[w].phase = "connected" /\ dapp.remote = wal[w].key
\* A refused join removes the channel, and nothing makes the waiting dApp notice.
Stranded    == dapp.phase = "waiting" /\ dapp.sock /\ ~net.dapp

\* A dApp and the SDK wallet it approved do not stay apart: after the last lost
\* connection they are connected to each other again, or one of the sessions is
\* over, or the dApp has approved another wallet, or it refused a join and is
\* left waiting for a channel that is gone.
Reunites ==
    \A w \in Wallets :
        (w \notin Apps /\ Approved(w)) ~>
            \/ Together(w)
            \/ dapp.phase = "closed" \/ wal[w].phase = "closed"
            \/ ~Approved(w) \/ Stranded

\* types.ts and the table of reasons: `normal` is said by a peer, and only a
\* deliberate end closes a session for good.
OnlyDeliberateEnds == \A w \in Wallets : wal[w].why = "normal" => dapp.ended
=============================================================================
