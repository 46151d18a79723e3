------------------------------- MODULE Session -------------------------------
(***************************************************************************)
(* The life of one session object, DAppSession or WalletSession, on its    *)
(* WebSocketTransport: phases, automatic reconnect, and the timers for     *)
(* reconnect, acceptance, session lifetime and heartbeat.  The two classes *)
(* share this machinery; `role` tells them apart.  An object serves one    *)
(* pairing, or is restored from a snapshot of one.                         *)
(*                                                                         *)
(* An event handler and the promise continuations it triggers run to       *)
(* completion, so each is one action; sockets, timers and API calls        *)
(* interleave between them.  What the session sends, its keys and its      *)
(* snapshots are left to the other modules.                                *)
(***************************************************************************)
EXTENDS Naturals

CONSTANTS
    Sockets,        \* WebSocket objects alive at the same time
    MaxAttempts,    \* maxReconnectAttempts
    MaxReconnects,  \* bound on reconnect() calls of the application
    None

ASSUME SessionAssumption ==
    /\ MaxAttempts \in Nat \ {0} /\ MaxReconnects \in Nat
    /\ None \notin Sockets

VARIABLES
    role,           \* "dapp" or "wallet"
    phase,
    stop,           \* intentionalClose
    reconnecting,
    attempt,        \* reconnectAttempt
    streak,         \* reconnectStartedAt # 0
    retry,          \* reconnectTimer is armed
    accept,         \* pendingAcceptTimer is armed
    ttl,            \* sessionTtlTimer is armed
    beat,           \* heartbeatTimer is armed
    live,           \* livenessTimer is armed
    remote,         \* remotePubKey is set
    ws,             \* transport.ws
    state,          \* transport.state
    sock,           \* sock[s]: what becomes of socket s
    prepared,       \* history: a pairing waits for connectTransport or confirmJoin
    reconnects,     \* history: reconnect() calls so far
    overlapped      \* history: one was made while another socket was alive

cycle     == <<reconnecting, attempt, streak>>
timers    == <<retry, accept, ttl>>
health    == <<beat, live>>
transport == <<ws, state, sock>>
calls     == <<prepared, reconnects, overlapped>>
vars      == <<role, phase, stop, cycle, timers, health, remote, transport, calls>>

Phases == {"idle", "waiting", "pending_accept", "waiting_accept", "connected",
           "disconnected", "closed"}

\* A socket that is opening resolves a connect() awaited by connectTransport or
\* confirmJoin ("pair") or by doReconnectAttempt ("attempt").  Once open it is
\* "open" until the relay has answered create or join, then "waiting" or
\* "connected" as the relay's ready says, and "ended" when the relay has sent the
\* last message for the channel.
Opening == {"pair", "attempt"}
Opened  == {"open", "waiting", "connected", "ended"}
Alive   == {s \in Sockets : sock[s] # "free"}

Init ==
    /\ role \in {"dapp", "wallet"}
    /\ phase = "idle"
    /\ stop = FALSE /\ reconnecting = FALSE /\ attempt = 0 /\ streak = FALSE
    /\ retry = FALSE /\ accept = FALSE /\ ttl = FALSE
    /\ beat = FALSE /\ live = FALSE
    /\ remote = FALSE
    /\ ws = None /\ state = "disconnected" /\ sock = [s \in Sockets |-> "free"]
    /\ prepared = FALSE /\ reconnects = 0 /\ overlapped = FALSE

-----------------------------------------------------------------------------
(* Pieces of the handlers *)

canReconnect == ~stop /\ phase # "closed"

\* Mutant: the heartbeat is not stopped
setPhase_keeps(p) ==
    /\ phase' = p
    /\ UNCHANGED health

\* setPhase: a change to any phase but connected stops the heartbeat
setPhase(p) ==
    /\ phase' = p
    /\ beat' = (beat /\ p \in {phase, "connected"})
    /\ live' = (live /\ p \in {phase, "connected"})

\* transport.connect()
connect(for) ==
    /\ Alive # Sockets
    /\ LET s == CHOOSE s \in Sockets : s \notin Alive
       IN  sock' = [sock EXCEPT ![s] = for]
    /\ state' = "connecting"
    /\ UNCHANGED ws

\* transport.disconnect(): the current socket goes without an event; one that is
\* still opening is not the current socket and goes on opening
disconnect ==
    /\ sock' = [s \in Sockets |-> IF s = ws THEN "free" ELSE sock[s]]
    /\ ws' = None
    /\ state' = "disconnected"

\* close(), and destroy() with it
closeSession ==
    /\ stop' = TRUE
    /\ retry' = FALSE /\ accept' = FALSE /\ ttl' = FALSE
    /\ disconnect
    /\ setPhase("closed")
    /\ prepared' = FALSE
    /\ UNCHANGED <<role, cycle, remote, reconnects, overlapped>>

\* scheduleReconnect after n attempts, in phase p and with the flag reconnecting
\* at r; giveUpReconnect when the attempts are used up, or the time is, which
\* takes a streak that began earlier
scheduleReconnect(p, r, n, begun) ==
    /\ streak' = TRUE
    /\ \/ /\ n < MaxAttempts
          /\ retry' = TRUE /\ reconnecting' = r
          /\ setPhase(p)
          /\ UNCHANGED stop
       \/ /\ n >= MaxAttempts \/ begun
          /\ retry' = FALSE /\ reconnecting' = FALSE
          /\ setPhase("closed")
          /\ stop' = TRUE

\* Mutant: every drop starts the count again
startReconnect_afresh ==
    /\ scheduleReconnect("disconnected", TRUE, 0, FALSE)
    /\ attempt' = 0
    /\ accept' = FALSE

\* A cycle that is under way keeps its count; the accept timer is the dApp's
startReconnect ==
    LET n == IF reconnecting THEN attempt ELSE 0
    IN  /\ scheduleReconnect("disconnected", TRUE, n, reconnecting /\ streak)
        /\ attempt' = n
        /\ accept' = FALSE

handleTransportClose ==
    \/ /\ canReconnect
       /\ startReconnect
    \/ /\ ~canReconnect
       /\ UNCHANGED <<phase, stop, cycle, retry, accept, health>>

\* Mutant: a failed attempt is not followed by another
connectFailed_reported(for) ==
    /\ prepared' = (prepared \/ (for = "pair" /\ canReconnect))
    /\ UNCHANGED <<phase, stop, cycle, retry, health>>

\* A rejected connect(): the catch of doReconnectAttempt schedules the next one;
\* connectTransport and confirmJoin hand the error to their caller, who may call
\* them again
connectFailed(for) ==
    \/ /\ for = "attempt" /\ canReconnect
       /\ scheduleReconnect(phase, reconnecting, attempt, streak)
       /\ UNCHANGED <<attempt, prepared>>
    \/ /\ for = "attempt" => ~canReconnect
       /\ prepared' = (prepared \/ (for = "pair" /\ canReconnect))
       /\ UNCHANGED <<phase, stop, cycle, retry, health>>

\* doReconnectAttempt up to its await
doReconnectAttempt == connect("attempt")

-----------------------------------------------------------------------------
(* Calls of the application *)

\* createPairing, prepareJoin and joinFromUri on a new object.  A deferred
\* createPairing shows "waiting" before it connects; prepareJoin knows the peer.
StartPairing(defer) ==
    /\ phase = "idle" /\ ~prepared /\ Alive = {}
    /\ remote' = (role = "wallet")
    /\ \/ /\ defer
          /\ setPhase(IF role = "dapp" THEN "waiting" ELSE "idle")
          /\ prepared' = TRUE
          /\ UNCHANGED transport
       \/ /\ ~defer
          /\ connect("pair")
          /\ UNCHANGED <<phase, health, prepared>>
    /\ UNCHANGED <<role, stop, cycle, timers, reconnects, overlapped>>

\* connectTransport of the dApp, confirmJoin of the wallet
ConnectPairing ==
    /\ prepared /\ phase \in {"idle", "waiting"}
    /\ connect("pair")
    /\ prepared' = FALSE
    /\ UNCHANGED <<role, phase, stop, cycle, timers, health, remote, reconnects,
                   overlapped>>

\* restore() on a new object
restore ==
    /\ phase = "idle" /\ ~prepared /\ Alive = {}
    /\ setPhase("connected")
    /\ remote' = TRUE
    /\ UNCHANGED <<role, stop, cycle, timers, transport, calls>>

\* reconnect() of a session that has been paired
reconnect ==
    /\ phase \in {"connected", "disconnected", "closed"} /\ remote
    /\ reconnects < MaxReconnects
    /\ reconnects' = reconnects + 1
    /\ overlapped' = (overlapped \/ Alive # {})
    /\ stop' = FALSE /\ retry' = FALSE /\ attempt' = 0
    /\ setPhase("disconnected")
    /\ doReconnectAttempt
    /\ UNCHANGED <<role, reconnecting, streak, accept, ttl, remote, prepared>>

\* acceptWallet; ready.connected will follow
acceptWallet ==
    /\ role = "dapp" /\ phase = "pending_accept" /\ remote
    /\ accept' = FALSE
    /\ UNCHANGED <<role, phase, stop, cycle, retry, ttl, health, remote, transport,
                   calls>>

rejectWallet ==
    /\ role = "dapp" /\ remote
    /\ closeSession

close ==
    /\ phase # "idle" \/ Alive # {} \/ prepared
    /\ closeSession

-----------------------------------------------------------------------------
(* Sockets *)

\* onopen and the continuation of connect().  connectTransport and confirmJoin
\* set the phase, and so does a reconnecting wallet, without looking at it.
SocketOpens(s) ==
    /\ sock[s] \in Opening
    /\ sock' = [sock EXCEPT ![s] = "open"]
    /\ ws' = s
    /\ state' = "connected"
    /\ setPhase(IF role = "wallet" THEN "waiting_accept"
                ELSE IF sock[s] = "pair" THEN "waiting" ELSE phase)
    /\ UNCHANGED <<role, stop, cycle, timers, remote, calls>>

\* The connect timeout: the state of the whole transport is reset
ConnectTimeout(s) ==
    /\ sock[s] \in Opening
    /\ sock' = [sock EXCEPT ![s] = "free"]
    /\ state' = "disconnected"
    /\ connectFailed(sock[s])
    /\ UNCHANGED <<role, accept, ttl, remote, ws, reconnects, overlapped>>

\* onclose.  Whether a connection was lost is read from the state of the
\* transport, which may be that of another socket.
SocketCloses(s) ==
    /\ s \in Alive
    /\ sock' = [sock EXCEPT ![s] = "free"]
    /\ \/ /\ state = "connected"
          /\ state' = "disconnected" /\ ws' = None
          /\ handleTransportClose
          /\ UNCHANGED prepared
       \/ /\ state # "connected" /\ sock[s] \in Opening
          /\ state' = "disconnected" /\ ws' = None
          /\ connectFailed(sock[s])
          /\ UNCHANGED accept
       \/ /\ state # "connected" /\ sock[s] \in Opened
          /\ ws' = IF ws = s THEN None ELSE ws  \* a dead socket has no effect
          /\ UNCHANGED <<phase, stop, cycle, retry, accept, health, state, prepared>>
    /\ UNCHANGED <<role, ttl, remote, reconnects, overlapped>>

-----------------------------------------------------------------------------
(* Messages.  The relay answers create and join with ready or terminate before *)
(* it forwards anything, says ready.connected once on a connection, and sends  *)
(* nothing for a channel it has removed.                                       *)

\* ready: the retry timer is stopped in any case.  ready.connected must name
\* the remote the keys were derived for.
Ready(s, st, match) ==
    /\ sock[s] \in {"open", "waiting"} \ {st}
    /\ \/ /\ st = "connected" /\ ~(match /\ remote)
          /\ closeSession
       \/ /\ st = "connected" /\ match /\ remote
          /\ phase' = "connected"
          /\ beat' = TRUE /\ live' = FALSE
          /\ ttl' = TRUE /\ retry' = FALSE
          /\ reconnecting' = FALSE /\ attempt' = 0 /\ streak' = FALSE
          /\ sock' = [sock EXCEPT ![s] = st]
          /\ UNCHANGED <<role, stop, accept, remote, ws, state, calls>>
       \/ /\ st = "waiting"
          /\ setPhase(IF role = "dapp" THEN "waiting" ELSE "waiting_accept")
          /\ retry' = FALSE
          /\ sock' = [sock EXCEPT ![s] = st]
          /\ UNCHANGED <<role, stop, cycle, accept, ttl, remote, ws, state, calls>>

\* join, which the relay forwards to a dApp whose channel waits.  One that cannot
\* be verified or grants too little is answered with a close message to the
\* relay, but the dApp stays where it is.  A wallet approved before is
\* accepted at once, and so is any with autoAccept.
Join(s, good, auto) ==
    /\ role = "dapp" /\ sock[s] = "waiting" /\ phase = "waiting"
    /\ remote' = TRUE
    /\ \/ /\ good
          /\ setPhase("pending_accept")
          /\ accept' = (accept \/ ~auto)
          /\ UNCHANGED sock
       \/ /\ ~good
          /\ sock' = [sock EXCEPT ![s] = "ended"]
          /\ UNCHANGED <<phase, accept, health>>
    /\ UNCHANGED <<role, stop, cycle, retry, ttl, ws, state, calls>>

\* pong answers a ping sent on the current socket
Pong ==
    /\ ws # None /\ sock[ws] = "connected" /\ live
    /\ live' = FALSE
    /\ UNCHANGED <<role, phase, stop, cycle, timers, beat, remote, transport, calls>>

\* The end of a close or terminate for good: no timer but the heartbeat is
\* stopped and the socket is left open
endSession ==
    /\ setPhase("closed")
    /\ stop' = TRUE
    /\ UNCHANGED <<cycle, retry, accept>>

\* close from the peer is not for a session that is reconnecting
PeerClose(s) ==
    /\ sock[s] \in {"waiting", "connected"}
    /\ sock' = [sock EXCEPT ![s] = "ended"]
    /\ \/ /\ phase # "disconnected"
          /\ endSession
       \/ /\ phase = "disconnected"
          /\ UNCHANGED <<phase, stop, cycle, retry, accept, health>>
    /\ UNCHANGED <<role, ttl, remote, ws, state, calls>>

\* Mutant: the socket is kept when the session reconnects
Terminate_keeps_socket(s, recoverable) ==
    /\ sock[s] \in {"open", "waiting", "connected"}
    /\ sock' = [sock EXCEPT ![s] = "ended"]
    /\ canReconnect
    /\ IF recoverable THEN startReconnect ELSE endSession
    /\ UNCHANGED <<role, ttl, remote, ws, state, calls>>

\* terminate from the relay; for a recoverable reason the session reconnects
Terminate(s, recoverable) ==
    /\ sock[s] \in {"open", "waiting", "connected"}
    /\ LET after == [sock EXCEPT ![s] = "ended"]
       IN  \/ /\ ~canReconnect
              /\ sock' = after
              /\ UNCHANGED <<phase, stop, cycle, retry, accept, health, ws, state>>
           \/ /\ canReconnect /\ recoverable
              /\ sock' = [q \in Sockets |-> IF q = ws THEN "free" ELSE after[q]]
              /\ ws' = None /\ state' = "disconnected"
              /\ startReconnect
           \/ /\ canReconnect /\ ~recoverable
              /\ sock' = after
              /\ endSession
              /\ UNCHANGED <<ws, state>>
    /\ UNCHANGED <<role, ttl, remote, calls>>

\* A message of another protocol version
UnsupportedVersion(s) ==
    /\ sock[s] \in {"waiting", "connected"}
    /\ closeSession

-----------------------------------------------------------------------------
(* Timers *)

RetryFires ==
    /\ retry
    /\ retry' = FALSE
    /\ attempt' = attempt + 1
    /\ \/ canReconnect /\ doReconnectAttempt
       \/ ~canReconnect /\ UNCHANGED transport
    /\ UNCHANGED <<role, phase, stop, reconnecting, streak, accept, ttl, health, remote,
                   calls>>

\* Mutant: no liveness deadline without a socket to send the ping on
heartbeatTick_on_socket ==
    /\ beat /\ phase = "connected"
    /\ live' = (live \/ ws # None)
    /\ UNCHANGED <<role, phase, stop, cycle, timers, beat, remote, transport, calls>>

heartbeatTick ==
    /\ beat /\ phase = "connected"
    /\ live' = TRUE
    /\ UNCHANGED <<role, phase, stop, cycle, timers, beat, remote, transport, calls>>

LivenessFires ==
    /\ live
    /\ disconnect
    /\ \/ /\ canReconnect
          /\ startReconnect
       \/ /\ ~canReconnect
          /\ live' = FALSE
          /\ UNCHANGED <<phase, stop, cycle, retry, accept, beat>>
    /\ UNCHANGED <<role, ttl, remote, calls>>

AcceptFires ==
    /\ accept
    /\ closeSession

TtlFires ==
    /\ ttl
    /\ closeSession

-----------------------------------------------------------------------------
ApiCall ==
    \/ \E defer \in BOOLEAN : StartPairing(defer)
    \/ ConnectPairing
    \/ restore
    \/ reconnect
    \/ acceptWallet
    \/ rejectWallet
    \/ close

Receive(s) ==
    \/ \E st \in {"waiting", "connected"}, match \in BOOLEAN : Ready(s, st, match)
    \/ \E good, auto \in BOOLEAN : Join(s, good, auto)
    \/ PeerClose(s)
    \/ \E recoverable \in BOOLEAN : Terminate(s, recoverable)
    \/ UnsupportedVersion(s)

\* connect() settles
Settle(s) == SocketOpens(s) \/ ConnectTimeout(s) \/ (sock[s] \in Opening /\ SocketCloses(s))

\* The relay answers create or join, or the connection is lost
Answer(s) == sock[s] = "open" /\ (Receive(s) \/ SocketCloses(s))

TimerFires ==
    \/ RetryFires
    \/ heartbeatTick
    \/ LivenessFires
    \/ AcceptFires
    \/ TtlFires

Next ==
    \/ ApiCall
    \/ \E s \in Sockets : SocketOpens(s) \/ ConnectTimeout(s) \/ SocketCloses(s)
                          \/ Receive(s)
    \/ Pong
    \/ TimerFires

Spec == Init /\ [][Next]_vars

\* Timers fire and connect() settles, by its own timeout at the latest.  That
\* an open socket brings the relay's answer or closes is assumed of the relay
\* and the network: the code has no timer for it.
FairSpec ==
    /\ Spec
    /\ WF_vars(RetryFires) /\ WF_vars(heartbeatTick) /\ WF_vars(LivenessFires)
    /\ WF_vars(AcceptFires)
    /\ \A s \in Sockets : WF_vars(Settle(s)) /\ WF_vars(Answer(s))

-----------------------------------------------------------------------------
(* Properties *)

\* The variables hold values of their types, and transport.ws is an open socket
TypeOK ==
    /\ role \in {"dapp", "wallet"} /\ phase \in Phases
    /\ stop \in BOOLEAN /\ reconnecting \in BOOLEAN /\ streak \in BOOLEAN
    /\ retry \in BOOLEAN /\ accept \in BOOLEAN /\ ttl \in BOOLEAN
    /\ beat \in BOOLEAN /\ live \in BOOLEAN /\ remote \in BOOLEAN
    /\ prepared \in BOOLEAN /\ overlapped \in BOOLEAN
    /\ attempt \in 0 .. MaxAttempts /\ reconnects \in 0 .. MaxReconnects
    /\ state \in {"disconnected", "connecting", "connected"}
    /\ sock \in [Sockets -> {"free"} \cup Opening \cup Opened]
    /\ ws \in {s \in Sockets : sock[s] \in Opened} \cup {None}

\* A session that says it is disconnected is doing something about it: the retry
\* timer is armed, a reconnect attempt is opening its socket, or one has opened
\* and the relay's answer is awaited.  No path through a failed attempt, a late
\* socket or a manual reconnect() leaves it without any.
NeverStranded ==
    phase = "disconnected" /\ ~stop =>
        \/ retry
        \/ \E s \in Sockets : sock[s] \in {"attempt", "open"}

\* Until the application calls reconnect() over a live socket, a session that
\* waits for its peer or is connected has the socket it hears the peer on as
\* the one it sends on, or has yet to be connected by the application; and no
\* cycle makes more than maxReconnectAttempts attempts.
Attached ==
    /\ TypeOK
    /\ ~overlapped /\ ~stop
       /\ (phase \in {"waiting", "pending_accept", "waiting_accept"} \/ beat) =>
         prepared \/ (state = "connected" /\ Alive = {ws}) \/ \E s \in Sockets : sock[s] = "pair"

\* The heartbeat runs only while connected, and then under the session's
\* lifetime timer; a liveness deadline never outlives it.
GuardedByTimers == (beat => phase = "connected" /\ ttl) /\ (live => beat)

\* A disconnected session becomes something else: it gets the relay's answer or
\* gives up, however connections fail.
Recovers == phase = "disconnected" ~> phase # "disconnected"

\* A session that believes it is connected while its transport has lost the
\* socket it sends on (the onclose of an older socket resets a newer one) finds
\* out by its heartbeat, unless it was closed before.
NoticesLoss ==
    LET lost == beat /\ ~stop /\ ws = None
    IN  lost ~> ~lost
=============================================================================
