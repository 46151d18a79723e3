---------------------------- MODULE SessionProofs ----------------------------
(***************************************************************************)
(* Proofs about Session, for any number of sockets and attempts: a session *)
(* that says it is disconnected is never left without a pending event, the *)
(* heartbeat runs only while connected and under the lifetime timer, and a *)
(* session in use sends on the only socket it has.                         *)
(*                                                                         *)
(* NeverStranded is not inductive.  A connect timeout resets the state of  *)
(* the whole transport, so a socket that has opened counts as work only    *)
(* while that state says connected (Working); a dApp whose pairing socket  *)
(* is still opening must then be shown to have no other socket (Early), a  *)
(* retry timer to be armed only while attempts are left (AttemptsBounded). *)
(* Nor is Attached: that there is one socket needs that nobody opens       *)
(* another, so a retry timer must wait only where there is none (Single).  *)
(***************************************************************************)
EXTENDS Session, TLAPS

\* Time for the slower leaves
USE SMTT(30), ZenonT(30)

SockOK ==
    /\ role \in {"dapp", "wallet"}
    /\ sock \in [Sockets -> {"free"} \cup Opening \cup Opened]
    /\ ws # None => ws \in Sockets

\* Before its first phase change a session has only tried to pair
Idle ==
    phase = "idle" =>
        /\ ~retry /\ state # "connected"
        /\ \A s \in Sockets : sock[s] \in {"free", "pair"}

\* A dApp that is about to pair, or is opening the socket for it, has met no
\* wallet, and that socket is its only one
Early ==
    role = "dapp" /\ (prepared \/ \E s \in Sockets : sock[s] = "pair") =>
        /\ phase \in {"idle", "waiting", "closed"}
        /\ ~remote /\ ~retry /\ state # "connected"
        /\ \A s \in Sockets : sock[s] \in {"free", "pair"} /\ (prepared => sock[s] = "free")
        /\ \A s, q \in Sockets : sock[s] = "pair" /\ sock[q] = "pair" => s = q

\* NeverStranded, strengthened: an open socket helps only a dApp (a wallet leaves
\* disconnected when it opens), and only while the transport knows of it
Working ==
    phase = "disconnected" /\ ~stop =>
        \/ retry
        \/ \E s \in Sockets : sock[s] = "attempt"
        \/ role = "dapp" /\ state = "connected" /\ \E s \in Sockets : sock[s] = "open"

\* The attempts of a reconnect cycle stay within maxReconnectAttempts
AttemptsBounded == attempt \in 0 .. MaxAttempts /\ (retry => attempt < MaxAttempts)

\* While the application has not called reconnect() over a live socket, a session
\* that was not stopped has one socket at most, and the transport and the phase
\* agree with it: a retry timer waits only without a socket, an attempt is opened
\* only in disconnected, and the socket that is open is the one it sends on
Single ==
    ~overlapped =>
        /\ phase = "idle" => ~stop
        /\ prepared => ~stop /\ ~retry /\ phase \in {"idle", "waiting"} /\ Alive = {}
        /\ ~stop =>
            /\ \A s, q \in Alive : s = q
            /\ retry => Alive = {} /\ phase = "disconnected"
            /\ beat => Alive # {}
            /\ Alive = {} /\ ~prepared => phase \in {"idle", "connected", "disconnected", "closed"}
            /\ \A s \in Alive :
                 \/ sock[s] = "pair" /\ state # "connected" /\ phase \in {"idle", "waiting"}
                 \/ sock[s] = "attempt" /\ state # "connected" /\ phase = "disconnected"
                 \/ sock[s] \in Opened /\ state = "connected" /\ ws = s

IInv == SockOK /\ AttemptsBounded /\ Idle /\ Early /\ Working /\ GuardedByTimers

-----------------------------------------------------------------------------
\* Whatever phase setPhase is given, it leaves the heartbeat running only in
\* connected.
LEMMA PhaseKeepsGuard ==
    ASSUME GuardedByTimers, ttl' = ttl,
           (\E p : setPhase(p)) \/ UNCHANGED <<phase, beat, live>>
    PROVE  GuardedByTimers'
<1>1. CASE UNCHANGED <<phase, beat, live>>
  BY <1>1 DEF GuardedByTimers
<1>2. CASE \E p : setPhase(p)
  <2> PICK p : setPhase(p) BY <1>2
  <2>1. phase' = p
    BY DEF setPhase
  <2>2. beat' => beat /\ (p = phase \/ p = "connected")
    BY Zenon DEF setPhase
  <2>3. live' => live /\ (p = phase \/ p = "connected")
    BY Zenon DEF setPhase
  <2>4. live /\ (p = phase \/ p = "connected") => beat'
    BY Zenon DEF setPhase, GuardedByTimers
  <2> QED BY <2>1, <2>2, <2>3, <2>4 DEF GuardedByTimers
<1> QED BY <1>1, <1>2

\* createPairing, prepareJoin and joinFromUri preserve the invariant: nothing
\* else is under way on a new object.
LEMMA StartPairingStep ==
    ASSUME IInv,
           NEW defer \in BOOLEAN, StartPairing(defer)
    PROVE  IInv'
<1>1. SockOK'
  BY ZenonT(30), SessionAssumption DEF IInv, SockOK, Opening, Opened, Alive, StartPairing,
    setPhase, connect, transport, health, timers, cycle
<1>2. AttemptsBounded'
  BY SessionAssumption DEF IInv, AttemptsBounded, StartPairing, setPhase, connect,
    transport, health, timers, cycle
<1>3. Idle'
  BY ZenonT(30) DEF IInv, SockOK, Idle, Opening, Opened, Alive, StartPairing, setPhase,
    connect, transport, health, timers, cycle
<1>4. Early'
  <2>1. role = "dapp" => ~remote'
    BY Zenon DEF StartPairing
  <2>2. role' = role /\ retry' = retry /\ ~retry /\ phase' \in {"idle", "waiting"}
    BY DEF IInv, SockOK, Idle, StartPairing, setPhase, timers
  <2>3. CASE connect("pair") /\ ~prepared'
    BY ZenonT(30), <2>1, <2>2, <2>3 DEF IInv, SockOK, Early, StartPairing, connect, Alive
  <2>4. CASE UNCHANGED transport
    BY <2>1, <2>2, <2>4 DEF IInv, SockOK, Idle, Early, StartPairing, transport, Alive
  <2> QED BY <2>3, <2>4 DEF StartPairing
<1>5. Working'
  BY DEF IInv, SockOK, Early, Working, Opening, Opened, Alive, StartPairing,
    setPhase, connect, transport, health, timers, cycle
<1>6. GuardedByTimers'
  <2>1. (\E p : setPhase(p)) \/ UNCHANGED <<phase, beat, live>>
    BY DEF StartPairing, connect, transport, health, timers, cycle
  <2>2. ttl' = ttl
    BY DEF StartPairing, timers
  <2> QED BY <2>1, <2>2, PhaseKeepsGuard DEF IInv
<1> QED BY <1>1, <1>2, <1>3, <1>4, <1>5, <1>6 DEF IInv

\* connectTransport and confirmJoin preserve the invariant.
LEMMA ConnectPairingStep ==
    ASSUME IInv,
           ConnectPairing
    PROVE  IInv'
<1>1. SockOK'
  BY SessionAssumption DEF IInv, SockOK, Opening, Opened, Alive, ConnectPairing,
    connect, timers, cycle, health
<1>2. AttemptsBounded'
  BY SessionAssumption DEF IInv, AttemptsBounded, ConnectPairing, connect, timers, cycle,
    health
<1>3. Idle'
  BY DEF IInv, SockOK, Idle, Opening, Opened, Alive, ConnectPairing, connect,
    timers, cycle, health
<1>4. Early'
  BY ZenonT(30) DEF IInv, SockOK, Idle, Early, Opening, Opened, Alive, ConnectPairing, connect,
    timers, cycle, health
<1>5. Working'
  BY DEF IInv, SockOK, Early, Working, Opening, Opened, Alive, ConnectPairing,
    connect, timers, cycle, health
<1>6. GuardedByTimers'
  BY DEF IInv, GuardedByTimers, ConnectPairing, connect, timers, cycle, health
<1> QED BY <1>1, <1>2, <1>3, <1>4, <1>5, <1>6 DEF IInv

\* restore() preserves the invariant: it opens no socket.
LEMMA restoreStep ==
    ASSUME IInv,
           restore
    PROVE  IInv'
<1>1. SockOK'
  BY SessionAssumption DEF IInv, SockOK, Opening, Opened, Alive, restore, setPhase,
    transport, timers, cycle, calls
<1>2. AttemptsBounded'
  BY SessionAssumption DEF IInv, AttemptsBounded, restore, setPhase, transport, timers,
    cycle, calls
<1>3. Idle'
  BY DEF IInv, SockOK, Idle, Opening, Opened, Alive, restore, setPhase, transport,
    timers, cycle, calls
<1>4. Early'
  BY DEF IInv, SockOK, Idle, Early, Opening, Opened, Alive, restore, setPhase,
    transport, timers, cycle, calls
<1>5. Working'
  BY DEF IInv, SockOK, Early, Working, Opening, Opened, Alive, restore, setPhase,
    transport, timers, cycle, calls
<1>6. GuardedByTimers'
  BY ZenonT(30) DEF IInv, GuardedByTimers, restore, setPhase, transport, timers, cycle, calls
<1> QED BY <1>1, <1>2, <1>3, <1>4, <1>5, <1>6 DEF IInv

\* reconnect() preserves the invariant: the attempt it starts is the work that
\* a disconnected session needs.
LEMMA reconnectStep ==
    ASSUME IInv,
           reconnect
    PROVE  IInv'
<1>1. SockOK'
  BY SessionAssumption DEF IInv, SockOK, Opening, Opened, Alive, reconnect,
    setPhase, doReconnectAttempt, connect
<1>2. AttemptsBounded'
  BY SessionAssumption DEF IInv, AttemptsBounded, reconnect, setPhase, doReconnectAttempt,
    connect
<1>3. Idle'
  BY DEF IInv, SockOK, Idle, Opening, Opened, Alive, reconnect, setPhase,
    doReconnectAttempt, connect
<1>4. Early'
  BY DEF IInv, SockOK, Idle, Early, Opening, Opened, Alive, reconnect, setPhase,
    doReconnectAttempt, connect
<1>5. Working'
  BY DEF IInv, SockOK, Early, Working, Opening, Opened, Alive, reconnect, setPhase,
    doReconnectAttempt, connect
<1>6. GuardedByTimers'
  BY ZenonT(30) DEF IInv, GuardedByTimers, reconnect, setPhase, doReconnectAttempt, connect
<1> QED BY <1>1, <1>2, <1>3, <1>4, <1>5, <1>6 DEF IInv

\* acceptWallet preserves the invariant.
LEMMA acceptWalletStep ==
    ASSUME IInv,
           acceptWallet
    PROVE  IInv'
<1>1. SockOK'
  BY SessionAssumption DEF IInv, SockOK, Opening, Opened, acceptWallet, transport,
    cycle, health, calls
<1>2. AttemptsBounded'
  BY SessionAssumption DEF IInv, AttemptsBounded, acceptWallet, transport, cycle, health,
    calls
<1>3. Idle'
  BY DEF IInv, SockOK, Idle, Opening, Opened, acceptWallet, transport, cycle,
    health, calls
<1>4. Early'
  BY DEF IInv, SockOK, Idle, Early, Opening, Opened, acceptWallet, transport, cycle,
    health, calls
<1>5. Working'
  BY DEF IInv, SockOK, Early, Working, Opening, Opened, acceptWallet, transport,
    cycle, health, calls
<1>6. GuardedByTimers'
  BY DEF IInv, GuardedByTimers, acceptWallet, transport, cycle, health, calls
<1> QED BY <1>1, <1>2, <1>3, <1>4, <1>5, <1>6 DEF IInv

\* A socket that opens preserves the invariant: an attempt's becomes the open
\* socket of a dApp, a wallet leaves disconnected.
LEMMA SocketOpensStep ==
    ASSUME IInv,
           NEW s \in Sockets, SocketOpens(s)
    PROVE  IInv'
<1>1. SockOK'
  BY SessionAssumption DEF IInv, SockOK, Opening, Opened, SocketOpens, setPhase,
    cycle, timers, calls
<1>2. AttemptsBounded'
  BY SessionAssumption DEF IInv, AttemptsBounded, SocketOpens, setPhase, cycle, timers,
    calls
<1>3. Idle'
  BY DEF IInv, SockOK, Idle, Opening, Opened, SocketOpens, setPhase, cycle, timers,
    calls
<1>4. Early'
  BY DEF IInv, SockOK, Idle, Early, Opening, Opened, SocketOpens, setPhase, cycle,
    timers, calls
<1>5. Working'
  BY DEF IInv, SockOK, Early, Working, Opening, Opened, SocketOpens, setPhase,
    cycle, timers, calls
<1>6. GuardedByTimers'
  BY ZenonT(30) DEF IInv, GuardedByTimers, SocketOpens, setPhase, cycle, timers, calls
<1> QED BY <1>1, <1>2, <1>3, <1>4, <1>5, <1>6 DEF IInv

\* A connect timeout preserves the invariant: a failed attempt schedules the
\* next, a failed pairing socket was the only one of a dApp.
LEMMA ConnectTimeoutStep ==
    ASSUME IInv,
           NEW s \in Sockets, ConnectTimeout(s)
    PROVE  IInv'
<1>1. SockOK'
  BY SessionAssumption DEF IInv, SockOK, Opening, Opened, ConnectTimeout,
    connectFailed, scheduleReconnect, setPhase, canReconnect, cycle, health
<1>2. AttemptsBounded'
  BY SessionAssumption DEF IInv, AttemptsBounded, ConnectTimeout, connectFailed,
    scheduleReconnect, setPhase, canReconnect, cycle, health
<1>3. Idle'
  BY DEF IInv, SockOK, Idle, Opening, Opened, ConnectTimeout, connectFailed,
    scheduleReconnect, setPhase, canReconnect, cycle, health
<1>4. Early'
  BY ZenonT(30) DEF IInv, SockOK, Idle, Early, Opening, Opened, ConnectTimeout, connectFailed,
    scheduleReconnect, setPhase, canReconnect, cycle, health
<1>5. Working'
  BY DEF IInv, SockOK, Early, Working, Opening, Opened, ConnectTimeout,
    connectFailed, scheduleReconnect, setPhase, canReconnect, cycle, health
<1>6. GuardedByTimers'
  <2>1. (\E p : setPhase(p)) \/ UNCHANGED <<phase, beat, live>>
    BY DEF ConnectTimeout, connectFailed, scheduleReconnect, canReconnect, cycle,
      health
  <2>2. ttl' = ttl
    BY DEF ConnectTimeout
  <2> QED BY <2>1, <2>2, PhaseKeepsGuard DEF IInv
<1> QED BY <1>1, <1>2, <1>3, <1>4, <1>5, <1>6 DEF IInv

\* onclose preserves the invariant, whichever socket the transport takes it for.
LEMMA SocketClosesStep ==
    ASSUME IInv,
           NEW s \in Sockets, SocketCloses(s)
    PROVE  IInv'
<1>1. SockOK'
  BY SessionAssumption DEF IInv, SockOK, Opening, Opened, Alive, SocketCloses,
    connectFailed, handleTransportClose, startReconnect, scheduleReconnect,
    setPhase, canReconnect, cycle, health
<1>2. AttemptsBounded'
  BY SessionAssumption DEF IInv, AttemptsBounded, SocketCloses, connectFailed,
    handleTransportClose, startReconnect, scheduleReconnect, setPhase, canReconnect,
    cycle, health
<1>3. Idle'
  BY DEF IInv, SockOK, Idle, Opening, Opened, Alive, SocketCloses, connectFailed,
    handleTransportClose, startReconnect, scheduleReconnect, setPhase, canReconnect,
    cycle, health
<1>4. Early'
  BY ZenonT(30) DEF IInv, SockOK, Idle, Early, Opening, Opened, Alive, SocketCloses,
    connectFailed, handleTransportClose, startReconnect, scheduleReconnect,
    setPhase, canReconnect, cycle, health
<1>5. Working'
  BY DEF IInv, SockOK, Early, Working, Opening, Opened, Alive, SocketCloses,
    connectFailed, handleTransportClose, startReconnect, scheduleReconnect,
    setPhase, canReconnect, cycle, health
<1>6. GuardedByTimers'
  <2>1. (\E p : setPhase(p)) \/ UNCHANGED <<phase, beat, live>>
    BY DEF SocketCloses, connectFailed, handleTransportClose, startReconnect,
      scheduleReconnect, canReconnect, cycle, health
  <2>2. ttl' = ttl
    BY DEF SocketCloses
  <2> QED BY <2>1, <2>2, PhaseKeepsGuard DEF IInv
<1> QED BY <1>1, <1>2, <1>3, <1>4, <1>5, <1>6 DEF IInv

\* ready preserves the invariant: with its answer the session is no longer
\* disconnected.
LEMMA ReadyStep ==
    ASSUME IInv,
           NEW s \in Sockets, NEW st \in {"waiting", "connected"}, NEW match \in
             BOOLEAN, Ready(s, st, match)
    PROVE  IInv'
<1>1. SockOK'
  BY SessionAssumption DEF IInv, SockOK, Opening, Opened, Ready, closeSession,
    disconnect, setPhase, cycle, calls
<1>2. AttemptsBounded'
  BY SessionAssumption DEF IInv, AttemptsBounded, Ready, closeSession, disconnect,
    setPhase, cycle, calls
<1>3. Idle'
  BY DEF IInv, SockOK, Idle, Opening, Opened, Ready, closeSession, disconnect,
    setPhase, cycle, calls
<1>4. Early'
  BY DEF IInv, SockOK, Idle, Early, Opening, Opened, Ready, closeSession,
    disconnect, setPhase, cycle, calls
<1>5. Working'
  BY DEF IInv, SockOK, Early, Working, Opening, Opened, Ready, closeSession,
    disconnect, setPhase, cycle, calls
<1>6. GuardedByTimers'
  BY ZenonT(30) DEF IInv, GuardedByTimers, Ready, closeSession, disconnect, setPhase, cycle,
    calls
<1> QED BY <1>1, <1>2, <1>3, <1>4, <1>5, <1>6 DEF IInv

\* join preserves the invariant.
LEMMA JoinStep ==
    ASSUME IInv,
           NEW s \in Sockets, NEW good \in BOOLEAN, NEW auto \in BOOLEAN, Join(s,
             good, auto)
    PROVE  IInv'
<1>1. SockOK'
  BY SessionAssumption DEF IInv, SockOK, Opening, Opened, Join, setPhase, cycle,
    calls, health
<1>2. AttemptsBounded'
  BY SessionAssumption DEF IInv, AttemptsBounded, Join, setPhase, cycle, calls, health
<1>3. Idle'
  BY DEF IInv, SockOK, Idle, Opening, Opened, Join, setPhase, cycle, calls, health
<1>4. Early'
  BY DEF IInv, SockOK, Idle, Early, Opening, Opened, Join, setPhase, cycle, calls,
    health
<1>5. Working'
  BY DEF IInv, SockOK, Early, Working, Opening, Opened, Join, setPhase, cycle,
    calls, health
<1>6. GuardedByTimers'
  <2>1. (\E p : setPhase(p)) \/ UNCHANGED <<phase, beat, live>>
    BY DEF Join, cycle, calls, health
  <2>2. ttl' = ttl
    BY DEF Join
  <2> QED BY <2>1, <2>2, PhaseKeepsGuard DEF IInv
<1> QED BY <1>1, <1>2, <1>3, <1>4, <1>5, <1>6 DEF IInv

\* pong preserves the invariant.
LEMMA PongStep ==
    ASSUME IInv,
           Pong
    PROVE  IInv'
<1>1. SockOK'
  BY SessionAssumption DEF IInv, SockOK, Opening, Opened, Pong, cycle, timers,
    transport, calls
<1>2. AttemptsBounded'
  BY SessionAssumption DEF IInv, AttemptsBounded, Pong, cycle, timers, transport, calls
<1>3. Idle'
  BY DEF IInv, SockOK, Idle, Opening, Opened, Pong, cycle, timers, transport, calls
<1>4. Early'
  BY DEF IInv, SockOK, Idle, Early, Opening, Opened, Pong, cycle, timers, transport,
    calls
<1>5. Working'
  BY DEF IInv, SockOK, Early, Working, Opening, Opened, Pong, cycle, timers,
    transport, calls
<1>6. GuardedByTimers'
  BY DEF IInv, GuardedByTimers, Pong, cycle, timers, transport, calls
<1> QED BY <1>1, <1>2, <1>3, <1>4, <1>5, <1>6 DEF IInv

\* close from the peer preserves the invariant.
LEMMA PeerCloseStep ==
    ASSUME IInv,
           NEW s \in Sockets, PeerClose(s)
    PROVE  IInv'
<1>1. SockOK'
  BY SessionAssumption DEF IInv, SockOK, Opening, Opened, PeerClose, endSession,
    setPhase, cycle, health, calls
<1>2. AttemptsBounded'
  BY SessionAssumption DEF IInv, AttemptsBounded, PeerClose, endSession, setPhase, cycle,
    health, calls
<1>3. Idle'
  BY DEF IInv, SockOK, Idle, Opening, Opened, PeerClose, endSession, setPhase,
    cycle, health, calls
<1>4. Early'
  BY DEF IInv, SockOK, Idle, Early, Opening, Opened, PeerClose, endSession,
    setPhase, cycle, health, calls
<1>5. Working'
  BY DEF IInv, SockOK, Early, Working, Opening, Opened, PeerClose, endSession,
    setPhase, cycle, health, calls
<1>6. GuardedByTimers'
  <2>1. (\E p : setPhase(p)) \/ UNCHANGED <<phase, beat, live>>
    BY DEF PeerClose, endSession, cycle, health, calls
  <2>2. ttl' = ttl
    BY DEF PeerClose
  <2> QED BY <2>1, <2>2, PhaseKeepsGuard DEF IInv
<1> QED BY <1>1, <1>2, <1>3, <1>4, <1>5, <1>6 DEF IInv

\* terminate preserves the invariant: it ends the session or starts a cycle.
LEMMA TerminateStep ==
    ASSUME IInv,
           NEW s \in Sockets, NEW recoverable \in BOOLEAN, Terminate(s, recoverable)
    PROVE  IInv'
<1>1. SockOK'
  BY SessionAssumption DEF IInv, SockOK, Opening, Opened, Terminate, endSession,
    startReconnect, scheduleReconnect, setPhase, canReconnect, cycle, health, calls
<1>2. AttemptsBounded'
  BY SessionAssumption DEF IInv, AttemptsBounded, Terminate, endSession, startReconnect,
    scheduleReconnect, setPhase, canReconnect, cycle, health, calls
<1>3. Idle'
  BY DEF IInv, SockOK, Idle, Opening, Opened, Terminate, endSession, startReconnect,
    scheduleReconnect, setPhase, canReconnect, cycle, health, calls
<1>4. Early'
  BY DEF IInv, SockOK, Idle, Early, Opening, Opened, Terminate, endSession,
    startReconnect, scheduleReconnect, setPhase, canReconnect, cycle, health, calls
<1>5. Working'
  BY DEF IInv, SockOK, Early, Working, Opening, Opened, Terminate, endSession,
    startReconnect, scheduleReconnect, setPhase, canReconnect, cycle, health, calls
<1>6. GuardedByTimers'
  <2>1. (\E p : setPhase(p)) \/ UNCHANGED <<phase, beat, live>>
    BY DEF Terminate, endSession, startReconnect, scheduleReconnect, canReconnect,
      cycle, health, calls
  <2>2. ttl' = ttl
    BY DEF Terminate
  <2> QED BY <2>1, <2>2, PhaseKeepsGuard DEF IInv
<1> QED BY <1>1, <1>2, <1>3, <1>4, <1>5, <1>6 DEF IInv

\* The retry timer preserves the invariant: it exchanges the timer for an attempt.
LEMMA RetryFiresStep ==
    ASSUME IInv,
           RetryFires
    PROVE  IInv'
<1>1. SockOK'
  BY ZenonT(30), SessionAssumption DEF IInv, SockOK, Opening, Opened, Alive, RetryFires,
    doReconnectAttempt, connect, canReconnect, transport, health, calls
<1>2. AttemptsBounded'
  BY SessionAssumption DEF IInv, AttemptsBounded, RetryFires, doReconnectAttempt, connect,
    canReconnect, transport, health, calls
<1>3. Idle'
  BY DEF IInv, SockOK, Idle, Opening, Opened, Alive, RetryFires, doReconnectAttempt,
    connect, canReconnect, transport, health, calls
<1>4. Early'
  BY ZenonT(30) DEF IInv, SockOK, Early, Opening, Opened, Alive, RetryFires,
    doReconnectAttempt, connect, canReconnect, transport, health, calls
<1>5. Working'
  BY DEF IInv, SockOK, Early, Working, Opening, Opened, Alive, RetryFires,
    doReconnectAttempt, connect, canReconnect, transport, health, calls
<1>6. GuardedByTimers'
  BY DEF IInv, GuardedByTimers, RetryFires, doReconnectAttempt, connect,
    canReconnect, transport, health, calls
<1> QED BY <1>1, <1>2, <1>3, <1>4, <1>5, <1>6 DEF IInv

\* The heartbeat preserves the invariant.
LEMMA heartbeatTickStep ==
    ASSUME IInv,
           heartbeatTick
    PROVE  IInv'
<1>1. SockOK'
  BY SessionAssumption DEF IInv, SockOK, Opening, Opened, heartbeatTick, cycle,
    timers, transport, calls
<1>2. AttemptsBounded'
  BY SessionAssumption DEF IInv, AttemptsBounded, heartbeatTick, cycle, timers, transport,
    calls
<1>3. Idle'
  BY DEF IInv, SockOK, Idle, Opening, Opened, heartbeatTick, cycle, timers,
    transport, calls
<1>4. Early'
  BY DEF IInv, SockOK, Idle, Early, Opening, Opened, heartbeatTick, cycle, timers,
    transport, calls
<1>5. Working'
  BY DEF IInv, SockOK, Early, Working, Opening, Opened, heartbeatTick, cycle,
    timers, transport, calls
<1>6. GuardedByTimers'
  BY DEF IInv, GuardedByTimers, heartbeatTick, cycle, timers, transport, calls
<1> QED BY <1>1, <1>2, <1>3, <1>4, <1>5, <1>6 DEF IInv

\* The liveness deadline preserves the invariant.
LEMMA LivenessFiresStep ==
    ASSUME IInv,
           LivenessFires
    PROVE  IInv'
<1>1. SockOK'
  BY SessionAssumption DEF IInv, SockOK, Opening, Opened, LivenessFires, disconnect,
    startReconnect, scheduleReconnect, setPhase, canReconnect, cycle, calls
<1>2. AttemptsBounded'
  <2>1. CASE canReconnect /\ startReconnect
    BY <2>1, SessionAssumption DEF IInv, AttemptsBounded, startReconnect,
      scheduleReconnect
  <2>2. CASE UNCHANGED <<attempt, retry>>
    BY <2>2 DEF IInv, AttemptsBounded
  <2> QED BY <2>1, <2>2 DEF LivenessFires, cycle
<1>3. Idle'
  BY DEF IInv, SockOK, Idle, Opening, Opened, LivenessFires, disconnect,
    startReconnect, scheduleReconnect, setPhase, canReconnect, cycle, calls
<1>4. Early'
  BY DEF IInv, SockOK, Early, GuardedByTimers, Opening, Opened, LivenessFires,
    disconnect, startReconnect, scheduleReconnect, setPhase, canReconnect, cycle,
    calls
<1>5. Working'
  BY DEF IInv, SockOK, Early, Working, Opening, Opened, LivenessFires, disconnect,
    startReconnect, scheduleReconnect, setPhase, canReconnect, cycle, calls
<1>6. GuardedByTimers'
  BY ZenonT(30) DEF IInv, GuardedByTimers, LivenessFires, disconnect, startReconnect,
    scheduleReconnect, setPhase, canReconnect, cycle, calls
<1> QED BY <1>1, <1>2, <1>3, <1>4, <1>5, <1>6 DEF IInv

\* close(), and every handler that ends in it, preserves the invariant.
LEMMA closeSessionStep ==
    ASSUME IInv,
           closeSession
    PROVE  IInv'
<1>1. SockOK'
  BY SessionAssumption DEF IInv, SockOK, Opening, Opened, closeSession, disconnect,
    setPhase, cycle
<1>2. AttemptsBounded'
  BY SessionAssumption DEF IInv, AttemptsBounded, closeSession, disconnect, setPhase,
    cycle
<1>3. Idle'
  BY DEF IInv, SockOK, Idle, Opening, Opened, closeSession, disconnect, setPhase,
    cycle
<1>4. Early'
  BY DEF IInv, SockOK, Idle, Early, Opening, Opened, closeSession, disconnect,
    setPhase, cycle
<1>5. Working'
  BY DEF IInv, SockOK, Early, Working, Opening, Opened, closeSession, disconnect,
    setPhase, cycle
<1>6. GuardedByTimers'
  BY ZenonT(30) DEF IInv, GuardedByTimers, closeSession, disconnect, setPhase, cycle
<1> QED BY <1>1, <1>2, <1>3, <1>4, <1>5, <1>6 DEF IInv

\* The invariant holds of a new session object.
LEMMA IInvInit == Init => IInv
BY SessionAssumption
   DEF Init, IInv, SockOK, AttemptsBounded, Idle, Early, Working, GuardedByTimers, Opening, Opened

\* Every step of the session, its sockets and timers preserves the invariant.
LEMMA IInvStep == IInv /\ [Next]_vars => IInv'
<1> SUFFICES ASSUME IInv, [Next]_vars PROVE IInv'
  OBVIOUS
<1>1. CASE UNCHANGED vars
  BY <1>1 DEF vars, cycle, timers, health, transport, calls, IInv, SockOK,
    AttemptsBounded, Idle, Early, Working, GuardedByTimers, Opening, Opened
<1>2. CASE ApiCall
  BY <1>2, StartPairingStep, ConnectPairingStep, restoreStep, reconnectStep,
     acceptWalletStep, closeSessionStep
     DEF ApiCall, rejectWallet, close
<1>3. ASSUME NEW s \in Sockets,
             SocketOpens(s) \/ ConnectTimeout(s) \/ SocketCloses(s) \/ Receive(s)
      PROVE  IInv'
  BY <1>3, SocketOpensStep, ConnectTimeoutStep, SocketClosesStep, ReadyStep, JoinStep,
     PeerCloseStep, TerminateStep, closeSessionStep
     DEF Receive, UnsupportedVersion
<1>4. CASE Pong
  BY <1>4, PongStep
<1>5. CASE TimerFires
  BY <1>5, RetryFiresStep, heartbeatTickStep, LivenessFiresStep, closeSessionStep
     DEF TimerFires, AcceptFires, TtlFires
<1> QED BY <1>1, <1>2, <1>3, <1>4, <1>5 DEF Next

\* The invariant holds throughout.
LEMMA IInvAlways == Spec => []IInv
BY IInvInit, IInvStep, PTL DEF Spec

\* For any number of sockets and any limit on attempts: a session in disconnected
\* that has not been stopped has its retry timer armed, an attempt's socket
\* opening, or an open one whose answer is awaited (handleTransportClose,
\* scheduleReconnect, doReconnectAttempt and reconnect of the two sessions,
\* connect and onclose of the transport).
THEOREM Unstranded == Spec => []NeverStranded
<1>1. IInv => NeverStranded
  BY DEF IInv, Working, NeverStranded
<1> QED BY <1>1, IInvAlways, PTL

\* The heartbeat and its liveness deadline never outlive the connected phase, and
\* the session's lifetime timer covers them (setPhase and the ready handler).
THEOREM Guarded == Spec => []GuardedByTimers
<1>1. IInv => GuardedByTimers
  BY DEF IInv
<1> QED BY <1>1, IInvAlways, PTL

\* scheduleReconnect never lets a cycle exceed maxReconnectAttempts: a retry timer
\* is armed only while an attempt is left, over any number of drops, manual
\* reconnects and late sockets.
THEOREM Bounded == Spec => []AttemptsBounded
<1>1. IInv => AttemptsBounded
  BY DEF IInv
<1> QED BY <1>1, IInvAlways, PTL
-----------------------------------------------------------------------------
(* Attached: the types, and Single on top of IInv *)

Flags ==
    /\ stop \in BOOLEAN /\ reconnecting \in BOOLEAN /\ streak \in BOOLEAN
    /\ retry \in BOOLEAN /\ accept \in BOOLEAN /\ ttl \in BOOLEAN
    /\ beat \in BOOLEAN /\ live \in BOOLEAN /\ remote \in BOOLEAN
    /\ prepared \in BOOLEAN /\ overlapped \in BOOLEAN

Values ==
    /\ phase \in Phases /\ reconnects \in 0 .. MaxReconnects
    /\ state \in {"disconnected", "connecting", "connected"}
    /\ ws \in {s \in Sockets : sock[s] \in Opened} \cup {None}

AInv == IInv /\ Flags /\ Values /\ Single

\* setPhase keeps the heartbeat's types and starts no heartbeat.
LEMMA PhaseTypes ==
    ASSUME beat \in BOOLEAN, live \in BOOLEAN,
           (\E p : setPhase(p)) \/ UNCHANGED <<phase, beat, live>>
    PROVE  beat' \in BOOLEAN /\ live' \in BOOLEAN /\ (beat' => beat)
<1>1. CASE UNCHANGED <<phase, beat, live>>
  BY <1>1
<1>2. CASE \E p : setPhase(p)
  BY <1>2, Zenon DEF setPhase
<1> QED BY <1>1, <1>2

\* connect() opens a socket that was free.
LEMMA ConnectTakes ==
    ASSUME NEW for, connect(for)
    PROVE  /\ \E s \in Sockets : sock[s] = "free" /\ sock' = [sock EXCEPT ![s] = for]
           /\ state' = "connecting" /\ ws' = ws
BY ZenonT(30) DEF connect, Alive

\* scheduleReconnect arms the timer, or gives up and stops the session.
LEMMA Schedules ==
    ASSUME Flags, NEW p \in Phases, NEW r \in BOOLEAN, NEW n, NEW b, scheduleReconnect(p, r, n, b)
    PROVE  /\ retry' \in BOOLEAN /\ reconnecting' \in BOOLEAN /\ streak' \in BOOLEAN
           /\ stop' \in BOOLEAN /\ beat' \in BOOLEAN /\ live' \in BOOLEAN /\ (beat' => beat)
           /\ \/ phase' = p /\ retry' /\ stop' = stop
              \/ phase' = "closed" /\ ~retry' /\ stop'
<1>1. beat' \in BOOLEAN /\ live' \in BOOLEAN /\ (beat' => beat)
  BY PhaseTypes DEF scheduleReconnect, Flags
<1>2. /\ retry' \in BOOLEAN /\ reconnecting' \in BOOLEAN /\ streak' \in BOOLEAN /\ stop' \in BOOLEAN
  BY Zenon DEF scheduleReconnect, Flags
<1>3. \/ phase' = p /\ retry' /\ stop' = stop
      \/ phase' = "closed" /\ ~retry' /\ stop'
  BY DEF scheduleReconnect, setPhase
<1> QED BY <1>1, <1>2, <1>3

\* So does startReconnect, from disconnected.
LEMMA Restarts ==
    ASSUME Flags, startReconnect
    PROVE  /\ retry' \in BOOLEAN /\ reconnecting' \in BOOLEAN /\ streak' \in BOOLEAN
           /\ stop' \in BOOLEAN /\ beat' \in BOOLEAN /\ live' \in BOOLEAN /\ (beat' => beat)
           /\ accept' \in BOOLEAN
           /\ \/ phase' = "disconnected" /\ retry' /\ stop' = stop
              \/ phase' = "closed" /\ ~retry' /\ stop'
<1>1. \E n, b : scheduleReconnect("disconnected", TRUE, n, b)
  BY ZenonT(30) DEF startReconnect
<1>2. accept' \in BOOLEAN
  BY ZenonT(30) DEF startReconnect
<1> QED BY ZenonT(30), <1>1, <1>2, Schedules DEF Phases

\* A failed attempt schedules the next; a failed pairing can be tried again.
LEMMA Fails ==
    ASSUME Flags, Values, NEW for, connectFailed(for)
    PROVE  /\ retry' \in BOOLEAN /\ reconnecting' \in BOOLEAN /\ streak' \in BOOLEAN
           /\ stop' \in BOOLEAN /\ beat' \in BOOLEAN /\ live' \in BOOLEAN /\ (beat' => beat)
           /\ prepared' \in BOOLEAN
           /\ \/ /\ for = "attempt" /\ canReconnect /\ prepared' = prepared
                 /\ \/ phase' = phase /\ retry' /\ stop' = stop
                    \/ phase' = "closed" /\ ~retry' /\ stop'
              \/ /\ for = "attempt" => ~canReconnect
                 /\ prepared' <=> prepared \/ (for = "pair" /\ canReconnect)
                 /\ UNCHANGED <<phase, stop, retry, beat>>
<1>1. CASE /\ for = "attempt" /\ canReconnect
           /\ scheduleReconnect(phase, reconnecting, attempt, streak)
           /\ UNCHANGED <<attempt, prepared>>
  <2>1. phase \in Phases /\ reconnecting \in BOOLEAN /\ prepared \in BOOLEAN
    BY DEF Flags, Values
  <2> QED BY <1>1, <2>1, Schedules
<1>2. CASE /\ for = "attempt" => ~canReconnect
           /\ prepared' = (prepared \/ (for = "pair" /\ canReconnect))
           /\ UNCHANGED <<phase, stop, cycle, retry, health>>
  BY <1>2, Zenon DEF Flags, cycle, health
<1> QED BY <1>1, <1>2, Zenon DEF connectFailed

\* A new object has no socket; createPairing and joinFromUri give it its only
\* one.
LEMMA StartPairingSingle ==
    ASSUME AInv, IInv',
           NEW defer \in BOOLEAN, StartPairing(defer)
    PROVE  Flags' /\ Values' /\ Single'
<1>1. Flags'
  BY PhaseTypes, ConnectTakes, Zenon DEF AInv, Flags, Values, StartPairing, setPhase,
    transport, health, timers, cycle
<1>2. Values'
  <2>1. phase' \in Phases /\ reconnects' \in 0 .. MaxReconnects
    BY DEF AInv, Values, Phases, StartPairing, setPhase
  <2>2. state' \in {"disconnected", "connecting", "connected"}
    BY ConnectTakes DEF AInv, Values, StartPairing, transport
  <2>3. ws' \in {q \in Sockets : sock'[q] \in Opened} \cup {None}
    BY ConnectTakes, SessionAssumption DEF AInv, IInv, SockOK, Values, Opened, StartPairing,
      transport
  <2> QED BY <2>1, <2>2, <2>3 DEF Values
<1>3. Single'
  <2>1. ~prepared /\ Alive = {} /\ phase = "idle" /\ UNCHANGED <<stop, retry, overlapped>>
    BY DEF StartPairing, timers
  <2>2. ~beat  BY <2>1 DEF AInv, IInv, GuardedByTimers
  <2>3. CASE setPhase(IF role = "dapp" THEN "waiting" ELSE "idle") /\ prepared' /\ UNCHANGED transport
    <3>1. ~beat'  BY <2>2, <2>3, PhaseTypes DEF AInv, Flags
    <3>2. phase' \in {"idle", "waiting"} /\ Alive' = {}
      BY <2>1, <2>3 DEF setPhase, transport, Alive
    <3>3. ~retry  BY <2>1 DEF AInv, IInv, Idle
    <3>4. ~overlapped' => ~stop  BY <2>1 DEF AInv, Single
    <3> QED BY <2>1, <2>3, <3>1, <3>2, <3>3, <3>4 DEF Single
  <2>4. CASE connect("pair") /\ UNCHANGED <<phase, health, prepared>>
    BY <1>1, <2>1, <2>2, <2>4, ConnectTakes
       DEF AInv, IInv, Idle, SockOK, Flags, Single, Alive, health, Opening, Opened
  <2> QED BY <2>3, <2>4 DEF StartPairing
<1> QED BY <1>1, <1>2, <1>3

\* connectTransport and confirmJoin open the only socket.
LEMMA ConnectPairingSingle ==
    ASSUME AInv, IInv',
           ConnectPairing
    PROVE  Flags' /\ Values' /\ Single'
<1>1. Flags'
  BY ConnectTakes, Zenon DEF AInv, Flags, Values, ConnectPairing, timers, cycle, health
<1>2. Values'
  <2>1. phase' \in Phases /\ reconnects' \in 0 .. MaxReconnects
    BY DEF AInv, Values, ConnectPairing
  <2>2. state' \in {"disconnected", "connecting", "connected"}
    BY ConnectTakes DEF ConnectPairing
  <2>3. ws' \in {q \in Sockets : sock'[q] \in Opened} \cup {None}
    BY ConnectTakes, SessionAssumption DEF AInv, IInv, SockOK, Values, Opened, ConnectPairing
  <2> QED BY <2>1, <2>2, <2>3 DEF Values
<1>3. Single'
  <2> SUFFICES ASSUME ~overlapped PROVE Single'  BY DEF ConnectPairing, Single
  <2>1. PICK s \in Sockets : sock[s] = "free" /\ sock' = [sock EXCEPT ![s] = "pair"]
    BY ConnectTakes DEF ConnectPairing
  <2>2. /\ UNCHANGED <<phase, stop, retry, beat, overlapped>> /\ ~prepared' /\ state' = "connecting"
        /\ phase \in {"idle", "waiting"}
    BY ConnectTakes DEF ConnectPairing, timers, health
  <2>3. Alive = {} /\ ~stop /\ ~retry  BY DEF AInv, Single, ConnectPairing
  <2>4. Alive' = {s} /\ sock'[s] = "pair"  BY <2>1, <2>3 DEF AInv, IInv, SockOK, Alive
  <2> QED BY <2>2, <2>3, <2>4 DEF Single
<1> QED BY <1>1, <1>2, <1>3

\* restore() leaves the object without a socket, connected but without a
\* heartbeat.
LEMMA restoreSingle ==
    ASSUME AInv, IInv',
           restore
    PROVE  Flags' /\ Values' /\ Single'
<1>1. Flags'
  BY PhaseTypes, Zenon DEF AInv, Flags, Values, restore, setPhase, transport, timers,
    cycle, calls
<1>2. Values'
  <2>1. phase' \in Phases /\ reconnects' \in 0 .. MaxReconnects
    BY DEF AInv, Values, Phases, restore, setPhase, calls
  <2>2. state' \in {"disconnected", "connecting", "connected"}
    BY DEF AInv, Values, restore, transport
  <2>3. ws' \in {q \in Sockets : sock'[q] \in Opened} \cup {None}
    BY DEF AInv, Values, restore, transport
  <2> QED BY <2>1, <2>2, <2>3 DEF Values
<1>3. Single'
  <2>1. UNCHANGED <<stop, retry, prepared, overlapped>> /\ ~prepared /\ phase' = "connected"
    BY DEF restore, timers, calls, setPhase
  <2>2. Alive' = {}  BY DEF restore, transport, Alive
  <2>3. ~retry /\ ~beat  BY DEF AInv, IInv, Idle, GuardedByTimers, restore
  <2>4. ~beat'  BY <2>3, PhaseTypes, ZenonT(30) DEF AInv, Flags, restore
  <2> QED BY <2>1, <2>2, <2>3, <2>4 DEF Single
<1> QED BY <1>1, <1>2, <1>3

\* reconnect() without a live socket opens the only one; over a live one it is
\* out of the statement's scope.
LEMMA reconnectSingle ==
    ASSUME AInv, IInv',
           reconnect
    PROVE  Flags' /\ Values' /\ Single'
<1>1. Flags'
  BY PhaseTypes, ConnectTakes, Zenon DEF AInv, Flags, Values, reconnect, setPhase,
    doReconnectAttempt
<1>2. Values'
  <2>1. phase' \in Phases /\ reconnects' \in 0 .. MaxReconnects
    BY SessionAssumption DEF AInv, Values, Phases, reconnect, setPhase
  <2>2. state' \in {"disconnected", "connecting", "connected"}
    BY ConnectTakes DEF reconnect, doReconnectAttempt
  <2>3. ws' \in {q \in Sockets : sock'[q] \in Opened} \cup {None}
    BY ConnectTakes, SessionAssumption DEF AInv, IInv, SockOK, Values, Opened, reconnect,
      doReconnectAttempt
  <2> QED BY <2>1, <2>2, <2>3 DEF Values
<1>3. Single'
  <2>1. ~overlapped' => Alive = {} /\ ~overlapped  BY Zenon DEF reconnect
  <2>2. /\ phase' = "disconnected" /\ retry' = FALSE /\ prepared' = prepared /\ stop' = FALSE
        /\ state' = "connecting"
    BY ConnectTakes DEF reconnect, setPhase, doReconnectAttempt
  <2>3. ~overlapped' => ~prepared  BY <2>1 DEF AInv, IInv, Early, Single, reconnect
  <2>4. PICK s \in Sockets : sock[s] = "free" /\ sock' = [sock EXCEPT ![s] = "attempt"]
    BY ConnectTakes DEF reconnect, doReconnectAttempt
  <2>5. ~overlapped' => Alive' = {s} /\ sock'[s] = "attempt"
    BY <2>1, <2>4 DEF AInv, IInv, SockOK, Alive
  <2> QED BY <2>2, <2>3, <2>5 DEF Single
<1> QED BY <1>1, <1>2, <1>3

\* acceptWallet changes neither sockets nor phase.
LEMMA acceptWalletSingle ==
    ASSUME AInv, IInv',
           acceptWallet
    PROVE  Flags' /\ Values' /\ Single'
<1>1. Flags'
  BY Zenon DEF AInv, Flags, Values, acceptWallet, transport, cycle, health, calls
<1>2. Values'
  BY DEF AInv, Values, acceptWallet, transport, calls
<1>3. Single'
  <2>1. UNCHANGED <<phase, stop, retry, health, transport, calls>>  BY DEF acceptWallet
  <2>2. Alive' = Alive  BY <2>1 DEF transport, Alive
  <2> QED BY <2>1, <2>2 DEF AInv, Single, health, transport, calls
<1> QED BY <1>1, <1>2, <1>3

\* The socket that opens becomes the one the session sends on.
LEMMA SocketOpensSingle ==
    ASSUME AInv, IInv',
           NEW s \in Sockets, SocketOpens(s)
    PROVE  Flags' /\ Values' /\ Single'
<1>1. Flags'
  BY PhaseTypes, Zenon DEF AInv, Flags, Values, SocketOpens, setPhase, cycle, timers,
    calls
<1>2. Values'
  <2>1. phase' \in Phases /\ reconnects' \in 0 .. MaxReconnects
    BY DEF AInv, Values, Phases, SocketOpens, setPhase, calls
  <2>2. state' \in {"disconnected", "connecting", "connected"}  BY DEF SocketOpens
  <2>3. ws' \in {q \in Sockets : sock'[q] \in Opened}
    BY DEF AInv, IInv, SockOK, Opened, SocketOpens
  <2> QED BY <2>1, <2>2, <2>3 DEF Values
<1>3. Single'
  <2>1. Alive' = Alive /\ s \in Alive /\ ws' = s /\ sock'[s] \in Opened /\ state' = "connected"
    BY DEF AInv, IInv, SockOK, Alive, Opening, Opened, SocketOpens
  <2>2. UNCHANGED <<stop, retry, prepared, overlapped>>  BY DEF SocketOpens, timers, calls
  <2>3. beat' => beat  BY PhaseTypes, ZenonT(30) DEF AInv, Flags, SocketOpens
  <2>4. phase' # "idle"  BY DEF AInv, IInv, SockOK, Idle, Single, Opening, SocketOpens, setPhase
  <2> QED BY <2>1, <2>2, <2>3, <2>4 DEF AInv, Single
<1> QED BY <1>1, <1>2, <1>3

\* A connect timeout hits the only socket, so the state it resets is its own.
LEMMA ConnectTimeoutSingle ==
    ASSUME AInv, IInv',
           NEW s \in Sockets, ConnectTimeout(s)
    PROVE  Flags' /\ Values' /\ Single'
<1>1. Flags'
  BY PhaseTypes, Fails, Zenon DEF AInv, Flags, Values, ConnectTimeout, setPhase,
    canReconnect, cycle, health
<1>2. Values'
  <2>1. phase' \in Phases /\ reconnects' \in 0 .. MaxReconnects
    BY Fails DEF AInv, Values, Phases, ConnectTimeout
  <2>2. state' \in {"disconnected", "connecting", "connected"}  BY DEF ConnectTimeout
  <2>3. ws' \in {q \in Sockets : sock'[q] \in Opened} \cup {None}
    BY SessionAssumption DEF AInv, IInv, SockOK, Values, Opening, Opened, ConnectTimeout
  <2> QED BY <2>1, <2>2, <2>3 DEF Values
<1>3. Single'
  <2> SUFFICES ASSUME ~overlapped PROVE Single'  BY DEF ConnectTimeout, Single
  <2>1. s \in Alive /\ Alive' = Alive \ {s} /\ sock[s] \in Opening
    BY DEF AInv, IInv, SockOK, Alive, Opening, ConnectTimeout
  <2>2. ~stop => Alive' = {}  BY <2>1 DEF AInv, Single
  <2>3. ~stop => phase \in {"idle", "waiting", "disconnected"} /\ ~retry /\ ~beat
    BY <2>1 DEF AInv, IInv, GuardedByTimers, Single, Opening, Opened
  <2>4. ~prepared  BY <2>1 DEF AInv, Single
  <2>5. ~stop /\ sock[s] = "pair" => phase \in {"idle", "waiting"}
    BY <2>1 DEF AInv, Single, Opened
  <2>6. ~stop /\ sock[s] = "attempt" => phase = "disconnected"
    BY <2>1 DEF AInv, Single, Opened
  <2> QED BY <2>1, <2>2, <2>3, <2>4, <2>5, <2>6, Fails
       DEF AInv, Opening, canReconnect, ConnectTimeout, Single
<1> QED BY <1>1, <1>2, <1>3

\* onclose of the only socket takes the session to disconnected, or lets the
\* pairing be tried again.
LEMMA SocketClosesSingle ==
    ASSUME AInv, IInv',
           NEW s \in Sockets, SocketCloses(s)
    PROVE  Flags' /\ Values' /\ Single'
<1>1. Flags'
  BY PhaseTypes, Fails, Restarts, Zenon DEF AInv, Flags, Values, SocketCloses,
    handleTransportClose, setPhase, canReconnect, cycle, health
<1>2. Values'
  <2>1. phase' \in Phases /\ reconnects' \in 0 .. MaxReconnects
    <3>1. phase' \in Phases
      <4>1. CASE handleTransportClose
        BY <4>1, Restarts DEF AInv, Values, Phases, handleTransportClose
      <4>2. CASE connectFailed(sock[s])
        BY <4>2, Fails DEF AInv, Values, Phases
      <4>3. CASE phase' = phase
        BY <4>3 DEF AInv, Values
      <4> QED BY <4>1, <4>2, <4>3, Zenon DEF SocketCloses
    <3> QED BY <3>1 DEF AInv, Values, SocketCloses
  <2>2. state' \in {"disconnected", "connecting", "connected"}
    BY DEF AInv, Values, SocketCloses
  <2>3. ws' \in {q \in Sockets : sock'[q] \in Opened} \cup {None}
    BY SessionAssumption DEF AInv, IInv, SockOK, Values, Opening, Opened, SocketCloses
  <2> QED BY <2>1, <2>2, <2>3 DEF Values
<1>3. Single'
  <2> SUFFICES ASSUME ~overlapped PROVE Single'  BY DEF SocketCloses, Single
  <2>1. s \in Alive /\ Alive' = Alive \ {s}
    BY DEF AInv, IInv, SockOK, Alive, SocketCloses
  <2>2. ~prepared /\ (~stop => Alive' = {} /\ ~retry)  BY <2>1 DEF AInv, Single
  <2>3. beat' => phase' = "connected"  BY DEF IInv, GuardedByTimers
  <2>4. ~stop /\ sock[s] = "pair" => phase \in {"idle", "waiting"}
    BY <2>1 DEF AInv, Single, Opened
  <2>5. ~stop /\ sock[s] = "attempt" => phase = "disconnected"
    BY <2>1 DEF AInv, Single, Opened
  <2>6. ~stop /\ sock[s] \in Opened => state = "connected"
    BY <2>1 DEF AInv, Single, Opened
  <2>7. phase = "idle" => ~stop  BY DEF AInv, Single
  <2>8. UNCHANGED overlapped  BY DEF SocketCloses
  <2>9. CASE canReconnect /\ startReconnect /\ UNCHANGED prepared
    <3>1. \/ phase' = "disconnected" /\ retry' /\ stop' = stop
          \/ phase' = "closed" /\ ~retry' /\ stop'
      BY <2>9, Restarts DEF AInv
    <3> QED BY <2>1, <2>2, <2>3, <2>8, <2>9, <3>1 DEF Single, canReconnect
  <2>10. CASE /\ UNCHANGED <<phase, stop, retry, prepared>>
              /\ canReconnect => state # "connected" /\ sock[s] \in Opened
    <3>1. stop \/ phase = "closed"  BY <2>6, <2>10 DEF canReconnect
    <3> QED BY <2>2, <2>3, <2>7, <2>8, <2>10, <3>1 DEF Single
  <2>11. CASE sock[s] \in Opening /\ connectFailed(sock[s])
    <3>1. \/ /\ sock[s] = "attempt" /\ canReconnect /\ prepared' = prepared
             /\ \/ phase' = phase /\ retry' /\ stop' = stop
                \/ phase' = "closed" /\ ~retry' /\ stop'
          \/ /\ sock[s] = "attempt" => ~canReconnect
             /\ prepared' <=> prepared \/ (sock[s] = "pair" /\ canReconnect)
             /\ UNCHANGED <<phase, stop, retry, beat>>
      BY <2>11, Fails DEF AInv
    <3>2. sock[s] \in {"pair", "attempt"}  BY <2>11 DEF Opening
    <3> QED BY <2>1, <2>2, <2>3, <2>4, <2>5, <2>7, <2>8, <3>1, <3>2 DEF Single, canReconnect
  <2> QED BY <2>9, <2>10, <2>11, Zenon DEF SocketCloses, handleTransportClose
<1> QED BY <1>1, <1>2, <1>3

\* close() stops the session.
LEMMA closeSessionSingle ==
    ASSUME AInv, IInv',
           closeSession
    PROVE  Flags' /\ Values' /\ Single'
<1>1. Flags'
  BY PhaseTypes, Zenon DEF AInv, Flags, Values, closeSession, disconnect, setPhase, cycle
<1>2. Values'
  <2>1. phase' \in Phases /\ reconnects' \in 0 .. MaxReconnects
    BY DEF AInv, Values, Phases, closeSession, setPhase
  <2>2. state' \in {"disconnected", "connecting", "connected"}  BY DEF closeSession, disconnect
  <2>3. ws' \in {q \in Sockets : sock'[q] \in Opened} \cup {None}
    BY DEF closeSession, disconnect
  <2> QED BY <2>1, <2>2, <2>3 DEF Values
<1>3. Single'
  <2>1. phase' = "closed" /\ stop' = TRUE /\ prepared' = FALSE  BY DEF closeSession, setPhase
  <2> QED BY <2>1 DEF Single
<1> QED BY <1>1, <1>2, <1>3

\* A socket that has opened stays open through a message: the others, and the
\* one the session sends on, are as before.
LEMMA KeepsSocket ==
    ASSUME AInv, NEW s \in Sockets, sock[s] \in Opened, NEW v \in Opened,
           sock' = [sock EXCEPT ![s] = v], UNCHANGED <<ws, state>>
    PROVE  /\ Alive' = Alive
           /\ \A q \in Alive : sock'[q] = sock[q] \/ (sock[q] \in Opened /\ sock'[q] \in Opened)
           /\ state' \in {"disconnected", "connecting", "connected"}
           /\ ws' \in {q \in Sockets : sock'[q] \in Opened} \cup {None}
<1>1. Alive' = Alive  BY DEF AInv, IInv, SockOK, Alive, Opened
<1>2. \A q \in Sockets : sock'[q] = sock[q] \/ (sock[q] \in Opened /\ sock'[q] \in Opened)
  BY DEF AInv, IInv, SockOK
<1>3. ws' \in {q \in Sockets : sock'[q] \in Opened} \cup {None}
  BY <1>2 DEF AInv, Values
<1> QED BY <1>1, <1>2, <1>3 DEF AInv, Values, Alive

\* ready keeps the socket it came on, or closes the session.
LEMMA ReadySingle ==
    ASSUME AInv, IInv',
           NEW s \in Sockets, NEW st \in {"waiting", "connected"}, NEW match \in
             BOOLEAN, Ready(s, st, match)
    PROVE  Flags' /\ Values' /\ Single'
<1>1. Flags'
  BY PhaseTypes, Zenon DEF AInv, Flags, Values, Ready, closeSession, disconnect,
    setPhase, cycle, calls
<1>2. Values'
  <2>1. CASE closeSession  BY <2>1, closeSessionSingle
  <2>2. CASE sock' = [sock EXCEPT ![s] = st] /\ UNCHANGED <<ws, state, calls>>
    <3>1. sock[s] \in Opened /\ st \in Opened  BY DEF Ready, Opened
    <3>2. phase' \in Phases  BY <2>2 DEF Ready, closeSession, disconnect, setPhase, Phases
    <3> QED BY <2>2, <3>1, <3>2, KeepsSocket DEF AInv, Values, calls
  <2> QED BY <2>1, <2>2, Zenon DEF Ready
<1>3. Single'
  <2>1. CASE closeSession  BY <2>1, closeSessionSingle
  <2>2. CASE /\ phase' \in {"connected", "waiting", "waiting_accept"} /\ retry' = FALSE
             /\ sock' = [sock EXCEPT ![s] = st] /\ UNCHANGED <<stop, ws, state, calls>>
    <3>1. sock[s] \in Opened /\ st \in Opened /\ s \in Alive  BY DEF Ready, Opened, Alive
    <3>2. /\ Alive' = Alive
          /\ \A q \in Alive : sock'[q] = sock[q] \/ (sock[q] \in Opened /\ sock'[q] \in Opened)
      BY ZenonT(30), <2>2, <3>1, KeepsSocket
    <3>3. UNCHANGED <<prepared, overlapped>>  BY <2>2 DEF calls
    <3>4. ~overlapped /\ ~stop => state = "connected" /\ Alive = {s} /\ ws = s
      BY <3>1 DEF AInv, Single, Opened
    <3>5. sock'[s] \in Opened  BY <2>2, <3>1 DEF AInv, IInv, SockOK
    <3>6. ~overlapped => ~prepared  BY <3>1 DEF AInv, Single
    <3> QED BY <2>2, <3>1, <3>2, <3>3, <3>4, <3>5, <3>6 DEF Single
  <2> QED BY <2>1, <2>2, Zenon DEF Ready, setPhase
<1> QED BY <1>1, <1>2, <1>3

\* join keeps the socket it came on.
LEMMA JoinSingle ==
    ASSUME AInv, IInv',
           NEW s \in Sockets, NEW good \in BOOLEAN, NEW auto \in BOOLEAN, Join(s,
             good, auto)
    PROVE  Flags' /\ Values' /\ Single'
<1>1. Flags'
  BY PhaseTypes, Zenon DEF AInv, Flags, Values, Join, setPhase, cycle, calls, health
<1>2. Values'
  <2>1. phase' \in Phases /\ reconnects' \in 0 .. MaxReconnects
    BY DEF AInv, Values, Phases, Join, setPhase, calls
  <2>2. state' \in {"disconnected", "connecting", "connected"}  BY DEF AInv, Values, Join
  <2>3. ws' \in {q \in Sockets : sock'[q] \in Opened} \cup {None}
    <3>1. CASE UNCHANGED sock  BY <3>1 DEF AInv, Values, Join
    <3>2. CASE sock' = [sock EXCEPT ![s] = "ended"]
      BY ZenonT(30), <3>2, KeepsSocket DEF Join, Opened
    <3> QED BY <3>1, <3>2, Zenon DEF Join
  <2> QED BY <2>1, <2>2, <2>3 DEF Values
<1>3. Single'
  <2>1. sock[s] \in Opened /\ s \in Alive  BY DEF Join, Opened, Alive
  <2>2. /\ Alive' = Alive
        /\ \A q \in Alive : sock'[q] = sock[q] \/ (sock[q] \in Opened /\ sock'[q] \in Opened)
    <3>1. CASE UNCHANGED sock  BY <3>1 DEF Alive
    <3>2. CASE sock' = [sock EXCEPT ![s] = "ended"]
      BY ZenonT(30), <2>1, <3>2, KeepsSocket DEF Join, Opened
    <3> QED BY <3>1, <3>2, Zenon DEF Join
  <2>3. UNCHANGED <<stop, retry, ws, state, prepared, overlapped>>  BY DEF Join, calls
  <2>4. phase' \in {"waiting", "pending_accept"}  BY DEF Join, setPhase
  <2>5. ~overlapped /\ ~stop => state = "connected" /\ Alive = {s} /\ ws = s /\ ~retry
    BY <2>1 DEF AInv, Single, Opened
  <2>6. ~overlapped => ~prepared  BY <2>1 DEF AInv, Single
  <2>7. sock'[s] \in Opened  BY <2>1, <2>2
  <2> QED BY ZenonT(30), <2>1, <2>2, <2>3, <2>4, <2>5, <2>6, <2>7 DEF Single
<1> QED BY <1>1, <1>2, <1>3

\* pong changes only the liveness deadline.
LEMMA PongSingle ==
    ASSUME AInv, IInv',
           Pong
    PROVE  Flags' /\ Values' /\ Single'
<1>1. Flags'
  BY Zenon DEF AInv, Flags, Values, Pong, cycle, timers, transport, calls
<1>2. Values'
  BY DEF AInv, Values, Pong, transport, calls
<1>3. Single'
  <2>1. UNCHANGED <<phase, stop, timers, beat, transport, calls>>  BY DEF Pong
  <2>2. Alive' = Alive  BY <2>1 DEF transport, Alive
  <2> QED BY <2>1, <2>2 DEF AInv, Single, timers, transport, calls
<1> QED BY <1>1, <1>2, <1>3

\* close from the peer stops the session, or changes nothing but the socket's
\* fate.
LEMMA PeerCloseSingle ==
    ASSUME AInv, IInv',
           NEW s \in Sockets, PeerClose(s)
    PROVE  Flags' /\ Values' /\ Single'
<1>1. Flags'
  BY PhaseTypes, Zenon DEF AInv, Flags, Values, PeerClose, endSession, setPhase,
    cycle, health, calls
<1>2. Values'
  <2>1. phase' \in Phases /\ reconnects' \in 0 .. MaxReconnects
    BY DEF AInv, Values, Phases, PeerClose, endSession, setPhase, calls
  <2>2. state' \in {"disconnected", "connecting", "connected"}  BY DEF AInv, Values, PeerClose
  <2>3. ws' \in {q \in Sockets : sock'[q] \in Opened} \cup {None}
    BY ZenonT(30), KeepsSocket DEF PeerClose, Opened
  <2> QED BY <2>1, <2>2, <2>3 DEF Values
<1>3. Single'
  <2>1. sock[s] \in Opened /\ s \in Alive  BY DEF PeerClose, Opened, Alive
  <2>2. /\ Alive' = Alive
        /\ \A q \in Alive : sock'[q] = sock[q] \/ (sock[q] \in Opened /\ sock'[q] \in Opened)
    BY ZenonT(30), <2>1, KeepsSocket DEF PeerClose, Opened
  <2>3. UNCHANGED <<ws, state, prepared, overlapped>>  BY DEF PeerClose, calls
  <2>4. ~overlapped => ~prepared  BY <2>1 DEF AInv, Single
  <2>5. CASE phase' = "closed" /\ stop' = TRUE  BY <2>3, <2>4, <2>5 DEF Single
  <2>6. CASE phase = "disconnected" /\ UNCHANGED <<phase, stop, retry, health>>
    <3>1. beat' = beat  BY <2>6 DEF health
    <3>2. ~overlapped /\ ~stop => state = "connected" /\ Alive = {s} /\ ws = s /\ ~retry
      BY <2>1 DEF AInv, Single, Opened
    <3>3. sock'[s] \in Opened  BY <2>1, <2>2
    <3> QED BY <2>1, <2>2, <2>3, <2>4, <2>6, <3>1, <3>2, <3>3 DEF Single
  <2> QED BY <2>5, <2>6, Zenon DEF PeerClose, endSession, setPhase
<1> QED BY <1>1, <1>2, <1>3

\* terminate stops the session, or drops the only socket and starts a cycle.
LEMMA TerminateSingle ==
    ASSUME AInv, IInv',
           NEW s \in Sockets, NEW recoverable \in BOOLEAN, Terminate(s, recoverable)
    PROVE  Flags' /\ Values' /\ Single'
<1>1. Flags'
  BY PhaseTypes, Restarts, Zenon DEF AInv, Flags, Values, Terminate, endSession,
    setPhase, canReconnect, cycle, health, calls
<1>2. Values'
  <2>0. sock[s] \in Opened /\ "ended" \in Opened  BY DEF Terminate, Opened
  <2>1. phase' \in Phases
    <3>1. CASE startReconnect  BY <3>1, Restarts DEF AInv, Phases
    <3>2. CASE endSession  BY <3>2 DEF endSession, setPhase, Phases
    <3>3. CASE UNCHANGED phase  BY <3>3 DEF AInv, Values
    <3> QED BY <3>1, <3>2, <3>3, Zenon DEF Terminate
  <2>2. state' \in {"disconnected", "connecting", "connected"}  BY DEF AInv, Values, Terminate
  <2>3. ws' \in {q \in Sockets : sock'[q] \in Opened} \cup {None}
    <3>1. CASE ws' = None  BY <3>1
    <3>2. CASE sock' = [sock EXCEPT ![s] = "ended"] /\ ws' = ws /\ state' = state
      BY ZenonT(30), <3>2, <2>0, KeepsSocket
    <3> QED BY <3>1, <3>2, Zenon DEF Terminate
  <2>4. reconnects' \in 0 .. MaxReconnects  BY DEF AInv, Values, Terminate, calls
  <2> QED BY <2>1, <2>2, <2>3, <2>4 DEF Values
<1>3. Single'
  <2> SUFFICES ASSUME ~overlapped PROVE Single'  BY DEF Terminate, calls, Single
  <2>1. sock[s] \in Opened /\ s \in Alive  BY DEF Terminate, Opened, Alive
  <2>2. UNCHANGED <<prepared, overlapped>> /\ ~prepared
    BY <2>1 DEF AInv, Single, Terminate, calls
  <2>3. phase = "idle" => ~stop  BY DEF AInv, Single
  <2>4. ~stop => Alive = {s} /\ ws = s /\ state = "connected" /\ ~retry
    BY <2>1 DEF AInv, Single, Opened
  <2>5. beat' => phase' = "connected"  BY DEF IInv, GuardedByTimers
  <2>6. CASE /\ ~canReconnect /\ sock' = [sock EXCEPT ![s] = "ended"]
             /\ UNCHANGED <<phase, stop, retry, ws, state>>
    <3>1. Alive' = Alive  BY ZenonT(30), <2>1, <2>6, KeepsSocket DEF Opened
    <3>2. sock'[s] \in Opened  BY <2>6 DEF AInv, IInv, SockOK, Opened
    <3> QED BY <2>1, <2>2, <2>3, <2>4, <2>5, <2>6, <3>1, <3>2 DEF Single
  <2>7. CASE /\ canReconnect /\ startReconnect
             /\ sock' = [q \in Sockets |-> IF q = ws THEN "free" ELSE [sock EXCEPT ![s] = "ended"][q]]
    <3>1. Alive' = {}
      <4> SUFFICES ASSUME NEW q \in Sockets, q # ws, sock'[q] # "free" PROVE FALSE
        BY <2>7 DEF Alive
      <4>1. ws = s  BY <2>4, <2>7 DEF canReconnect
      <4>2. sock'[q] = sock[q]  BY <2>7, <4>1 DEF AInv, IInv, SockOK
      <4> QED BY <2>4, <2>7, <4>1, <4>2 DEF canReconnect, Alive
    <3>2. \/ phase' = "disconnected" /\ retry' /\ stop' = stop
          \/ phase' = "closed" /\ ~retry' /\ stop'
      BY <2>7, Restarts DEF AInv
    <3> QED BY <2>2, <2>5, <3>1, <3>2 DEF Single
  <2>8. CASE phase' = "closed" /\ stop' = TRUE  BY <2>2, <2>8 DEF Single
  <2> QED BY <2>6, <2>7, <2>8, Zenon DEF Terminate, endSession, setPhase
<1> QED BY <1>1, <1>2, <1>3

\* The retry timer fires without a socket and opens the only one.
LEMMA RetryFiresSingle ==
    ASSUME AInv, IInv',
           RetryFires
    PROVE  Flags' /\ Values' /\ Single'
<1>1. Flags'
  BY ConnectTakes, Zenon DEF AInv, Flags, Values, RetryFires, doReconnectAttempt,
    canReconnect, transport, health, calls
<1>2. Values'
  <2>1. phase' \in Phases /\ reconnects' \in 0 .. MaxReconnects
    BY DEF AInv, Values, RetryFires, calls
  <2>2. state' \in {"disconnected", "connecting", "connected"}
    BY ConnectTakes DEF AInv, Values, RetryFires, doReconnectAttempt, transport
  <2>3. ws' \in {q \in Sockets : sock'[q] \in Opened} \cup {None}
    BY ConnectTakes, SessionAssumption DEF AInv, IInv, SockOK, Values, Opened, RetryFires,
      doReconnectAttempt, transport
  <2> QED BY <2>1, <2>2, <2>3 DEF Values
<1>3. Single'
  <2>1. /\ retry /\ retry' = FALSE
        /\ UNCHANGED <<phase, stop, beat, prepared, overlapped>>
    BY DEF RetryFires, health, calls
  <2>2. ~overlapped => ~prepared  BY <2>1 DEF AInv, Single
  <2>3. CASE canReconnect /\ connect("attempt")
    <3>1. PICK s \in Sockets : sock[s] = "free" /\ sock' = [sock EXCEPT ![s] = "attempt"]
      BY <2>3, ConnectTakes
    <3>2. state' = "connecting"  BY <2>3, ConnectTakes
    <3>3. ~overlapped => Alive = {} /\ phase = "disconnected"
      BY <2>1, <2>3 DEF AInv, Single, canReconnect
    <3>4. ~overlapped => Alive' = {s} /\ sock'[s] = "attempt"
      BY <3>1, <3>3 DEF AInv, IInv, SockOK, Alive
    <3> QED BY <2>1, <2>2, <3>2, <3>3, <3>4 DEF Single
  <2>4. CASE ~canReconnect /\ UNCHANGED transport
    <3>1. ~overlapped => stop  BY <2>1, <2>4 DEF AInv, Single, canReconnect
    <3>2. ~overlapped => phase # "idle"  BY <3>1 DEF AInv, Single
    <3> QED BY <2>1, <2>2, <3>1, <3>2 DEF Single
  <2> QED BY <2>3, <2>4 DEF RetryFires, doReconnectAttempt
<1> QED BY <1>1, <1>2, <1>3

\* The heartbeat changes only the liveness deadline.
LEMMA heartbeatTickSingle ==
    ASSUME AInv, IInv',
           heartbeatTick
    PROVE  Flags' /\ Values' /\ Single'
<1>1. Flags'
  BY Zenon DEF AInv, Flags, Values, heartbeatTick, cycle, timers, transport, calls
<1>2. Values'
  BY DEF AInv, Values, heartbeatTick, transport, calls
<1>3. Single'
  <2>1. UNCHANGED <<phase, stop, timers, beat, transport, calls>>  BY DEF heartbeatTick
  <2>2. Alive' = Alive  BY <2>1 DEF transport, Alive
  <2> QED BY <2>1, <2>2 DEF AInv, Single, timers, transport, calls
<1> QED BY <1>1, <1>2, <1>3

\* The liveness deadline drops the only socket and starts a cycle.
LEMMA LivenessFiresSingle ==
    ASSUME AInv, IInv',
           LivenessFires
    PROVE  Flags' /\ Values' /\ Single'
<1>1. Flags'
  BY PhaseTypes, Restarts, Zenon DEF AInv, Flags, Values, LivenessFires, disconnect,
    setPhase, canReconnect, cycle, calls
<1>2. Values'
  <2>1. phase' \in Phases /\ reconnects' \in 0 .. MaxReconnects
    BY Restarts DEF AInv, Values, Phases, LivenessFires, calls
  <2>2. state' \in {"disconnected", "connecting", "connected"}  BY DEF LivenessFires, disconnect
  <2>3. ws' \in {q \in Sockets : sock'[q] \in Opened} \cup {None}
    BY DEF LivenessFires, disconnect
  <2> QED BY <2>1, <2>2, <2>3 DEF Values
<1>3. Single'
  <2>1. beat  BY DEF LivenessFires, AInv, IInv, GuardedByTimers
  <2>2. UNCHANGED <<overlapped, prepared>>  BY DEF LivenessFires, calls
  <2>3. ~overlapped /\ ~stop => Alive' = {}
    <3> SUFFICES ASSUME ~overlapped, ~stop, NEW s \in Sockets, sock'[s] # "free" PROVE FALSE
      BY DEF Alive
    <3>1. phase = "connected"  BY <2>1 DEF AInv, IInv, GuardedByTimers
    <3>2. sock'[s] = IF s = ws THEN "free" ELSE sock[s]  BY DEF LivenessFires, disconnect
    <3>3. s \in Alive /\ s # ws  BY <3>2 DEF Alive
    <3>4. ws = s  BY <3>1, <3>3 DEF AInv, Single
    <3> QED BY <3>3, <3>4
  <2>4. ~overlapped => ~prepared
    BY <2>1 DEF AInv, IInv, GuardedByTimers, Single
  <2>5. CASE canReconnect /\ startReconnect
    BY <1>1, <2>2, <2>3, <2>4, <2>5, Restarts DEF AInv, IInv, GuardedByTimers,
      canReconnect, Single
  <2>6. CASE ~canReconnect /\ UNCHANGED <<phase, stop>>
    <3>1. stop \/ phase = "closed"  BY <2>6 DEF canReconnect
    <3>2. phase = "connected"  BY <2>1 DEF AInv, IInv, GuardedByTimers
    <3> QED BY <2>2, <2>4, <2>6, <3>1, <3>2 DEF Single
  <2> QED BY <2>5, <2>6 DEF LivenessFires
<1> QED BY <1>1, <1>2, <1>3

\* A new session object has no socket.
LEMMA AInvInit == Init => AInv
<1> SUFFICES ASSUME Init PROVE AInv
  OBVIOUS
<1>1. Flags
  BY Zenon DEF Init, Flags
<1>2. Values
  BY SessionAssumption DEF Init, Values, Phases
<1>3. Single
  BY DEF Init, Single, Alive
<1> QED BY <1>1, <1>2, <1>3, IInvInit DEF AInv

\* Every step keeps the types and Single.
LEMMA AInvStep == AInv /\ [Next]_vars => AInv'
<1> SUFFICES ASSUME AInv, [Next]_vars PROVE AInv'
  OBVIOUS
<1>1. IInv'
  BY IInvStep DEF AInv
<1> SUFFICES Flags' /\ Values' /\ Single'
  BY <1>1 DEF AInv
<1>2. CASE UNCHANGED vars
  <2>1. UNCHANGED <<phase, stop, cycle, timers, health, remote, transport, calls>>
    BY <1>2 DEF vars
  <2>2. Flags'  BY <2>1, ZenonT(30) DEF AInv, Flags, cycle, timers, health, transport, calls
  <2>3. Values'  BY <2>1 DEF AInv, Values, cycle, timers, health, transport, calls
  <2>4. Alive' = Alive  BY <2>1 DEF transport, Alive
  <2>5. Single'  BY <2>1, <2>4 DEF AInv, Single, timers, health, transport, calls
  <2> QED BY <2>2, <2>3, <2>5
<1>3. CASE ApiCall
  BY <1>1, <1>3, StartPairingSingle, ConnectPairingSingle, restoreSingle, reconnectSingle,
     acceptWalletSingle, closeSessionSingle
     DEF ApiCall, rejectWallet, close
<1>4. ASSUME NEW s \in Sockets,
             SocketOpens(s) \/ ConnectTimeout(s) \/ SocketCloses(s) \/ Receive(s)
      PROVE  Flags' /\ Values' /\ Single'
  BY <1>1, <1>4, SocketOpensSingle, ConnectTimeoutSingle, SocketClosesSingle, ReadySingle,
     JoinSingle, PeerCloseSingle, TerminateSingle, closeSessionSingle
     DEF Receive, UnsupportedVersion
<1>5. CASE Pong
  BY <1>1, <1>5, PongSingle
<1>6. CASE TimerFires
  BY <1>1, <1>6, RetryFiresSingle, heartbeatTickSingle, LivenessFiresSingle,
    closeSessionSingle DEF TimerFires, AcceptFires, TtlFires
<1> QED BY <1>2, <1>3, <1>4, <1>5, <1>6 DEF Next

\* For any number of sockets, until reconnect() is called over a live one: a session
\* that waits for its peer or runs a heartbeat sends on the only socket there is, or
\* is still to be connected; and every field keeps its type (connect, onopen,
\* onclose, timeout and disconnect of the transport under the session's handlers).
THEOREM OnItsSocket == Spec => []Attached
<1>1. AInv => Attached
  <2> SUFFICES ASSUME AInv PROVE Attached
    OBVIOUS
  <2>1. TypeOK
    BY DEF AInv, IInv, SockOK, AttemptsBounded, Flags, Values, TypeOK
  <2>2. ASSUME ~overlapped, ~stop,
               phase \in {"waiting", "pending_accept", "waiting_accept"} \/ beat
        PROVE  prepared \/ (state = "connected" /\ Alive = {ws}) \/ \E s \in Sockets : sock[s] = "pair"
    BY <2>2 DEF AInv, IInv, GuardedByTimers, Single, Alive
  <2> QED BY <2>1, <2>2 DEF Attached
<1> QED BY <1>1, AInvInit, AInvStep, PTL DEF Spec
=============================================================================
