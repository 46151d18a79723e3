----------------------------- MODULE Background -----------------------------
(***************************************************************************)
(* The service worker of the browser extension (background.ts), with the   *)
(* storage it shares with its next incarnation.  Everything between two    *)
(* awaits is one step; the browser stops the worker when it is idle, and   *)
(* then only `disk` and the permissions survive.                           *)
(***************************************************************************)
EXTENDS Naturals, FiniteSets

CONSTANTS
    Requests,      \* calls of rpc-request
    MaxSessions    \* bound: DAppSession instances at a time

ASSUME MaxSessionsAssumption == MaxSessions \in Nat \ {0}

VARIABLES
    phases,    \* phases[i]: the phase of DAppSession instance i, "none" if it is not there
    worker,    \* the module variables of background.ts
    rebuild,   \* doTryReconnect: the await it is at, and whether a timer started it
    tick,      \* the keepalive handler: the await it is at
    rpc,       \* rpc[c]: a call of handleRpcRequest, or the popup's start-pairing
    disk       \* the snapshot in chrome.storage.local and the keepalive alarm

vars == <<phases, worker, rebuild, tick, rpc, disk>>

Slots == 1..MaxSessions
Popup == "popup"
Callers == Requests \cup {Popup}

\* "disconnected" is split: "unpaired" is the phase disconnected before the
\* relay has paired the channel, from which only "waiting" is reached again.
\* An "orphan" is an instance no variable refers to any more; it lives on, in
\* phases nobody hears, until it closes by itself.
Phases == {"none", "idle", "waiting", "pending_accept", "connected", "disconnected", "unpaired", "closed", "orphan"}
Live == {"waiting", "pending_accept", "connected", "disconnected", "unpaired"}

\* Where a call of handleRpcRequest is: at an await, deferred, with the wallet, or over.
Stages == {"new", "checking", "creating", "connecting", "deferred", "forwarded"}

\* No call: before it arrives, and again once it is answered, refused or lost.
NoCall == [at |-> "new", accounts |-> FALSE, to |-> 0]
NoRebuild == [at |-> "no", timer |-> FALSE]
NewWorker == [cur |-> 0, att |-> 0, ui |-> "idle", pairing |-> FALSE, timer |-> FALSE]

Init ==
    /\ phases = [i \in Slots |-> "none"]
    /\ worker = NewWorker
    /\ rebuild = [NoRebuild EXCEPT !.at = "reading"]
    /\ tick = "no"
    /\ rpc = [c \in Callers |-> NoCall]
    /\ disk = [saved |-> FALSE, alarm |-> "none"]

At(i) == IF i = 0 THEN "none" ELSE phases[i]

Connecting(i) == \E c \in Callers : rpc[c].to = i

\* A slot no variable and no pending connect refers to.
Free(i) ==
    /\ phases[i] \in {"none", "closed"}
    /\ i \notin {worker.cur, worker.att} /\ ~Connecting(i)

\* new DAppSession
NewSession(i) == Free(i) /\ \A j \in Slots : Free(j) => i <= j

\* ------------------------------------------------------ phase listeners

Deferred(calls) == {c \in Callers : calls[c].at = "deferred"}

\* flushDeferredRequests: each deferred call runs handleRpcRequest again.
flushDeferredRequests(calls) ==
    [c \in Callers |-> IF c \in Deferred(calls) THEN [calls[c] EXCEPT !.at = "checking"] ELSE calls[c]]

rejectAllDeferred(calls) ==
    [c \in Callers |-> IF c \in Deferred(calls) THEN NoCall ELSE calls[c]]

ClearAlarm(alarm) == IF alarm = "clearing" THEN "clearing" ELSE "none"

handleSessionClosed(w) == [w EXCEPT !.ui = "idle", !.pairing = FALSE]

Forget(d) == [saved |-> FALSE, alarm |-> ClearAlarm(d.alarm)]

OnWorker_stale(w, p) ==
    CASE p = "waiting"        -> [w EXCEPT !.ui = "pairing"]
      [] p = "pending_accept" -> [w EXCEPT !.ui = "pending_accept"]
      [] p = "connected"      -> [w EXCEPT !.ui = "connected", !.pairing = FALSE, !.timer = FALSE]
      [] p \in {"disconnected", "unpaired"} -> [w EXCEPT !.timer = TRUE]
      [] p = "closed"         -> handleSessionClosed(w)

\* onPhase: what the listeners do when the attached session enters phase p.
OnWorker(w, p) ==
    CASE p = "waiting"        -> [w EXCEPT !.ui = "pairing"]
      [] p = "pending_accept" -> [w EXCEPT !.ui = "pending_accept"]
      [] p = "connected"      -> [w EXCEPT !.ui = "connected", !.pairing = FALSE, !.timer = FALSE]
      [] p \in {"disconnected", "unpaired"} -> [w EXCEPT !.ui = "disconnected", !.timer = TRUE]
      [] p = "closed"         -> handleSessionClosed(w)

OnDisk_keeps_snapshot(d, p) ==
    CASE p = "connected" -> [d EXCEPT !.saved = TRUE, !.alarm = "clearing"]
      [] p = "closed"    -> [Forget(d) EXCEPT !.saved = d.saved]
      [] OTHER           -> d

OnDisk(d, p) ==
    CASE p = "connected" -> [d EXCEPT !.saved = TRUE, !.alarm = "clearing"]
      [] p = "closed"    -> Forget(d)
      [] OTHER           -> d

OnRpc(calls, p) ==
    CASE p = "connected" -> flushDeferredRequests(calls)
      [] p = "closed"    -> rejectAllDeferred(calls)
      [] OTHER           -> calls

\* A closed instance that no variable refers to is gone.
Shut(i) == IF i \in {worker.cur, worker.att} THEN "closed" ELSE "none"

\* Instance i enters phase p; only the attached instance is heard.
Enter(i, p) ==
    /\ phases' = [phases EXCEPT ![i] = IF p = "closed" THEN Shut(i) ELSE p]
    /\ IF i = worker.att /\ phases[i] # p
       THEN worker' = OnWorker(worker, p) /\ disk' = OnDisk(disk, p) /\ rpc' = OnRpc(rpc, p)
       ELSE UNCHANGED <<worker, disk, rpc>>

\* The DAppSession instance, as Session.tla details it.
walletJoins(i) == phases[i] = "waiting" /\ Enter(i, "pending_accept")

connects(i) == phases[i] \in {"pending_accept", "disconnected"} /\ Enter(i, "connected")

readyWaiting(i) == phases[i] \in {"disconnected", "unpaired"} /\ Enter(i, "waiting")

drops(i) ==
    \/ phases[i] = "connected" /\ Enter(i, "disconnected")
    \/ phases[i] \in {"waiting", "pending_accept"} /\ Enter(i, "unpaired")

closes(i) == phases[i] \in Live \cup {"orphan"} /\ Enter(i, "closed")

SessionStep(i) ==
    /\ walletJoins(i) \/ connects(i) \/ readyWaiting(i) \/ drops(i) \/ closes(i)
    /\ UNCHANGED <<rebuild, tick>>

\* ------------------------------------------------------- createSession

Orphaned(j) == CASE phases[j] \in Live -> "orphan" [] phases[j] = "closed" -> "none" [] OTHER -> phases[j]

\* createSession after its await: the current session is destroyed, a new one
\* takes its place and its listeners, and createPairing starts to connect.
createSession(c) ==
    /\ rpc[c].at = "creating"
    /\ \E i \in Slots :
         LET old  == worker.cur
             heard == old # 0 /\ old = worker.att /\ phases[old] # "closed"
             w    == IF heard THEN handleSessionClosed(worker) ELSE worker
             rest == IF heard THEN rejectAllDeferred(rpc) ELSE rpc
         IN /\ NewSession(i)
            /\ phases' = [j \in Slots |-> CASE j = i -> "idle" [] j = old /\ j # i -> "none"
                                             [] j = worker.att /\ j # i -> Orphaned(j) [] OTHER -> phases[j]]
            /\ worker' = [w EXCEPT !.cur = i, !.att = i]
            /\ disk' = IF heard THEN Forget(disk) ELSE disk
            /\ rpc' = [rest EXCEPT ![c].at = "connecting", ![c].to = i]
    /\ UNCHANGED <<rebuild, tick>>

\* connectTransport succeeds: the session waits for a wallet, even one that
\* was closed meanwhile; the call is deferred, start-pairing answers.
pairingConnected(c) ==
    /\ rpc[c].at = "connecting"
    /\ LET i == rpc[c].to
           q == [rpc EXCEPT ![c] = IF c = Popup THEN NoCall ELSE [@ EXCEPT !.at = "deferred", !.to = 0]]
       IN /\ phases' = [phases EXCEPT ![i] = IF i \in {worker.cur, worker.att} THEN "waiting" ELSE "orphan"]
          /\ worker' = IF i = worker.att THEN OnWorker(worker, "waiting") ELSE worker
          /\ rpc' = q
    /\ UNCHANGED <<rebuild, tick, disk>>

\* createSession throws: the rejection leaves handleRpcRequest, nothing is
\* posted on the port, and pairingInProgress stays as it is.
pairingFails(c) ==
    /\ rpc[c].at \in {"creating", "connecting"}
    /\ rpc' = [rpc EXCEPT ![c] = NoCall]
    /\ UNCHANGED <<phases, worker, rebuild, tick, disk>>

\* ------------------------------------------------------ tryReconnect

\* tryReconnect: refused while another rebuild is under way.
tryReconnect(timer) ==
    IF rebuild.at # "no"
    THEN /\ worker' = [worker EXCEPT !.timer = timer \/ @]
         /\ UNCHANGED rebuild
    ELSE /\ rebuild' = [at |-> "reading", timer |-> timer]
         /\ worker' = IF timer THEN [worker EXCEPT !.timer = FALSE] ELSE worker

\* scheduleReconnect's timer fires.
reconnectTimer ==
    /\ worker.timer
    /\ tryReconnect(TRUE)
    /\ UNCHANGED <<phases, tick, rpc, disk>>

\* doTryReconnect gives up; a timer that started it schedules another try.
GiveUp ==
    /\ rebuild' = NoRebuild
    /\ worker' = [worker EXCEPT !.timer = rebuild.timer \/ @]

readSnapshot_inverted ==
    /\ rebuild.at = "reading"
    /\ IF disk.saved THEN GiveUp ELSE rebuild' = [rebuild EXCEPT !.at = "settings"] /\ UNCHANGED worker
    /\ UNCHANGED <<phases, tick, rpc, disk>>

readSnapshot ==
    /\ rebuild.at = "reading"
    /\ IF disk.saved THEN rebuild' = [rebuild EXCEPT !.at = "settings"] /\ UNCHANGED worker ELSE GiveUp
    /\ UNCHANGED <<phases, tick, rpc, disk>>

snapshotExpired ==
    /\ rebuild.at = "settings"
    /\ GiveUp
    /\ disk' = [disk EXCEPT !.saved = FALSE]
    /\ UNCHANGED <<phases, tick, rpc>>

\* The rebuild: a new instance takes the variable and the listeners, restore
\* enters "connected" and reconnect enters "disconnected", in one step.
restoreSession ==
    /\ rebuild.at = "settings"
    /\ \E i \in Slots :
         /\ NewSession(i)
         /\ phases' = [j \in Slots |-> CASE j = i -> "disconnected"
                                          [] j \in {worker.cur, worker.att} /\ j # i -> Orphaned(j)
                                          [] OTHER -> phases[j]]
         /\ worker' = [OnWorker(OnWorker(worker, "connected"), "disconnected") EXCEPT !.cur = i, !.att = i]
    /\ disk' = OnDisk(disk, "connected")
    /\ rpc' = OnRpc(rpc, "connected")
    /\ rebuild' = [rebuild EXCEPT !.at = "connecting"]
    /\ UNCHANGED <<tick>>

\* session.reconnect() never rejects: a failed attempt is left to the SDK.
rebuilt ==
    /\ rebuild.at = "connecting"
    /\ rebuild' = NoRebuild
    /\ UNCHANGED <<phases, worker, tick, rpc, disk>>

\* ----------------------------------------------------- keepalive alarm

alarmCreated ==
    /\ disk.alarm = "clearing"
    /\ disk' = [disk EXCEPT !.alarm = "set"]
    /\ UNCHANGED <<phases, worker, rebuild, tick, rpc>>

\* Connected: read the age of the session; else rebuild it from the snapshot.
keepalive ==
    /\ disk.alarm = "set" /\ tick = "no"
    /\ IF At(worker.cur) = "connected"
       THEN tick' = "expiry" /\ UNCHANGED <<worker, rebuild>>
       ELSE /\ UNCHANGED tick
            /\ IF disk.saved THEN tryReconnect(FALSE) ELSE UNCHANGED <<worker, rebuild>>
    /\ UNCHANGED <<phases, rpc, disk>>

\* Past the 24 hours: the session that is current now is closed and dropped;
\* its listeners stay, and hear it again if it was still connecting.
\* If it is gone meanwhile, or only pinged, nothing changes.
keepaliveExpiry ==
    /\ tick = "expiry" /\ tick' = "no"
    /\ \/ UNCHANGED <<phases, worker, disk, rpc>>
       \/ /\ worker.cur # 0
          /\ LET i == worker.cur
                 mute == i = worker.att /\ ~Connecting(i)
             IN /\ phases' = [phases EXCEPT ![i] = IF mute \/ i # worker.att THEN "none" ELSE "closed"]
                /\ worker' = [handleSessionClosed(worker) EXCEPT !.cur = 0, !.att = IF mute THEN 0 ELSE @]
          /\ disk' = Forget(disk)
          /\ rpc' = rejectAllDeferred(rpc)
    /\ UNCHANGED <<rebuild>>

\* ------------------------------------------------------- popup messages

startPairing ==
    /\ rpc[Popup].at = "new"
    /\ rpc' = [rpc EXCEPT ![Popup].at = "creating"]
    /\ UNCHANGED <<phases, worker, rebuild, tick, disk>>

\* The popup offers reject-wallet while it shows pending_accept.
rejectWallet ==
    /\ worker.ui = "pending_accept"
    /\ LET i == worker.cur
           shut == At(i) \in {"pending_accept", "connected", "disconnected"}
           heard == shut /\ i = worker.att
       IN /\ phases' = IF shut THEN [phases EXCEPT ![i] = "closed"] ELSE phases
          /\ worker' = IF heard THEN handleSessionClosed(worker) ELSE worker
          /\ disk' = IF heard THEN Forget(disk) ELSE disk
    /\ rpc' = rejectAllDeferred(rpc)
    /\ UNCHANGED <<rebuild, tick>>

\* disconnect: listeners off, timer off, the session closed, everything forgotten.
disconnect ==
    /\ phases' = [i \in Slots |-> IF i \in {worker.cur, worker.att} THEN "none" ELSE phases[i]]
    /\ worker' = [handleSessionClosed(worker) EXCEPT !.att = 0, !.cur = 0, !.timer = FALSE]
    /\ disk' = Forget(disk)
    /\ rpc' = rejectAllDeferred(rpc)
    /\ UNCHANGED <<rebuild, tick>>

\* ------------------------------------------------------ handleRpcRequest

\* A wallet method arrives; isPermitted is awaited first.  (What is answered
\* without the session, and the permission itself, are in ExtensionBridge.)
arrive(r, accounts) ==
    /\ rpc[r].at = "new"
    /\ rpc' = [rpc EXCEPT ![r] = [NoCall EXCEPT !.at = "checking", !.accounts = accounts]]
    /\ UNCHANGED <<phases, worker, rebuild, tick, disk>>

\* Without a connected session an account request starts a pairing unless
\* one is under way, and waits; anything else is refused.
NotConnected(r) ==
    CASE ~rpc[r].accounts -> rpc' = [rpc EXCEPT ![r] = NoCall] /\ UNCHANGED worker
      [] rpc[r].accounts /\ ~worker.pairing /\ At(worker.cur) \in {"none", "idle", "closed"} ->
            /\ worker' = [worker EXCEPT !.pairing = TRUE]
            /\ rpc' = [rpc EXCEPT ![r].at = "creating"]
      [] OTHER -> rpc' = [rpc EXCEPT ![r].at = "deferred"] /\ UNCHANGED worker

\* handleRpcRequest after isPermitted.
handleRpcRequest(r) ==
    /\ rpc[r].at = "checking"
    /\ IF At(worker.cur) = "connected"
       THEN rpc' = [rpc EXCEPT ![r] = [NoCall EXCEPT !.at = "forwarded"]] /\ UNCHANGED worker
       ELSE NotConnected(r)
    /\ UNCHANGED <<phases, rebuild, tick, disk>>

\* The wallet answered or refused, the session closed, or the request timed out.
forwardEnds(r) ==
    /\ rpc[r].at = "forwarded"
    /\ rpc' = [rpc EXCEPT ![r] = NoCall]
    /\ UNCHANGED <<phases, worker, rebuild, tick, disk>>

deferredTimeout_unarmed(r) ==
    /\ rpc[r].at = "deferred" /\ worker.pairing
    /\ rpc' = [rpc EXCEPT ![r] = NoCall]
    /\ UNCHANGED <<phases, worker, rebuild, tick, disk>>

\* addDeferredRequest's timer.
deferredTimeout(r) ==
    /\ rpc[r].at = "deferred"
    /\ rpc' = [rpc EXCEPT ![r] = NoCall]
    /\ UNCHANGED <<phases, worker, rebuild, tick, disk>>

\* ------------------------------------------------------------ the browser

\* The browser stops an idle worker: no storage or alarm call is outstanding.
\* Sockets, timers, deferred and forwarded calls are gone.
stopWorker ==
    /\ rebuild.at \notin {"reading", "settings"} /\ tick = "no" /\ disk.alarm # "clearing"
    /\ \A c \in Callers : rpc[c].at \notin {"checking", "creating"}
    /\ phases' = [i \in Slots |-> "none"]
    /\ worker' = NewWorker
    /\ rebuild' = [NoRebuild EXCEPT !.at = "reading"]
    /\ rpc' = [c \in Callers |-> NoCall]
    /\ UNCHANGED <<tick, disk>>

Next ==
    \/ \E i \in Slots : SessionStep(i)
    \/ \E c \in Callers : createSession(c) \/ pairingConnected(c) \/ pairingFails(c)
    \/ reconnectTimer \/ readSnapshot \/ snapshotExpired \/ restoreSession \/ rebuilt
    \/ alarmCreated \/ keepalive \/ keepaliveExpiry
    \/ startPairing \/ rejectWallet \/ disconnect
    \/ \E r \in Requests : \/ \E accounts \in BOOLEAN : arrive(r, accounts)
                           \/ handleRpcRequest(r) \/ forwardEnds(r) \/ deferredTimeout(r)
    \/ stopWorker

\* Storage answers, timers fire, connects and fetches end, the alarm is periodic.
Fairness ==
    /\ WF_vars(readSnapshot) /\ WF_vars(snapshotExpired \/ restoreSession) /\ WF_vars(rebuilt)
    /\ WF_vars(alarmCreated) /\ WF_vars(keepalive)
    /\ WF_vars(keepaliveExpiry)
    /\ \A c \in Callers : WF_vars(createSession(c) \/ pairingConnected(c) \/ pairingFails(c))
    /\ \A r \in Requests : WF_vars(handleRpcRequest(r)) /\ WF_vars(forwardEnds(r)) /\ WF_vars(deferredTimeout(r))

Spec == Init /\ [][Next]_vars /\ Fairness

\* ------------------------------------------------------------- properties

\* The worker, its sessions and what chrome.storage holds have their types
TypeOK ==
    /\ phases \in [Slots -> Phases]
    /\ worker \in [cur : 0..MaxSessions, att : 0..MaxSessions, pairing : BOOLEAN, timer : BOOLEAN,
                   ui : {"idle", "pairing", "pending_accept", "connected", "disconnected"}]
    /\ rebuild \in [at : {"no", "reading", "settings", "connecting"}, timer : BOOLEAN]
    /\ tick \in {"no", "expiry"}
    /\ \A c \in Callers : rpc[c].at \in Stages /\ rpc[c].to \in 0..MaxSessions
    /\ disk \in [saved : BOOLEAN, alarm : {"none", "clearing", "set"}]

\* A stored snapshot always has the keepalive alarm beside it: whatever the
\* order of rebuilds, closes and worker stops, the recovery backstop of
\* background.ts:931-936 is armed for as long as there is something to recover.
RecoveryArmed == disk.saved => disk.alarm # "none"

\* The popup shows the phase of the session it can act on: replacing the
\* session, rebuilding it and the late phases of orphans never leave the shown
\* state behind that of the attached session.
UiFollows ==
    /\ TypeOK
    /\ worker.att # 0 /\ phases[worker.att] \in Live
         => worker.ui = CASE phases[worker.att] = "waiting"  -> "pairing"
                          [] phases[worker.att] = "unpaired" -> "disconnected"
                          [] OTHER                           -> phases[worker.att]

Reconnects == restoreSession \/ \E i \in Slots : connects(i)

\* Every call of handleRpcRequest ends: deferral, pairing and forwarding have
\* an end, across rebuilds and worker stops.  Only a session that reconnects
\* again and again can keep a call waiting, as each flush restarts its timer
\* (background.ts:195, 703-711).
EveryRpcEnds == \A r \in Requests : []<>(rpc[r].at = "new") \/ []<><<Reconnects>>_vars

\* A snapshot left behind by a stopped worker is picked up again: the next
\* worker has a session, or has found the snapshot expired.
SnapshotRecovered == [](disk.saved /\ worker.att = 0 => <>(worker.cur # 0 \/ ~disk.saved))
=============================================================================
