---------------------------- MODULE MobileWallet ----------------------------
(***************************************************************************)
(* The screen of the example mobile wallet: one session in a ref, the      *)
(* WebSockets whose callbacks outlive it, the reconnect timers, the        *)
(* prompts, and a store that is written without waiting.  The relay and    *)
(* the dApp behind it are the frames that may arrive.                      *)
(***************************************************************************)
EXTENDS Integers

CONSTANTS
    Sessions,   \* key pairs a behaviour may use
    Sockets,    \* WebSockets that exist at once
    MaxSeq,     \* bound on the numbers a session seals
    None,
    NoWrite     \* no write is under way; writes land in the order of issue

VARIABLES
    phase, intentionalClose,
    ses,        \* session.current
    cnt,        \* cnt[s]: sendSeq, and whether the join key is held
    ws,         \* ws[k]: the WebSockets
    wsRef,      \* wsRef.current
    timer,      \* reconnectTimer.current is set
    stray,      \* a timer that reconnectTimer no longer refers to
    requests,   \* the sessions that asked for the prompts on the screen
    uri,        \* the route's uri parameter
    disk, saves     \* the store, and the last of the writes that have not landed

ui == <<phase, intentionalClose, ses, ws, wsRef, timer, stray, requests, uri>>
vars == <<ui, cnt, disk, saves>>

NoSocket == [rs |-> "none", first |-> FALSE, settled |-> FALSE, s |-> None, joined |-> None]

Mounted ==
    /\ phase = "idle" /\ intentionalClose = FALSE /\ ses = None
    /\ ws = [k \in Sockets |-> NoSocket] /\ wsRef = None
    /\ timer = FALSE /\ stray = FALSE /\ requests = {}

Init ==
    /\ Mounted /\ uri = FALSE
    /\ cnt = [s \in Sessions |-> [send |-> 0, join |-> TRUE]]
    /\ disk = None /\ saves = NoWrite

Over == intentionalClose \/ phase = "closed"
Least(S) == {x \in S : \A y \in S : x <= y}
Spare == Least({k \in Sockets : ws[k].rs = "none"})
\* A new key pair, as generateX25519KeyPair makes it
Fresh == Least({s \in Sessions : cnt[s].join /\ s # ses /\ \A k \in Sockets : ws[k].s # s})

\* saveSessionData of session s with the counters c: nothing waits for it.
saveSessionData(s, c) ==
    saves' = IF s = None THEN saves ELSE [s |-> s, send |-> c[s].send]

\* new WebSocket, with the callbacks of connectAndJoin or of tryConnect
opening(k, s, first) == [ws EXCEPT ![k] = [rs |-> "connecting", first |-> first, settled |-> FALSE,
                                           s |-> s, joined |-> None]]

\* startReconnect, on the sockets w: one timer, unless the session is over
startReconnect(w) ==
    /\ ws' = w
    /\ timer' = ~Over
    /\ phase' = IF Over THEN phase ELSE "reconnecting"
    /\ UNCHANGED <<intentionalClose, ses, wsRef, stray, requests, uri>>

\* Mutant: the attempt that fails is the last one
schedule_gives_up(w) ==
    ws' = w /\ UNCHANGED <<phase, intentionalClose, ses, wsRef, timer, stray, requests, uri>>

\* schedule: the timer of another attempt is forgotten, not cleared
schedule(w) ==
    /\ ws' = w
    /\ timer' = (timer \/ ~Over)
    /\ stray' = (stray \/ (timer /\ ~Over))
    /\ UNCHANGED <<phase, intentionalClose, ses, wsRef, requests, uri>>

tryConnect ==
    /\ timer \/ stray
    /\ IF timer THEN timer' = FALSE /\ UNCHANGED stray ELSE stray' = FALSE /\ UNCHANGED timer
    /\ IF Over \/ ses = None THEN UNCHANGED <<ws, wsRef>>
       ELSE \E k \in Spare : ws' = opening(k, ses, FALSE) /\ wsRef' = k
    /\ UNCHANGED <<phase, intentionalClose, ses, requests, uri, cnt, disk, saves>>

\* freshJoin and connectAndJoin: a new session takes the ref; the phase, the
\* timers and the socket of the one before are left as they are.
freshJoin(s) ==
    \E k \in Spare :
        /\ ses' = s /\ intentionalClose' = FALSE /\ requests' = {}
        /\ ws' = opening(k, s, TRUE) /\ wsRef' = k
        /\ UNCHANGED <<phase, timer, stray>>

\* The scanner replaces the idle screen by a new one, with the uri.
handleBarCode ==
    /\ phase = "idle"
    /\ \E s \in Fresh, k \in Least(Sockets) :
         /\ ses' = s /\ wsRef' = k
         /\ ws' = [[j \in Sockets |-> NoSocket] EXCEPT ![k] =
                     [NoSocket EXCEPT !.rs = "connecting", !.first = TRUE, !.s = s]]
    /\ timer' = FALSE /\ stray' = FALSE /\ requests' = {}
    /\ uri' = TRUE /\ intentionalClose' = FALSE
    /\ UNCHANGED <<phase, cnt, disk, saves>>

\* The effect on [uri, ethReady, freshJoin]: another private key makes another
\* freshJoin, and the uri that is still there is joined again.
generateKey ==
    /\ uri
    /\ \E s \in Fresh : freshJoin(s)
    /\ UNCHANGED <<uri, cnt, disk, saves>>

\* The app is killed and started again: the mount effect restores the session
\* that the store has, without the join key, and reconnects.
restore ==
    /\ IF disk = None
       THEN ses' = None /\ UNCHANGED cnt
       ELSE ses' = disk.s /\ cnt' = [cnt EXCEPT ![disk.s] = [send |-> disk.send, join |-> FALSE]]
    /\ phase' = IF disk = None THEN "idle" ELSE "reconnecting"
    /\ timer' = (disk # None)
    /\ ws' = [k \in Sockets |-> NoSocket] /\ wsRef' = None
    /\ intentionalClose' = FALSE /\ stray' = FALSE /\ requests' = {} /\ uri' = FALSE
    /\ saves' = NoWrite
    /\ UNCHANGED disk

lands == saves # NoWrite /\ disk' = saves /\ saves' = NoWrite /\ UNCHANGED <<ui, cnt>>

\* buildJoinMessage of the session of the socket that opens, sent through wsRef:
\* sealed the first time only.  A reconnect never seals.
onopen(k) ==
    /\ ws[k].rs = "connecting"
    /\ LET w == [ws EXCEPT ![k].rs = "open"] IN
         ws' = IF w[wsRef].rs = "open" THEN [w EXCEPT ![wsRef].joined = ws[k].s] ELSE w
    /\ phase' = IF ws[k].first THEN "waiting" ELSE phase
    /\ cnt' = [cnt EXCEPT ![ws[k].s].join = @ /\ ~ws[k].first]
    /\ UNCHANGED <<intentionalClose, ses, wsRef, timer, stray, requests, uri, disk, saves>>

onclose(k) ==
    /\ ws[k].rs # "none"
    /\ LET w == [ws EXCEPT ![k] = NoSocket] IN
         IF ws[k].first \/ ws[k].settled THEN startReconnect(w) ELSE schedule(w)
    /\ UNCHANGED <<cnt, disk, saves>>

\* The socket after a message: an attempt that gets one has settled
got(k) == [ws EXCEPT ![k].settled = ~ws[k].first]

ready(k, state) ==
    /\ ws' = got(k) /\ timer' = FALSE /\ phase' = state
    /\ saveSessionData(ses, cnt)
    /\ UNCHANGED <<intentionalClose, ses, wsRef, stray, requests, uri, cnt, disk>>

\* Mutant: the response is not followed by a save
sendResponse_unsaved(s) == cnt' = [cnt EXCEPT ![s].send = @ + 1] /\ UNCHANGED saves
\* The next number is used, then the save is started.
sendResponse(s) == cnt' = [cnt EXCEPT ![s].send = @ + 1] /\ saveSessionData(s, cnt')

\* A request on socket k is sealed for the session that joined there: the
\* session in the ref opens only its own, and drops a number it has had.
req(k) ==
    /\ ws' = got(k)
    /\ requests' \in {requests} \cup {requests \cup {s \in {ses} : s = ws[k].joined}}
    /\ UNCHANGED <<phase, intentionalClose, ses, wsRef, timer, stray, uri, cnt, disk, saves>>

\* close and terminate: ignored while reconnecting
ended(k) ==
    /\ ws' = got(k)
    /\ phase' = IF phase = "reconnecting" THEN phase ELSE "closed"
    /\ intentionalClose' = (intentionalClose \/ phase # "reconnecting")
    /\ UNCHANGED <<ses, wsRef, timer, stray, requests, uri, cnt, disk, saves>>

\* Without a session the first access to it throws, before a phase or a save.
handleMessage(k) ==
    /\ ws[k].rs = "open" /\ ws[k].joined # None /\ ses # None
    /\ ready(k, "waiting") \/ ready(k, "connected") \/ req(k) \/ ended(k)

handleRequest(r) ==
    /\ phase = "connected" /\ cnt[ses].send < MaxSeq
    /\ sendResponse(ses)
    /\ requests' \in {requests, requests \ {r}}      \* of one or of several prompts
    /\ UNCHANGED <<phase, intentionalClose, ses, ws, wsRef, timer, stray, uri, disk>>

pushEvent ==
    /\ phase = "connected" /\ ses # None /\ cnt[ses].send < MaxSeq
    /\ sendResponse(ses)
    /\ UNCHANGED <<ui, disk>>

\* doClose, and doReset that calls it.  The socket's onclose comes later.
shut(p, s, r) ==
    /\ intentionalClose' = TRUE /\ timer' = FALSE
    /\ ws' = IF wsRef # None /\ ws[wsRef].rs # "none" THEN [ws EXCEPT ![wsRef].rs = "closing"] ELSE ws
    /\ phase' = p /\ ses' = s /\ requests' = r
    /\ saves' = None
    /\ UNCHANGED <<wsRef, stray, uri, cnt, disk>>

doClose == phase = "connected" /\ shut("closed", ses, requests)
doReset == phase # "idle" /\ shut("idle", None, {})

Next ==
    \/ tryConnect \/ handleBarCode \/ generateKey \/ restore \/ lands
    \/ (\E k \in Sockets : onopen(k) \/ onclose(k) \/ handleMessage(k))
    \/ (\E r \in requests : handleRequest(r)) \/ pushEvent \/ doClose \/ doReset

Spec == Init /\ [][Next]_vars

-----------------------------------------------------------------------------
(* Properties                                                              *)

Saved == {None} \cup [s : Sessions, send : 0..MaxSeq]

\* The types of the refs, of the sockets and of the store
TypeOK ==
    /\ phase \in {"idle", "waiting", "connected", "reconnecting", "closed"}
    /\ ses \in Sessions \cup {None} /\ wsRef \in Sockets \cup {None}
    /\ \A k \in Sockets : ws[k].rs \in {"none", "connecting", "open", "closing"}
    /\ requests \subseteq Sessions
    /\ disk \in Saved /\ (saves = NoWrite \/ saves \in Saved)

\* The store has, or will have when the write under way lands, the next number
\* of the session that a restart restores, over any restarts, reconnects and
\* leftover sockets: no number is sealed twice unless the app dies before the
\* write that nothing waits for has landed.
NumbersSaved ==
    LET last == IF saves = NoWrite THEN disk ELSE saves IN
    last # None => last.send = cnt[last.s].send

\* A screen that says it is reconnecting will try: a timer is set, or a socket
\* is there whose end sets one.
ReconnectArmed ==
    phase = "reconnecting" => timer \/ stray \/ \E k \in Sockets : ws[k].rs # "none"

\* A prompt is answered with the keys of the session that asked.
RequestsCurrent == requests \subseteq {ses}
=============================================================================
