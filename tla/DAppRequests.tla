---------------------------- MODULE DAppRequests ----------------------------
(***************************************************************************)
(* The requests of one paired DAppSession: from request() to the moment    *)
(* its promise settles, across awaited saves, lost connections, timeouts   *)
(* and the re-sending of pending requests after a reconnect.               *)
(*                                                                         *)
(* persistence.save is external: it settles or fails at any time, and two  *)
(* saves settle in any order.  The relay is external: it may lose a frame, *)
(* it delivers what the wallet sends in the order the wallet's own saves   *)
(* settle (any order), and it answers a connection whose first frame is    *)
(* not `create` with a terminate.  The wallet is external: it executes the *)
(* requests it receives and seals its frames with rising numbers.          *)
(*                                                                         *)
(* Abstracted: method, params and result of a request; the reason of a     *)
(* rejection.  Every phase in which request() is refused but the session   *)
(* is not over is "disconnected".                                          *)
(***************************************************************************)
EXTENDS Integers, FiniteSets

CONSTANTS
    Requests,               \* calls; r also stands for the id req-N
    NoRequest,
    MAX_PENDING_REQUESTS,
    MAX_SEND_SEQ,
    MaxWalletSeq            \* bound: frames the wallet sends are below it

ASSUME RequestsAssumption ==
    /\ MAX_PENDING_REQUESTS \in Nat /\ MAX_SEND_SEQ \in Nat /\ MaxWalletSeq \in Nat
    /\ NoRequest \notin Requests

VARIABLES
    promise, executed,      \* as in RequestPromises
    phase, reconnecting,
    keys,                   \* sendKey and recvKey are still there
    asyncSave,              \* persistence is configured and save is a promise
    resendOnReconnect,
    sendSeq, recvSeq,
    pendingRequests,        \* the keys of the map; each has its timer armed
    saves,                  \* saves under way, with what runs when they settle
    net,                    \* the socket: "down", "connecting", "refused", "up"
    outbound,               \* WebSocketTransport.outbound
    wire,                   \* request frames on their way to the wallet
    inbox,                  \* frames of the wallet on their way to the dApp
    walletSeq

vars == <<promise, executed, phase, reconnecting, keys, asyncSave, resendOnReconnect, sendSeq,
          recvSeq, pendingRequests, saves, net, outbound, wire, inbox, walletSeq>>

settings == <<asyncSave, resendOnReconnect>>
seqs == <<sendSeq, recvSeq>>
wallet == <<executed, walletSeq>>

Frames == [r : Requests, seq : 0..MAX_SEND_SEQ]
Answers == [t : {"res"}, r : Requests, seq : 0..MaxWalletSeq, body : {"ok", "err", "unreadable"}]
Events == [t : {"evt"}, r : {NoRequest}, seq : 0..MaxWalletSeq, body : {"ok"}]

\* The continuation of a save: send or re-send a request, deliver a wallet
\* frame (prev is recvSeq before it), or nothing.
Saves ==
    [k : {"send", "resend"}, f : Frames]
        \cup [k : {"deliver"}, m : Answers \cup Events, prev : -1..MaxWalletSeq]
        \cup [k : {"snapshot"}]

Init ==
    /\ promise = [r \in Requests |-> "idle"] /\ executed = {}
    /\ phase = "connected" /\ reconnecting = FALSE /\ keys = TRUE
    /\ asyncSave \in BOOLEAN /\ resendOnReconnect \in BOOLEAN
    /\ sendSeq = 0 /\ recvSeq = -1
    /\ pendingRequests = {} /\ saves = {}
    /\ net = "up" /\ outbound = {} /\ wire = {} /\ inbox = {} /\ walletSeq = 0

-----------------------------------------------------------------------------
(* Pieces of the handlers *)

\* reject() and resolve() of a promise that has settled do nothing.
settle(S, o) ==
    promise' = [r \in Requests |-> IF r \in S /\ promise[r] = "waiting" THEN o ELSE promise[r]]

\* transport.disconnect(): what is queued here or under way to us is lost
disconnect == net' = "down" /\ outbound' = {} /\ inbox' = {}

\* close(): the pending requests are rejected, together with those in S
\* whose own handler fails.
close(S) ==
    /\ settle(pendingRequests \cup S, "rejected")
    /\ pendingRequests' = {}
    /\ phase' = "closed"
    /\ disconnect

\* sendRaw of a set of frames: a frame above the size limit is dropped, on an
\* open socket it leaves at once (or is lost), else it waits in outbound.
sendRaw(F) ==
    \E G \in SUBSET F :
        IF net = "up" THEN wire' = wire \cup G /\ UNCHANGED outbound
        ELSE outbound' = outbound \cup G /\ UNCHANGED wire

\* The continuation `send` of request: enter the map, arm the timer, send.
\* buildRequestMessage throws once destroy() has wiped the key.
send(f) ==
    IF keys THEN /\ pendingRequests' = pendingRequests \cup {f.r}
                 /\ sendRaw({f})
                 /\ UNCHANGED promise
    ELSE settle({f.r}, "rejected") /\ UNCHANGED <<pendingRequests, outbound, wire>>

-----------------------------------------------------------------------------
(* The application *)

Refused == phase # "connected" \/ ~keys \/ Cardinality(pendingRequests) >= MAX_PENDING_REQUESTS

request_refused(r) ==
    /\ Refused
    /\ promise' = [promise EXCEPT ![r] = "rejected"]
    /\ UNCHANGED <<phase, sendSeq, pendingRequests, saves, net, outbound, wire, inbox>>

\* nextSendSeq closes the session and throws.
request_overflow(r) ==
    /\ ~Refused /\ sendSeq >= MAX_SEND_SEQ
    /\ promise' = [q \in Requests |->
           IF q = r \/ (q \in pendingRequests /\ promise[q] = "waiting") THEN "rejected" ELSE promise[q]]
    /\ pendingRequests' = {} /\ phase' = "closed" /\ disconnect
    /\ UNCHANGED <<sendSeq, saves, wire>>

request_sent(r) ==
    /\ ~Refused /\ sendSeq < MAX_SEND_SEQ
    /\ sendSeq' = sendSeq + 1
    /\ promise' = [promise EXCEPT ![r] = "waiting"]
    /\ LET f == [r |-> r, seq |-> sendSeq] IN
       IF asyncSave THEN /\ saves' = saves \cup {[k |-> "send", f |-> f]}
                         /\ UNCHANGED <<pendingRequests, outbound, wire>>
       ELSE /\ pendingRequests' = pendingRequests \cup {r}
            /\ sendRaw({f})
            /\ UNCHANGED saves
    /\ UNCHANGED <<phase, net, inbox>>

request(r) ==
    /\ promise[r] = "idle"
    /\ request_refused(r) \/ request_overflow(r) \/ request_sent(r)
    /\ UNCHANGED <<executed, reconnecting, keys, settings, recvSeq, walletSeq>>

\* The same steps for the caller's close() and for everything that closes the
\* session from inside: the session TTL, an unsupported version.
app_close ==
    /\ phase # "closed"
    /\ close({})
    /\ UNCHANGED <<wallet, reconnecting, keys, settings, seqs, saves, wire>>

destroy ==
    /\ keys
    /\ close({})
    /\ keys' = FALSE
    /\ UNCHANGED <<wallet, reconnecting, settings, seqs, saves, wire>>

-----------------------------------------------------------------------------
(* Timers and saves *)

\* Mutant: the timeout rejects the promise and leaves the entry in the map
timeout_keeps(r) ==
    /\ r \in pendingRequests
    /\ settle({r}, "rejected")
    /\ UNCHANGED <<wallet, phase, reconnecting, keys, settings, seqs, pendingRequests, saves, net,
                   outbound, wire, inbox>>

timeout(r) ==
    /\ r \in pendingRequests
    /\ pendingRequests' = pendingRequests \ {r}
    /\ settle({r}, "rejected")
    /\ UNCHANGED <<wallet, phase, reconnecting, keys, settings, seqs, saves, net, outbound, wire, inbox>>

Settled(m) == IF m.body = "ok" THEN "resolved" ELSE "rejected"

\* A save resolves and its continuation runs.  The session may have closed
\* or lost its connection meanwhile, and nothing looks at that again.
saved(s) ==
    /\ s \in saves
    /\ saves' = saves \ {s}
    /\ CASE s.k = "send" -> send(s.f)
         [] s.k = "resend" -> sendRaw(IF keys THEN {s.f} ELSE {}) /\ UNCHANGED <<promise, pendingRequests>>
         [] s.k = "deliver" -> settle({s.m.r}, Settled(s.m)) /\ UNCHANGED <<pendingRequests, outbound, wire>>
         [] OTHER -> UNCHANGED <<promise, pendingRequests, outbound, wire>>
    /\ UNCHANGED <<wallet, phase, reconnecting, keys, settings, seqs, net, inbox>>

\* A save fails: persistenceError closes the session, a wallet frame takes
\* its number back, and the call that waited for the save is rejected.
save_failed(s) ==
    /\ s \in saves
    /\ saves' = saves \ {s}
    /\ close(CASE s.k = "send" -> {s.f.r} [] s.k = "deliver" -> {s.m.r} [] OTHER -> {})
    /\ recvSeq' = IF s.k = "deliver" THEN s.prev ELSE recvSeq
    /\ UNCHANGED <<wallet, reconnecting, keys, settings, sendSeq, wire>>

-----------------------------------------------------------------------------
(* Messages *)

\* The part of `res` and `evt` after the number has been accepted: the
\* continuation settles the promise now, or once the save has settled.
deliver(m) ==
    /\ recvSeq' = m.seq
    /\ IF asyncSave THEN saves' = saves \cup {[k |-> "deliver", m |-> m, prev |-> recvSeq]} /\ UNCHANGED promise
       ELSE settle({m.r}, Settled(m)) /\ UNCHANGED saves

\* Mutant: the response is taken for whichever request is pending
res_any(m) ==
    \E r \in pendingRequests : deliver([m EXCEPT !.r = r]) /\ pendingRequests' = pendingRequests \ {r}

\* A response leaves the map at once.  One that is unreadable, or whose
\* number is not above the last one accepted, rejects its request.
res(m) ==
    IF phase = "connected" /\ m.r \in pendingRequests
    THEN /\ pendingRequests' = pendingRequests \ {m.r}
         /\ IF m.body = "unreadable" \/ ~keys \/ m.seq <= recvSeq
            THEN settle({m.r}, "rejected") /\ UNCHANGED <<recvSeq, saves>>
            ELSE deliver(m)
    ELSE UNCHANGED <<promise, pendingRequests, recvSeq, saves>>

evt(m) ==
    /\ IF phase = "connected" /\ keys /\ m.seq > recvSeq THEN deliver(m)
       ELSE UNCHANGED <<promise, recvSeq, saves>>
    /\ UNCHANGED pendingRequests

receive(m) ==
    /\ net = "up" /\ m \in inbox
    /\ inbox' = inbox \ {m}
    /\ IF m.t = "res" THEN res(m) ELSE evt(m)
    /\ UNCHANGED <<wallet, phase, reconnecting, keys, settings, sendSeq, net, outbound, wire>>

\* `close` of the peer, or a terminate with a permanent reason: the session
\* is over; the socket is left to the relay, which closes it.
peer_close ==
    /\ net = "up" /\ phase = "connected"
    /\ settle(pendingRequests, "rejected")
    /\ pendingRequests' = {} /\ phase' = "closed" /\ disconnect
    /\ UNCHANGED <<wallet, reconnecting, keys, settings, seqs, saves, wire>>

-----------------------------------------------------------------------------
(* Connection *)

\* The socket closes, the heartbeat finds it dead, or the relay terminates
\* it for a recoverable reason: the pending requests stay pending.
startReconnect ==
    /\ phase # "closed" /\ net \in {"up", "refused"}
    /\ phase' = "disconnected" /\ reconnecting' = TRUE
    /\ disconnect
    /\ UNCHANGED <<promise, wallet, keys, settings, seqs, pendingRequests, saves, wire>>

\* transport.connect() starts with an empty queue ...
doReconnectAttempt ==
    /\ phase = "disconnected" /\ net = "down"
    /\ net' = "connecting" /\ outbound' = {}
    /\ UNCHANGED <<promise, wallet, phase, reconnecting, keys, settings, seqs, pendingRequests, saves, wire, inbox>>

\* ... and what was queued while it connected is flushed before `create`.
onopen ==
    /\ phase = "disconnected" /\ net = "connecting"
    /\ net' = IF outbound = {} THEN "up" ELSE "refused"
    /\ outbound' = {}
    /\ UNCHANGED <<promise, wallet, phase, reconnecting, keys, settings, seqs, pendingRequests, saves, wire, inbox>>

giveUpReconnect ==
    /\ phase = "disconnected" /\ net # "up"
    /\ reconnecting' = FALSE
    /\ close({})
    /\ UNCHANGED <<wallet, keys, settings, seqs, saves, wire>>

\* resendPending: one fresh number per pending request, in map order.
\* Running out of numbers closes the session half-way.
resendPending(P) ==
    LET n == IF Cardinality(P) <= MAX_SEND_SEQ - sendSeq THEN Cardinality(P) ELSE MAX_SEND_SEQ - sendSeq
        snap == IF asyncSave THEN {[k |-> "snapshot"]} ELSE {}
    IN  \E order \in [1..n -> P] :
          /\ \A i, j \in 1..n : order[i] = order[j] => i = j
          /\ LET F == {[r |-> order[i], seq |-> sendSeq + i - 1] : i \in 1..n} IN
             /\ sendSeq' = sendSeq + n
             /\ saves' = saves \cup snap \cup (IF asyncSave THEN {[k |-> "resend", f |-> f] : f \in F} ELSE {})
             /\ IF n < Cardinality(P)
                THEN close({}) /\ wire' = wire \cup (IF asyncSave THEN {} ELSE F)
                ELSE /\ phase' = "connected"
                     /\ sendRaw(IF asyncSave THEN {} ELSE F)
                     /\ UNCHANGED <<promise, pendingRequests, net, inbox>>

ready_connected ==
    /\ net = "up" /\ phase = "disconnected"
    /\ reconnecting' = FALSE
    /\ resendPending(IF reconnecting /\ resendOnReconnect /\ keys THEN pendingRequests ELSE {})
    /\ UNCHANGED <<wallet, keys, settings, recvSeq>>

-----------------------------------------------------------------------------
(* The wallet *)

\* It executes a request it receives (or finds the answer in its cache) and
\* answers; a frame for a dApp that is not there is lost.
walletAnswers(f) ==
    /\ f \in wire /\ walletSeq < MaxWalletSeq
    /\ wire' = wire \ {f}
    /\ executed' = executed \cup {f.r}
    /\ walletSeq' = walletSeq + 1
    /\ \E b \in {"ok", "err", "unreadable"} :
          inbox' = IF net = "up" THEN inbox \cup {[t |-> "res", r |-> f.r, seq |-> walletSeq, body |-> b]}
                   ELSE inbox
    /\ UNCHANGED <<promise, phase, reconnecting, keys, settings, seqs, pendingRequests, saves, net, outbound>>

walletPushes ==
    /\ net = "up" /\ walletSeq < MaxWalletSeq
    /\ walletSeq' = walletSeq + 1
    /\ inbox' = inbox \cup {[t |-> "evt", r |-> NoRequest, seq |-> walletSeq, body |-> "ok"]}
    /\ UNCHANGED <<promise, executed, phase, reconnecting, keys, settings, seqs, pendingRequests, saves, net,
                   outbound, wire>>

Next ==
    \/ \E r \in Requests : request(r) \/ timeout(r)
    \/ \E s \in saves : saved(s) \/ save_failed(s)
    \/ \E m \in inbox : receive(m)
    \/ \E f \in wire : walletAnswers(f)
    \/ app_close \/ destroy \/ peer_close \/ walletPushes
    \/ startReconnect \/ doReconnectAttempt \/ onopen \/ giveUpReconnect \/ ready_connected

\* The saves that a waiting promise depends on
SavesOf(r) == {s \in saves : \/ s.k = "send" /\ s.f.r = r
                             \/ s.k = "deliver" /\ s.m.r = r}

\* A timer that stays armed fires, and a save that is under way settles.
Fairness ==
    \A r \in Requests :
        /\ WF_vars(timeout(r))
        /\ WF_vars(\E s \in SavesOf(r) : saved(s) \/ save_failed(s))

Spec == Init /\ [][Next]_vars /\ Fairness

-----------------------------------------------------------------------------
(* Properties *)

\* Promises, saves, frames and counters have their types; the counter that seals
\* requests stops at MAX_SEND_SEQ.
TypeOK ==
    /\ promise \in [Requests -> {"idle", "waiting", "resolved", "rejected"}]
    /\ executed \subseteq Requests
    /\ phase \in {"connected", "disconnected", "closed"}
    /\ reconnecting \in BOOLEAN /\ keys \in BOOLEAN
    /\ asyncSave \in BOOLEAN /\ resendOnReconnect \in BOOLEAN
    /\ sendSeq \in 0..MAX_SEND_SEQ /\ recvSeq \in -1..MaxWalletSeq
    /\ pendingRequests \subseteq Requests /\ saves \subseteq Saves
    /\ net \in {"down", "connecting", "refused", "up"} /\ outbound \subseteq Frames
    /\ wire \subseteq Frames /\ inbox \subseteq Answers \cup Events /\ walletSeq \in 0..MaxWalletSeq

Holders(r) == Cardinality(SavesOf(r)) + (IF r \in pendingRequests THEN 1 ELSE 0)

\* A promise that waits is held by exactly one thing that will settle it: its
\* entry in the map (and the timer), the save before its first send, or the save
\* of its answer.  Neither a close during an awaited save nor a response racing
\* the timeout can drop it, and no path that settles a promise leaves an entry
\* behind that would use up one of the MAX_PENDING_REQUESTS places.
WaitingHeld == \A r \in Requests : Holders(r) = IF promise[r] = "waiting" THEN 1 ELSE 0

\* The requests implement RequestPromises: every promise settles exactly
\* once, resolves only if the wallet executed that request, and settles at
\* last, whatever is lost, closed or re-sent in between.
Promises == INSTANCE RequestPromises WITH promise <- promise, executed <- executed
ImplementsPromises == Promises!Spec
=============================================================================
