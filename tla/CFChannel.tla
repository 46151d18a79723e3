------------------------------ MODULE CFChannel ------------------------------
(***************************************************************************)
(* The Cloudflare relay: one Durable Object per channel (channel.ts).      *)
(* Its fields are lost when the object hibernates and are rebuilt from     *)
(* storage and from the attachments of the sockets, which survive; one     *)
(* alarm closes a channel that is too old.                                 *)
(*                                                                         *)
(* External, from how the code uses the runtime: handlers run one at a     *)
(* time (no event is delivered while a storage operation is outstanding);  *)
(* a socket the object has closed delivers no further frame, but its close *)
(* event may come at any later time; storage has a single alarm.           *)
(*                                                                         *)
(* Abstracted: what a frame says beyond its type, sender, request id and   *)
(* target, and the reason in a terminate.                                  *)
(***************************************************************************)
EXTENDS Naturals, FiniteSets

CONSTANTS
    DApps, Wallets,         \* peer ids
    Socks,                  \* slots for the server ends of the sockets
    Ids,                    \* request ids
    NoPeer,                 \* null
    PENDING_REQUEST_LIMIT

ASSUME CFAssumption ==
    /\ DApps \cap Wallets = {} /\ NoPeer \notin DApps \cup Wallets
    /\ IsFiniteSet(Ids) /\ PENDING_REQUEST_LIMIT \in Nat

VARIABLES
    mem,        \* the fields of ChannelDO; mem.init is `initialized`
    disk,       \* storage key channelState
    alarm,      \* "off", "unpaired" or "connected": the TTL it was set with
    ws          \* ws[s]: ready state, attached role, peer at the other end

vars == <<mem, disk, alarm, ws>>

Peers == DApps \cup Wallets
States == {"none", "waiting", "pending_accept", "connected", "closed"}
Other(role) == IF role = "dapp" THEN "wallet" ELSE "dapp"

Fresh == [state |-> "none", dapp |-> NoPeer, wallet |-> NoPeer,
          reconnect |-> FALSE, pending |-> {}]
NoSocket == [rs |-> "none", role |-> "none", peer |-> NoPeer]

Init ==
    /\ mem = [f |-> Fresh, init |-> FALSE, ch |-> FALSE]
    /\ disk = Fresh
    /\ alarm = "off"
    /\ ws = [s \in Socks |-> NoSocket]

-----------------------------------------------------------------------------
(* Sockets *)

\* getWebSockets: the sockets whose close event has not been handled yet
Attached == {s \in Socks : ws[s].rs \in {"open", "closing"}}

\* The candidates of findPeerWs: attached sockets of the role that are OPEN.
findPeerWs(role) == {s \in Attached : ws[s].role = role /\ ws[s].rs = "open"}

\* The one it returns, as a set, or none.  getWebSockets promises no order.
Found(role) == IF findPeerWs(role) = {} THEN {{}} ELSE {{s} : s \in findPeerWs(role)}

closing(w, S) == [s \in Socks |-> IF s \in S THEN [w[s] EXCEPT !.rs = "closing"] ELSE w[s]]
setAttachment(w, s, role) == [w EXCEPT ![s].role = role]

-----------------------------------------------------------------------------
(* Fields and storage *)

\* Mutant: the fields are not read back from storage
ensureInitialized_forgets == [mem EXCEPT !.init = TRUE]

\* The fields a handler works with: read back from storage after hibernation,
\* with the channel id taken from any socket that has an attachment.
ensureInitialized ==
    IF mem.init THEN mem
    ELSE [f |-> disk, init |-> TRUE,
          ch |-> mem.ch \/ \E s \in Attached : ws[s].role # "none"]

\* The handler leaves the fields f behind, and persistState writes them.
persistState(f) == mem' = [ensureInitialized EXCEPT !.f = f] /\ disk' = f
untouched == mem' = ensureInitialized /\ UNCHANGED <<disk, alarm>>

\* sendAndClose: terminate the sender; nothing else changes.
sendAndClose(s) ==
    /\ ws' = closing(ws, {s})
    /\ untouched

\* fetch: accept a socket; the first one gives the object its channel id.
fetch(s) ==
    /\ ws[s].rs = "none"
    /\ \E p \in Peers : ws' = [ws EXCEPT ![s] = [rs |-> "open", role |-> "none", peer |-> p]]
    /\ mem' = [ensureInitialized EXCEPT !.ch = TRUE]
    /\ UNCHANGED <<disk, alarm>>

-----------------------------------------------------------------------------
(* Handshake.  f: the fields when the frame is handled; p: its sender. *)

\* A waiting channel is replaced, a connected one only when its dApp socket
\* is dead; the socket of the peer that loses its channel is closed.  When that
\* is the very socket of the create, the send of ready.waiting on it throws and
\* the handler ends there: no alarm, nothing persisted.
handleCreate(s, f, p) ==
    LET exists == \/ f.state = "pending_accept"
                  \/ f.state = "connected" /\ findPeerWs("dapp") # {}
        loser == CASE f.state = "waiting" -> Found("dapp")
                   [] f.state = "connected" -> Found("wallet")
                   [] OTHER -> {{}} IN
    \/ exists /\ sendAndClose(s)
    \/ /\ ~exists
       /\ \E old \in loser :
            LET new == [state |-> "waiting", dapp |-> p, wallet |-> NoPeer,
                        reconnect |-> FALSE, pending |-> {}] IN
            /\ ws' = setAttachment(closing(ws, old), s, "dapp")
            /\ IF s \in old THEN mem' = [ensureInitialized EXCEPT !.f = new] /\ UNCHANGED <<alarm, disk>>
                            ELSE alarm' = "unpaired" /\ persistState(new)

\* The join is forwarded to the dApp.  When there is no socket of the dApp, or
\* the send fails on it (its socket is broken), the channel is waiting again.
handleJoin(s, f, p, null) ==
    \/ f.state # "waiting" /\ sendAndClose(s)
    \/ /\ f.state = "waiting"
       /\ \E d \in Found("dapp") :
            \/ /\ d # {}
               /\ ws' = setAttachment(ws, s, "wallet")
               /\ persistState([f EXCEPT !.state = "pending_accept", !.wallet = p,
                                         !.reconnect = null])
            \/ /\ ws' = closing(setAttachment(ws, s, "wallet"), d \cup {s})
               /\ persistState([f EXCEPT !.wallet = NoPeer, !.reconnect = FALSE])
       /\ UNCHANGED alarm

\* Mutant: the connected channel keeps the short alarm
handleAccept_short_alarm(s, f, p, target) ==
    /\ f.state = "pending_accept" /\ ws[s].role = "dapp" /\ target = f.wallet
    /\ persistState([f EXCEPT !.state = "connected"])
    /\ UNCHANGED <<alarm, ws>>

\* ready.connected goes to both peers before the state changes; sent: those on
\* whose sockets the send succeeds.
handleAccept(s, f, p, target) ==
    LET valid == /\ ws[s].role = "dapp" /\ p = f.dapp
                 /\ f.state = "pending_accept"
                 /\ target = f.wallet IN
    \/ ~valid /\ sendAndClose(s)
    \/ /\ valid
       /\ \E d \in Found("dapp"), w \in Found("wallet") : \E sent \in SUBSET (d \cup w) :
            /\ ws' = closing(ws, (d \cup w) \ sent)
            /\ persistState([f EXCEPT !.state = IF sent = {} THEN "closed" ELSE "connected"])
            /\ alarm' = IF sent = {} THEN "off" ELSE "connected"

-----------------------------------------------------------------------------
(* Traffic *)

stateAllowsMessage(state, t, role) ==
    /\ state \notin {"closed", "none"}
    /\ \/ t \in {"ping", "pong"}
       \/ state = "pending_accept" /\ t = "accept" /\ role = "dapp"
       \/ state = "connected" /\ <<t, role>> \in {<<"req", "dapp">>, <<"res", "wallet">>, <<"evt", "wallet">>}

expectedPeerId(f, role) == IF role = "dapp" THEN f.dapp ELSE f.wallet

\* A frame for the other peer: forwarded, or dropped when that peer is absent
\* or the send fails on it.  Only req and res change the fields, and persist.
handleData(s, f, p, t, id) ==
    LET role == ws[s].role
        refused == \/ p # expectedPeerId(f, role)
                   \/ ~stateAllowsMessage(f.state, t, role)
                   \/ t = "req" /\ Cardinality(f.pending) >= PENDING_REQUEST_LIMIT
        outstanding == CASE t = "req" -> f.pending \cup {id}
                         [] t = "res" -> f.pending \ {id}
                         [] OTHER -> f.pending IN
    \/ refused /\ sendAndClose(s)
    \/ /\ ~refused
       /\ \E o \in Found(Other(role)) :
            \E sent \in SUBSET o : ws' = closing(ws, o \ sent)
       /\ persistState([f EXCEPT !.pending = outstanding])
       /\ UNCHANGED alarm

\* A close is forwarded, both sockets are closed and the channel with them.
handleClose(s, f, p) ==
    \/ p # expectedPeerId(f, ws[s].role) /\ sendAndClose(s)
    \/ /\ p = expectedPeerId(f, ws[s].role)
       /\ \E o \in Found(Other(ws[s].role)) : ws' = closing(ws, o \cup {s})
       /\ persistState([f EXCEPT !.state = "closed"])
       /\ alarm' = "off"

-----------------------------------------------------------------------------
(* Events *)

\* parseMessage: the types of the frames that parse, by the peer that sends them
MsgTypes(p) == {"ping", "pong", "close"} \cup
    IF p \in DApps THEN {"create", "accept", "req"} ELSE {"join", "res", "evt"}

\* handleFirstMessage: a socket without a role must create or join.
handleFirstMessage(s, f, p, t) ==
    CASE t = "create" -> handleCreate(s, f, p)
      [] t = "join" -> \E null \in BOOLEAN : handleJoin(s, f, p, null)
      [] OTHER -> sendAndClose(s)

\* handleMessage: a socket with a role.
handleMessage(s, f, p, t) ==
    CASE t = "create" -> IF f.dapp # NoPeer /\ p # f.dapp THEN sendAndClose(s)
                                                         ELSE handleCreate(s, f, p)
      [] t = "join" -> sendAndClose(s)
      [] t = "accept" -> \E target \in Wallets : handleAccept(s, f, p, target)
      [] t = "close" -> handleClose(s, f, p)
      [] OTHER -> \E id \in Ids : handleData(s, f, p, t, id)

\* A frame is refused before it is dispatched when it is binary, too large or
\* does not parse, and when its channel id is not the object's: a socket that
\* was idle until the object hibernated finds an object without channel id.
webSocketMessage(s) ==
    /\ ws[s].rs = "open"
    /\ \/ sendAndClose(s)
       \/ /\ ensureInitialized.ch
          /\ \E t \in MsgTypes(ws[s].peer) :
               IF ws[s].role = "none"
               THEN handleFirstMessage(s, ensureInitialized.f, ws[s].peer, t)
               ELSE handleMessage(s, ensureInitialized.f, ws[s].peer, t)

\* Mutant: the wallet leaves, the channel goes on expecting an accept
handleDisconnect_keeps_pending(s, f) ==
    IF f.state \in {"waiting", "pending_accept"} /\ ws[s].role = "dapp"
    THEN /\ ws' = [closing(ws, findPeerWs("wallet")) EXCEPT ![s] = NoSocket]
         /\ persistState([f EXCEPT !.state = "closed"])
         /\ alarm' = "off"
    ELSE ws' = [ws EXCEPT ![s] = NoSocket] /\ untouched

\* Before the channel is connected, a dApp socket that goes closes it and a
\* wallet socket that goes makes it wait again.  Nothing asks whether the
\* socket is still the one the channel uses.
handleDisconnect(s, f) ==
    LET early == ensureInitialized.ch /\ f.state \in {"waiting", "pending_accept"}
        closes == early /\ ws[s].role = "dapp"
        reverts == early /\ ws[s].role = "wallet" /\ f.state = "pending_accept" IN
    \/ /\ closes
       /\ \E w \in Found("wallet") : ws' = [closing(ws, w) EXCEPT ![s] = NoSocket]
       /\ persistState([f EXCEPT !.state = "closed"])
       /\ alarm' = "off"
    \/ /\ reverts
       /\ ws' = [ws EXCEPT ![s] = NoSocket]
       /\ persistState([f EXCEPT !.state = "waiting", !.wallet = NoPeer, !.reconnect = FALSE])
       /\ alarm' = "unpaired"
    \/ /\ ~closes /\ ~reverts
       /\ ws' = [ws EXCEPT ![s] = NoSocket]
       /\ untouched

\* webSocketClose, webSocketError: the peer went away, or the event of a
\* socket that the object closed arrives.
webSocketClose(s) ==
    /\ s \in Attached
    /\ handleDisconnect(s, ensureInitialized.f)

\* Mutant: the alarm of a channel that is not yet connected is put off
alarm_postponed ==
    /\ alarm # "off"
    /\ IF ensureInitialized.f.state \in {"waiting", "pending_accept"}
       THEN mem' = ensureInitialized /\ UNCHANGED <<ws, disk, alarm>>
       ELSE ws' = closing(ws, Attached) /\ alarm' = "off"
            /\ persistState([ensureInitialized.f EXCEPT !.state = "closed"])

\* alarm(): close everything, unless the channel id is not known.
alarm_fires ==
    /\ alarm # "off"
    /\ alarm' = "off"
    /\ IF ensureInitialized.ch
       THEN ws' = closing(ws, Attached) /\ persistState([ensureInitialized.f EXCEPT !.state = "closed"])
       ELSE mem' = ensureInitialized /\ UNCHANGED <<ws, disk>>

\* External: between two events the runtime may drop the fields; the sockets,
\* their attachments, storage and the alarm remain.
hibernate ==
    /\ mem.init
    /\ mem' = [f |-> Fresh, init |-> FALSE, ch |-> FALSE]
    /\ UNCHANGED <<disk, alarm, ws>>

Next ==
    \/ \E s \in Socks : fetch(s) \/ webSocketMessage(s) \/ webSocketClose(s)
    \/ alarm_fires
    \/ hibernate

\* The runtime delivers an alarm that is set.
Spec == Init /\ [][Next]_vars /\ WF_vars(alarm_fires)

-----------------------------------------------------------------------------
(* Properties *)

Fields ==
    [state : States, dapp : Peers \cup {NoPeer}, wallet : Peers \cup {NoPeer},
     reconnect : BOOLEAN, pending : SUBSET Ids]

\* The fields have their types and no more requests are outstanding than
\* PENDING_REQUEST_LIMIT allows.
TypeOK ==
    /\ mem \in [f : Fields, init : BOOLEAN, ch : BOOLEAN]
    /\ disk \in Fields
    /\ alarm \in {"off", "unpaired", "connected"}
    /\ ws \in [Socks -> [rs : {"none", "open", "closing"}, role : {"none", "dapp", "wallet"},
                         peer : Peers \cup {NoPeer}]]
    /\ Cardinality(disk.pending) <= PENDING_REQUEST_LIMIT

\* Every handler ends with what it changed in storage: an object that hibernates
\* at any moment wakes up with the fields it had.
DiskCurrent == mem.init => mem.f = disk

\* A channel in use has an alarm, with the TTL of its state, as long as a socket
\* of it remains: setAlarm in create, accept and in the wallet's disconnect,
\* deleteAlarm only where the channel closes.
ExpiryArmed ==
    /\ disk.state \in {"waiting", "pending_accept", "connected"}
    /\ \E s \in Attached : ws[s].role # "none"
    => alarm = IF disk.state = "connected" THEN "connected" ELSE "unpaired"

\* A channel that refuses creates and joins because an accept is expected has
\* that wallet still attached: its disconnect puts the channel back to waiting.
PendingHasWallet ==
    disk.state = "pending_accept" =>
        \E s \in Attached : ws[s].role = "wallet" /\ ws[s].peer = disk.wallet

\* A channel that is not yet connected does not stay so: the alarm closes it.
UnpairedEnds ==
    disk.state \in {"waiting", "pending_accept"} ~> disk.state \in {"connected", "closed"}
=============================================================================
