---------------------------- MODULE RelayChannel ----------------------------
(***************************************************************************)
(* One channel of the Rust WebSocket relay: the entry a ChannelStore shard *)
(* holds for it (state.rs, store.rs), the handlers that run under the      *)
(* shard lock (relay.rs) and the connection tasks that call them           *)
(* (session.rs).  Channels do not interact except through the global       *)
(* channel counter, which RelayCapacity models; here at_capacity is an     *)
(* arbitrary boolean.                                                      *)
(*                                                                         *)
(* A connection task reads a frame, runs one handler under the lock and    *)
(* either loops or breaks; the cleanup after the loop takes the lock       *)
(* again, so other tasks may run in between (`exiting`).  Every task owns  *)
(* an outbound mpsc queue of QueueSize slots drained by a write task; the  *)
(* queue is closed once the write task ended (`deaf`).                     *)
(***************************************************************************)
EXTENDS Naturals, Sequences, FiniteSets

CONSTANTS
    Conns,          \* connection ids (conn_counter of http.rs), never reused
    PeerOf,         \* PeerOf[c]: public key of the client that opens c
    DApps,          \* public keys that create the channel
    Wallets,        \* public keys that join it
    Ids,            \* request ids
    QueueSize,      \* config.outbound_queue_size
    PendingLimit,   \* config.pending_request_limit
    Setups,         \* the instances: clients, their messages, kind of process
    None            \* Rust's Option::None

ASSUME RelayAssumption ==
    /\ DApps \cap Wallets = {}
    /\ None \notin Conns \cup DApps \cup Wallets
    /\ PeerOf \in [Conns -> DApps \cup Wallets]
    /\ QueueSize \in Nat \ {0}
    /\ PendingLimit \in Nat
    /\ Setups \subseteq [conns : SUBSET Conns, types : SUBSET STRING,
                          stateFile : BOOLEAN, mayStop : BOOLEAN]

VARIABLES
    setup,      \* the setup of this behaviour
    chan,       \* the channel's entry in the shard, or None
    task,       \* task[c]: new, open, bound (has a SessionBinding), exiting, gone
    outq,       \* outq[c]: outbound queue of c
    deaf,       \* connections whose write task ended: sender.is_closed()
    notices,    \* slow consumers a spawned task still has to send a terminate
    file,       \* the channel's entry in the state file, or None
    stage       \* the process: running, stopping (signalled), saved

vars  == <<chan, task, outq, deaf, notices, file, stage>>
disk  == <<file, stage>>

Types     == setup.types        \* message types the clients send
StateFile == setup.stateFile    \* whether config.state_file is set
MayStop   == setup.mayStop      \* whether the process may end

Peers == DApps \cup Wallets

-----------------------------------------------------------------------------
(* Messages: `t` and the fields the relay reads; payloads are opaque.      *)

Create(p)        == [t |-> "create", from |-> p]
Join(p, null)    == [t |-> "join", from |-> p, sealedNull |-> null]
Accept(p, w)     == [t |-> "accept", from |-> p, target |-> w]
Data(ty, p, id)  == [t |-> ty, from |-> p, id |-> id]
Close(p)         == [t |-> "close", from |-> p]

DataTypes == {"req", "res", "evt", "ping", "pong"}

PeerMsg ==
         {Create(d) : d \in DApps}
    \cup {Join(w, n) : w \in Wallets, n \in BOOLEAN}
    \cup {Accept(p, w) : p \in Peers, w \in Wallets}
    \cup {Data(ty, p, id) : ty \in {"req", "res"}, p \in Peers, id \in Ids}
    \cup {Data(ty, p, None) : ty \in {"evt", "ping", "pong"}, p \in Peers}
    \cup {Close(p) : p \in Peers}

\* What the client on c may send: any message of its own, at any time
Sends == [c \in Conns |-> {m \in PeerMsg : m.from = PeerOf[c]}]

ReadyWaiting(p, rc)      == [t |-> "ready", state |-> "waiting", self |-> p,
                             remote |-> None, reconnect |-> rc]
ReadyConnected(p, q, rc) == [t |-> "ready", state |-> "connected", self |-> p,
                             remote |-> q, reconnect |-> rc]
Terminate(why)           == [t |-> "terminate", reason |-> why]

Reasons == {"channel_exists", "channel_not_found", "already_connected",
            "invalid_role", "invalid_state", "protocol_error", "rate_limited",
            "timeout"}

RelayMsg ==
         {ReadyWaiting(p, rc) : p \in Peers, rc \in BOOLEAN}
    \cup {ReadyConnected(p, q, rc) : p \in Peers, q \in Peers, rc \in BOOLEAN}
    \cup {Terminate(why) : why \in Reasons}

-----------------------------------------------------------------------------
(* state.rs *)

Channel ==
    [state      : {"waiting_for_wallet", "pending_accept", "connected"},
     dapp       : DApps,
     dappConn   : Conns \cup {None},
     wallet     : Wallets \cup {None},
     walletConn : Conns \cup {None},
     reconnect  : BOOLEAN,
     pending    : SUBSET Ids]

NewChannel(d, c) ==
    [state |-> "waiting_for_wallet", dapp |-> d, dappConn |-> c,
     wallet |-> None, walletConn |-> None, reconnect |-> FALSE, pending |-> {}]

role_of(p) == CASE p = chan.dapp   -> "dapp"
                [] p = chan.wallet -> "wallet"
                [] OTHER           -> None

other_conn(role) == IF role = "dapp" THEN chan.walletConn ELSE chan.dappConn

allows_message(state, ty, role) ==
    \/ ty \in {"ping", "pong"}
    \/ state = "connected" /\ role = "dapp"   /\ ty = "req"
    \/ state = "connected" /\ role = "wallet" /\ ty \in {"res", "evt"}

-----------------------------------------------------------------------------
(* Connection tasks *)

InLoop == {c \in Conns : task[c] \in {"open", "bound"}}

leave_loop(c) == task' = [task EXCEPT ![c] = "exiting"]
stay(c)       == task' = [task EXCEPT ![c] = "bound"]

\* mpsc try_send: false when the queue is full or its receiver is dropped
Fits(c) == c \notin deaf /\ Len(outq[c]) < QueueSize

try_send(c, m) == outq' = IF Fits(c) THEN [outq EXCEPT ![c] = Append(@, m)] ELSE outq

\* One message for each of two connections, either of which may be absent
try_send_both(c, m, d, n) ==
    outq' = [x \in Conns |-> IF x = c /\ Fits(x) THEN Append(outq[x], m)
                        ELSE IF x = d /\ Fits(x) THEN Append(outq[x], n)
                        ELSE outq[x]]

\* ProcessResult::Reject: queue the terminate, then leave the read loop
Reject(c, why) ==
    /\ try_send(c, Terminate(why))
    /\ leave_loop(c)
    /\ UNCHANGED <<chan, notices>>

-----------------------------------------------------------------------------
(* relay.rs handlers, run by the task of c under the shard lock.  Each one *)
(* determines chan', task', outq' and notices'.                            *)

\* A waiting channel is replaced, a connected one only if its dApp is dead
dapp_dead == chan.dappConn = None \/ chan.dappConn \in deaf

Vacant ==
    chan # None => \/ chan.state = "waiting_for_wallet"
                   \/ chan.state = "connected" /\ dapp_dead

handle_create(c, m, at_capacity) ==
    \/ /\ ~Vacant
       /\ Reject(c, "channel_exists")
    \/ /\ Vacant
       /\ at_capacity
       /\ chan' = None            \* remove_channel has already happened
       /\ try_send(c, Terminate("rate_limited"))
       /\ leave_loop(c)
       /\ UNCHANGED notices
    \/ /\ Vacant
       /\ ~at_capacity
       /\ chan' = NewChannel(m.from, c)
       /\ try_send(c, ReadyWaiting(m.from, FALSE))
       /\ stay(c) /\ UNCHANGED notices

\* Mutant: a join is also taken on a channel that is pending or connected
handle_join_any_state(c, m) ==
    \/ /\ chan = None
       /\ Reject(c, "channel_not_found")
    \/ /\ chan # None
       /\ chan' = [chan EXCEPT !.state = "pending_accept", !.wallet = m.from,
                               !.walletConn = c, !.reconnect = m.sealedNull]
       /\ try_send_both(chan.dappConn, m, c, ReadyWaiting(m.from, m.sealedNull))
       /\ stay(c) /\ UNCHANGED notices

handle_join(c, m) ==
    \/ /\ chan = None
       /\ Reject(c, "channel_not_found")
    \/ /\ chan # None /\ chan.state # "waiting_for_wallet"
       /\ Reject(c, "already_connected")
    \/ /\ chan # None /\ chan.state = "waiting_for_wallet"
       /\ chan' = [chan EXCEPT !.state = "pending_accept", !.wallet = m.from,
                               !.walletConn = c, !.reconnect = m.sealedNull]
       /\ try_send_both(chan.dappConn, m, c, ReadyWaiting(m.from, m.sealedNull))
       /\ stay(c) /\ UNCHANGED notices

handle_accept(c, m) ==
    \/ /\ chan = None
       /\ Reject(c, "channel_not_found")
    \/ /\ chan # None /\ m.from # chan.dapp
       /\ Reject(c, "invalid_role")
    \/ /\ chan # None /\ m.from = chan.dapp /\ chan.state # "pending_accept"
       /\ Reject(c, "invalid_state")
    \/ /\ chan # None /\ m.from = chan.dapp /\ chan.state = "pending_accept"
       /\ m.target # chan.wallet
       /\ Reject(c, "protocol_error")
    \/ /\ chan # None /\ m.from = chan.dapp /\ chan.state = "pending_accept"
       /\ m.target = chan.wallet
       /\ chan' = [chan EXCEPT !.state = "connected"]
       /\ try_send_both(chan.dappConn,
                        ReadyConnected(m.from, chan.wallet, chan.reconnect),
                        chan.walletConn,
                        ReadyConnected(chan.wallet, m.from, chan.reconnect))
       /\ stay(c) /\ UNCHANGED notices

\* Forward m to the other peer.  One whose queue is full or closed is a slow
\* consumer: it is unregistered and a task is spawned to tell it.
forward(c, m, pend) ==
    LET role  == role_of(m.from)
        other == other_conn(role)
    IN  \/ /\ other = None
           /\ chan' = [chan EXCEPT !.pending = pend]
           /\ stay(c) /\ UNCHANGED <<outq, notices>>
        \/ /\ other # None /\ Fits(other)
           /\ chan' = [chan EXCEPT !.pending = pend]
           /\ try_send(other, m)
           /\ stay(c) /\ UNCHANGED notices
        \/ /\ other # None /\ ~Fits(other)
           /\ chan' = IF role = "dapp"
                      THEN [chan EXCEPT !.pending = pend, !.walletConn = None]
                      ELSE [chan EXCEPT !.pending = pend, !.dappConn = None]
           /\ notices' = notices \cup {other}
           /\ stay(c) /\ UNCHANGED outq

handle_data(c, m) ==
    \/ /\ chan = None
       /\ Reject(c, "channel_not_found")
    \/ /\ chan # None /\ role_of(m.from) = None
       /\ Reject(c, "invalid_role")
    \/ /\ chan # None /\ role_of(m.from) # None
       /\ ~allows_message(chan.state, m.t, role_of(m.from))
       /\ Reject(c, IF chan.state # "connected" THEN "invalid_state"
                                                ELSE "invalid_role")
    \/ /\ chan # None /\ role_of(m.from) # None
       /\ allows_message(chan.state, m.t, role_of(m.from))
       /\ \/ /\ m.t = "req" /\ Cardinality(chan.pending) >= PendingLimit
             /\ Reject(c, "rate_limited")
          \/ /\ m.t = "req" /\ Cardinality(chan.pending) < PendingLimit
             /\ forward(c, m, chan.pending \cup {m.id})
          \/ /\ m.t = "res"
             /\ forward(c, m, chan.pending \ {m.id})
          \/ /\ m.t \notin {"req", "res"}
             /\ forward(c, m, chan.pending)

handle_close(c, m) ==
    \/ /\ chan = None
       /\ stay(c) /\ UNCHANGED <<chan, outq, notices>>
    \/ /\ chan # None /\ role_of(m.from) = None
       /\ Reject(c, "invalid_role")
    \/ /\ chan # None /\ role_of(m.from) # None
       /\ chan' = None
       /\ try_send_both(other_conn(role_of(m.from)), m, None, m)
       /\ stay(c) /\ UNCHANGED notices

process_message(c, m, at_capacity) ==
    \/ m.t = "create" /\ handle_create(c, m, at_capacity)
    \/ m.t = "join"   /\ handle_join(c, m)
    \/ m.t = "accept" /\ handle_accept(c, m)
    \/ m.t \in DataTypes /\ handle_data(c, m)
    \/ m.t = "close"  /\ handle_close(c, m)

-----------------------------------------------------------------------------
(* http.rs and session.rs: one action per step of a connection's tasks *)

ws_upgrade(c) ==
    /\ c \in setup.conns
    /\ task[c] = "new" /\ stage = "running"
    /\ task' = [task EXCEPT ![c] = "open"]
    /\ UNCHANGED <<chan, outq, deaf, notices, disk>>

\* A well-formed frame for this channel; the first one must be create or join
Receive(c, m, at_capacity) ==
    /\ c \in InLoop
    /\ task[c] = "bound" \/ m.t \in {"create", "join"}
    /\ process_message(c, m, at_capacity)
    /\ UNCHANGED <<deaf, disk>>

\* A frame the read loop itself refuses: binary, too large, unparsable, for
\* another channel (protocol_error stands for the reasons of all of these);
\* or, before the binding, one that is neither create nor join, or a create
\* over the per-IP rate
RefuseFrame(c, why) ==
    /\ c \in InLoop
    /\ \/ why = "protocol_error"
       \/ task[c] = "open" /\ why \in {"invalid_state", "rate_limited"}
    /\ Reject(c, why)
    /\ UNCHANGED <<deaf, disk>>

\* The stream ends: the client closes it, or a read fails
StreamEnd(c) ==
    /\ c \in InLoop
    /\ leave_loop(c)
    /\ UNCHANGED <<chan, outq, deaf, notices, disk>>

\* Mutant: the late cleanup of a connection unregisters its peer's newer one
disconnect_by_peer(c) ==
    CASE chan = None -> None
      [] chan # None /\ PeerOf[c] = chan.dapp -> [chan EXCEPT !.dappConn = None]
      [] chan # None /\ PeerOf[c] = chan.wallet -> [chan EXCEPT !.walletConn = None]
      [] OTHER -> chan
\* Mutant: the slot of a finished task is kept
disconnect_nobody(c) == chan

disconnect_by_conn_id(c) ==
    CASE chan = None         -> None
      [] chan # None /\ chan.dappConn = c -> [chan EXCEPT !.dappConn = None]
      [] chan # None /\ chan.dappConn # c /\ chan.walletConn = c
                             -> [chan EXCEPT !.walletConn = None]
      [] OTHER               -> chan

\* After the loop: disconnect_peer under the lock, and the task is over
Cleanup(c) ==
    /\ task[c] = "exiting"
    /\ chan' = disconnect_by_conn_id(c)
    /\ task' = [task EXCEPT ![c] = "gone"]
    /\ UNCHANGED <<outq, deaf, notices, disk>>

\* The write task sends the head of the queue, or fails and drops the queue
Deliver(c) ==
    /\ outq[c] # <<>>
    /\ outq' = [outq EXCEPT ![c] = Tail(@)]
    /\ UNCHANGED <<chan, task, deaf, notices, disk>>

WriteFails(c) ==
    /\ outq[c] # <<>>
    /\ outq' = [outq EXCEPT ![c] = <<>>]
    /\ deaf' = deaf \cup {c}
    /\ UNCHANGED <<chan, task, notices, disk>>

\* The task spawned for a slow consumer: send() gets a slot, or it gives up
SlowConsumerNotice(c) ==
    /\ c \in notices
    /\ try_send(c, Terminate("rate_limited")) \/ UNCHANGED outq
    /\ notices' = notices \ {c}
    /\ UNCHANGED <<chan, task, deaf, disk>>

-----------------------------------------------------------------------------
(* store.rs sweep, main.rs shutdown, persist.rs *)

terminate_peers ==
    try_send_both(chan.dappConn, Terminate("timeout"),
                  chan.walletConn, Terminate("timeout"))

\* How old the channel is when a sweep finds it is arbitrary
cleanup_expired ==
    /\ chan # None
    /\ chan' = None
    /\ terminate_peers
    /\ UNCHANGED <<task, deaf, notices, disk>>

wait_for_signal ==
    /\ MayStop /\ stage = "running"
    /\ stage' = "stopping"
    /\ UNCHANGED <<chan, task, outq, deaf, notices, file>>

\* select! in the read loop sees the broadcast
ShutdownTask(c) ==
    /\ stage # "running" /\ c \in InLoop
    /\ IF task[c] = "bound" THEN try_send(c, Terminate("timeout")) ELSE UNCHANGED outq
    /\ leave_loop(c)
    /\ UNCHANGED <<chan, deaf, notices, disk>>

\* What persist.rs writes and reads back of a channel
persisted == IF chan = None THEN None
             ELSE [chan EXCEPT !.dappConn = None, !.walletConn = None,
                               !.reconnect = FALSE]

save_state ==
    /\ stage = "stopping"
    /\ stage' = "saved"
    /\ chan' = None
    /\ file' = IF StateFile THEN persisted ELSE file
    /\ IF StateFile \/ chan = None THEN UNCHANGED outq ELSE terminate_peers
    /\ UNCHANGED <<task, deaf, notices>>

\* The process ends, after a shutdown or in a crash, and starts again:
\* load_or_new takes the channel from the file and deletes the file
Restart ==
    /\ MayStop
    /\ chan' = file
    /\ file' = None
    /\ task' = [c \in Conns |-> IF task[c] = "new" THEN "new" ELSE "gone"]
    /\ outq' = [c \in Conns |-> <<>>]
    /\ notices' = {}
    /\ stage' = "running"
    /\ UNCHANGED deaf

-----------------------------------------------------------------------------
Init ==
    /\ setup \in Setups
    /\ chan = None
    /\ task = [c \in Conns |-> "new"]
    /\ outq = [c \in Conns |-> <<>>]
    /\ deaf = {}
    /\ notices = {}
    /\ file = None
    /\ stage = "running"

ConnStep(c) ==
    \/ ws_upgrade(c)
    \/ \E m \in Sends[c] : m.t \in Types /\
          \E cap \in (IF m.t = "create" THEN BOOLEAN ELSE {FALSE}) : Receive(c, m, cap)
    \/ \E why \in Reasons : RefuseFrame(c, why)
    \/ StreamEnd(c)
    \/ Cleanup(c)
    \/ Deliver(c)
    \/ WriteFails(c)
    \/ SlowConsumerNotice(c)
    \/ ShutdownTask(c)

Next ==
    \/ \E c \in Conns : ConnStep(c)
    \/ cleanup_expired
    \/ wait_for_signal
    \/ save_state
    \/ Restart

Spec == Init /\ [][Next /\ UNCHANGED setup]_<<vars, setup>>

-----------------------------------------------------------------------------
(* Properties *)

\* Entries, queues and tasks have their types
TypeOK ==
    /\ chan \in Channel \cup {None}
    /\ task \in [Conns -> {"new", "open", "bound", "exiting", "gone"}]
    /\ outq \in [Conns -> Seq(PeerMsg \cup RelayMsg)]
    /\ deaf \subseteq Conns
    /\ notices \subseteq Conns
    /\ file \in Channel \cup {None}
    /\ stage \in {"running", "stopping", "saved"}

\* The handshake fields agree with the state, and no more requests are
\* outstanding than pending_request_limit
WellFormed(ch) ==
    ch # None =>
      /\ ch.state = "waiting_for_wallet" <=> ch.wallet = None
      /\ ch.wallet = None => ch.walletConn = None
      /\ ch.state # "connected" => ch.pending = {}
      /\ Cardinality(ch.pending) <= PendingLimit

\* A registered connection has a task that can still clean it up, and belongs
\* to the peer it is registered for
Live(c, peer) == c # None => task[c] \in {"bound", "exiting"} /\ PeerOf[c] = peer

\* The entry is sound, in memory and in the state file: a waiting channel knows
\* no wallet and any other does, requests are outstanding only on a connected
\* one and within the limit, and no order of reconnects, drops, sweeps,
\* shutdowns, reloads and late cleanups leaves it pointing at a dead task or at
\* the other role's socket.
EntrySound ==
    /\ TypeOK /\ WellFormed(chan) /\ WellFormed(file)
    /\ chan # None => Live(chan.dappConn, chan.dapp) /\ Live(chan.walletConn, chan.wallet)

\* Between its creation and its removal a channel keeps its wallet: a step
\* changes a wallet that has joined only by removing the channel, by starting
\* over with a waiting one, or by loading the state file in a new process.
WalletPinned ==
    [][(chan # None /\ chan.wallet # None /\ chan' # None) =>
          \/ chan'.wallet = chan.wallet /\ chan'.dapp = chan.dapp
          \/ chan'.state = "waiting_for_wallet"
          \/ stage = "saved" /\ chan' = file]_vars

\* A connection that is open and keeps up is not unregistered behind its
\* back: while the channel lives it loses its slot only by leaving its read
\* loop, by being slow, by a newer create, or with the process.
KeepsRegistration ==
    [][\A c \in InLoop :
         /\ chan # None /\ chan' # None
         /\ task'[c] = "bound" /\ Fits(c)
         => /\ (chan.dappConn = c => chan'.dappConn # None)
            /\ (chan.walletConn = c =>
                   chan'.walletConn = c \/ chan'.state = "waiting_for_wallet")]_vars
=============================================================================
