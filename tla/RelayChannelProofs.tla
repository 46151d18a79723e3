------------------------- MODULE RelayChannelProofs -------------------------
(***************************************************************************)
(* Proofs about RelayChannel, for any clients, connections, request ids    *)
(* and limits: the entry of a channel is sound, a wallet that has joined   *)
(* keeps its place, and a connection that keeps up is not unregistered.    *)
(*                                                                         *)
(* EntrySound is not inductive: what Restart loads must not name           *)
(* connections of the process before, a file must be there only after a    *)
(* shutdown, and the pending set must be finite to be counted (OnDisk).    *)
(***************************************************************************)
EXTENDS RelayChannel, FiniteSetTheorems, TLAPS

\* Time for the slower leaves
USE SMTT(30), ZenonT(30)

OnDisk ==
    /\ chan # None => IsFiniteSet(chan.pending)
    /\ file # None => /\ stage = "saved" /\ IsFiniteSet(file.pending)
                      /\ file.dappConn = None /\ file.walletConn = None

IInv == EntrySound /\ OnDisk

\* What WalletPinned and KeepsRegistration say of one step
Pins ==
    (chan # None /\ chan.wallet # None /\ chan' # None) =>
        \/ chan'.wallet = chan.wallet /\ chan'.dapp = chan.dapp
        \/ chan'.state = "waiting_for_wallet"
        \/ stage = "saved" /\ chan' = file

Keeps ==
    \A c \in InLoop :
        /\ chan # None /\ chan' # None
        /\ task'[c] = "bound" /\ Fits(c)
        => /\ (chan.dappConn = c => chan'.dappConn # None)
           /\ (chan.walletConn = c =>
                  chan'.walletConn = c \/ chan'.state = "waiting_for_wallet")

Good == IInv' /\ Pins /\ Keeps

\* A registered connection after a step
Registered(c, peer) == c # None => task'[c] \in {"bound", "exiting"} /\ PeerOf[c] = peer

Msgs == PeerMsg \cup RelayMsg
Queues(q) == q \in [Conns -> Seq(Msgs)]
TaskStates == {"new", "open", "bound", "exiting", "gone"}

-----------------------------------------------------------------------------
(* Messages and queues *)

\* What the fields of a peer's message are.
LEMMA PeerMsgFields ==
    ASSUME NEW m \in PeerMsg
    PROVE  /\ m.from \in Peers
           /\ m.t = "create" => m.from \in DApps
           /\ m.t = "join" => m.from \in Wallets /\ m.sealedNull \in BOOLEAN
           /\ m.t = "accept" => m.target \in Wallets
           /\ m.t \in {"req", "res"} => m.id \in Ids
           /\ m.t \in {"create", "join", "accept", "req", "res", "evt", "ping", "pong", "close"}
BY DEF PeerMsg, Create, Join, Accept, Data, Close, Peers

\* The relay's own messages.
LEMMA RelayMsgTypes ==
    /\ \A p \in Peers, rc \in BOOLEAN : ReadyWaiting(p, rc) \in Msgs
    /\ \A p, q \in Peers, rc \in BOOLEAN : ReadyConnected(p, q, rc) \in Msgs
    /\ \A why \in Reasons : Terminate(why) \in Msgs
BY DEF Msgs, RelayMsg

\* try_send adds at most the message.
LEMMA Sent ==
    ASSUME Queues(outq), NEW c, NEW m \in Msgs, try_send(c, m)
    PROVE  Queues(outq')
<1>1. CASE c \in Conns /\ Fits(c)
  <2>1. outq' = [outq EXCEPT ![c] = Append(@, m)]  BY <1>1 DEF try_send
  <2>2. outq[c] \in Seq(Msgs)  BY <1>1 DEF Queues
  <2>3. Append(outq[c], m) \in Seq(Msgs)  BY <2>2
  <2> QED BY ZenonT(30), <2>1, <2>3 DEF Queues
<1>2. CASE c \notin Conns
  BY ZenonT(30), <1>2 DEF try_send, Queues
<1>3. CASE ~Fits(c)
  BY <1>3 DEF try_send
<1> QED BY <1>1, <1>2, <1>3

\* So does try_send_both, for either connection.
LEMMA SentBoth ==
    ASSUME Queues(outq), NEW c, NEW m \in Msgs, NEW d, NEW n \in Msgs, try_send_both(c, m, d, n)
    PROVE  Queues(outq')
<1>1. ASSUME NEW x \in Conns
      PROVE  /\ outq[x] \in Seq(Msgs)
             /\ Append(outq[x], m) \in Seq(Msgs) /\ Append(outq[x], n) \in Seq(Msgs)
  <2>1. outq[x] \in Seq(Msgs)  BY DEF Queues
  <2> QED BY <2>1
<1> QED BY <1>1 DEF try_send_both, Queues

-----------------------------------------------------------------------------
(* Steps *)

\* The parts of the invariant before a step.
LEMMA Before ==
    ASSUME IInv
    PROVE  /\ chan \in Channel \cup {None} /\ file \in Channel \cup {None}
           /\ task \in [Conns -> TaskStates] /\ Queues(outq)
           /\ deaf \subseteq Conns /\ notices \subseteq Conns
           /\ stage \in {"running", "stopping", "saved"}
           /\ WellFormed(chan) /\ WellFormed(file) /\ OnDisk
           /\ chan # None => Live(chan.dappConn, chan.dapp) /\ Live(chan.walletConn, chan.wallet)
BY DEF IInv, EntrySound, TypeOK, Queues, TaskStates, Msgs

\* A step that leaves the entry alone and ends no task.
LEMMA Quiet ==
    ASSUME IInv, UNCHANGED <<chan, file, stage>>,
           task' \in [Conns -> TaskStates], Queues(outq'), deaf' \subseteq Conns, notices' \subseteq Conns,
           \A c \in Conns : task[c] \in {"bound", "exiting"} => task'[c] \in {"bound", "exiting"}
    PROVE  Good
<1> USE Before
<1>1. TypeOK'  BY DEF TypeOK, Queues, TaskStates, Msgs
<1>2. WellFormed(chan') /\ WellFormed(file') /\ OnDisk'  BY DEF OnDisk
<1>3. chan # None => chan.dappConn \in Conns \cup {None} /\ chan.walletConn \in Conns \cup {None}
  BY DEF Channel
<1>4. EntrySound'  BY <1>1, <1>2, <1>3 DEF EntrySound, WellFormed, Live
<1>5. Pins /\ Keeps  BY <1>3, RelayAssumption DEF Pins, Keeps, InLoop
<1> QED BY <1>2, <1>4, <1>5 DEF Good, IInv

\* A refused frame: only the task and its queue change.
LEMMA RejectStep ==
    ASSUME IInv, NEW c \in InLoop, NEW why \in Reasons, Reject(c, why), UNCHANGED <<deaf, file, stage>>
    PROVE  Good
<1> USE Before
<1>1. Queues(outq')  BY Sent, RelayMsgTypes DEF Reject
<1>2. /\ task' = [task EXCEPT ![c] = "exiting"] /\ UNCHANGED <<chan, notices>>
      /\ c \in Conns /\ task[c] \in {"open", "bound"}
  BY DEF Reject, leave_loop, InLoop
<1>3. /\ task' \in [Conns -> TaskStates]
      /\ \A d \in Conns : task[d] \in {"bound", "exiting"} => task'[d] \in {"bound", "exiting"}
  BY <1>2 DEF TaskStates
<1> QED BY <1>1, <1>2, <1>3, Quiet

\* A step that gives the channel a sound entry, or none, and leaves the disk.
LEMMA NewEntry ==
    ASSUME IInv, UNCHANGED <<file, stage>>,
           task' \in [Conns -> TaskStates], Queues(outq'), deaf' \subseteq Conns, notices' \subseteq Conns,
           chan' \in Channel \cup {None}, WellFormed(chan'),
           chan' # None => /\ IsFiniteSet(chan'.pending)
                           /\ Registered(chan'.dappConn, chan'.dapp)
                           /\ Registered(chan'.walletConn, chan'.wallet)
    PROVE  IInv'
<1> USE Before
<1>1. TypeOK'  BY DEF TypeOK, Queues, TaskStates, Msgs
<1>2. WellFormed(chan)' /\ WellFormed(file)'  BY DEF WellFormed
<1>3. OnDisk'  BY DEF OnDisk
<1>4. EntrySound'  BY <1>1, <1>2 DEF EntrySound, Live, Registered
<1> QED BY <1>3, <1>4 DEF IInv

\* A task that goes on reading is bound, and no other changes.
LEMMA Stays ==
    ASSUME IInv, NEW c \in InLoop, stay(c)
    PROVE  /\ c \in Conns /\ c # None /\ task' \in [Conns -> TaskStates] /\ task'[c] = "bound"
           /\ \A d \in Conns : task[d] \in {"bound", "exiting"} => task'[d] \in {"bound", "exiting"}
BY Before, RelayAssumption DEF InLoop, stay, TaskStates

\* The same for one that leaves its loop.
LEMMA Leaves ==
    ASSUME IInv, NEW c \in InLoop, leave_loop(c)
    PROVE  /\ c \in Conns /\ c # None /\ task' \in [Conns -> TaskStates] /\ task'[c] = "exiting"
           /\ \A d \in Conns : task[d] \in {"bound", "exiting"} => task'[d] \in {"bound", "exiting"}
BY Before, RelayAssumption DEF InLoop, leave_loop, TaskStates

\* The fields of a channel that is there.
LEMMA Fields ==
    ASSUME IInv, chan # None
    PROVE  /\ chan \in Channel
           /\ chan.state \in {"waiting_for_wallet", "pending_accept", "connected"}
           /\ chan.dapp \in DApps /\ chan.wallet \in Wallets \cup {None}
           /\ chan.dappConn \in Conns \cup {None} /\ chan.walletConn \in Conns \cup {None}
           /\ chan.reconnect \in BOOLEAN /\ chan.pending \subseteq Ids /\ IsFiniteSet(chan.pending)
           /\ chan.state = "waiting_for_wallet" <=> chan.wallet = None
           /\ chan.wallet = None => chan.walletConn = None
           /\ chan.state # "connected" => chan.pending = {}
           /\ Cardinality(chan.pending) <= PendingLimit
           /\ Live(chan.dappConn, chan.dapp) /\ Live(chan.walletConn, chan.wallet)
BY Before DEF Channel, WellFormed, OnDisk

\* Removing the channel is sound whatever the tasks do.
LEMMA Removed ==
    ASSUME IInv, UNCHANGED <<file, stage>>, chan' = None,
           task' \in [Conns -> TaskStates], Queues(outq'), deaf' \subseteq Conns, notices' \subseteq Conns
    PROVE  Good
<1>1. WellFormed(chan')  BY DEF WellFormed
<1>2. IInv'  BY <1>1, NewEntry
<1> QED BY <1>2 DEF Good, Pins, Keeps

-----------------------------------------------------------------------------
(* The handlers *)

\* create: a waiting entry for the client on c.
LEMMA CreateStep ==
    ASSUME IInv, NEW c \in InLoop, NEW m \in Sends[c], m.t = "create", NEW cap,
           handle_create(c, m, cap), UNCHANGED <<deaf, file, stage>>
    PROVE  Good
<1> USE Before
<1>0. c \in Conns /\ c # None /\ m \in PeerMsg /\ m.from = PeerOf[c] /\ m.from \in DApps
  BY PeerMsgFields, RelayAssumption DEF InLoop, Sends
<1>1. CASE Reject(c, "channel_exists")
  BY <1>1, RejectStep DEF Reasons
<1>2. CASE chan' = None /\ try_send(c, Terminate("rate_limited")) /\ leave_loop(c) /\ UNCHANGED notices
  <2>1. Terminate("rate_limited") \in Msgs  BY RelayMsgTypes DEF Reasons
  <2>2. Queues(outq')  BY <1>2, <2>1, Sent
  <2> QED BY <1>2, <2>2, Leaves, Removed
<1>3. CASE /\ chan' = NewChannel(m.from, c) /\ try_send(c, ReadyWaiting(m.from, FALSE))
           /\ stay(c) /\ UNCHANGED notices
  <2>1. ReadyWaiting(m.from, FALSE) \in Msgs  BY ZenonT(30), <1>0, RelayMsgTypes DEF Peers
  <2>2. Queues(outq')  BY ZenonT(30), <1>3, <2>1, Sent
  <2>3. chan' \in Channel  BY <1>0, <1>3 DEF Channel, NewChannel
  <2>4. IsFiniteSet({}) /\ Cardinality({}) = 0  BY FS_EmptySet
  <2>5. WellFormed(chan')  BY <1>3, <2>4, RelayAssumption DEF WellFormed, NewChannel
  <2>6. /\ chan'.pending = {} /\ chan'.dapp = m.from /\ chan'.dappConn = c /\ chan'.walletConn = None
        /\ chan'.state = "waiting_for_wallet"
    BY <1>3 DEF NewChannel
  <2>7. Registered(chan'.dappConn, chan'.dapp) /\ Registered(chan'.walletConn, chan'.wallet)
    BY <1>0, <1>3, <2>6, Stays DEF Registered
  <2>8. IInv'  BY <1>3, <2>2, <2>3, <2>4, <2>5, <2>6, <2>7, Stays, NewEntry
  <2> QED BY <1>0, <2>6, <2>8 DEF Good, Pins, Keeps
<1> QED BY ZenonT(30), <1>1, <1>2, <1>3 DEF handle_create

\* join: the wallet on c, on a channel that knew none.
LEMMA JoinStep ==
    ASSUME IInv, NEW c \in InLoop, NEW m \in Sends[c], m.t = "join",
           handle_join(c, m), UNCHANGED <<deaf, file, stage>>
    PROVE  Good
<1> USE Before
<1>0. /\ c \in Conns /\ c # None /\ m \in PeerMsg /\ m.from = PeerOf[c] /\ m.from \in Wallets
      /\ m.sealedNull \in BOOLEAN /\ m.from # None
  BY PeerMsgFields, RelayAssumption DEF InLoop, Sends
<1>1. CASE Reject(c, "channel_not_found") \/ Reject(c, "already_connected")
  BY <1>1, RejectStep DEF Reasons
<1>2. CASE /\ chan # None /\ chan.state = "waiting_for_wallet"
           /\ chan' = [chan EXCEPT !.state = "pending_accept", !.wallet = m.from,
                                   !.walletConn = c, !.reconnect = m.sealedNull]
           /\ try_send_both(chan.dappConn, m, c, ReadyWaiting(m.from, m.sealedNull))
           /\ stay(c) /\ UNCHANGED notices
  <2>1. m \in Msgs /\ ReadyWaiting(m.from, m.sealedNull) \in Msgs
    BY <1>0, RelayMsgTypes DEF Peers, Msgs
  <2>2. Queues(outq')  BY <1>2, <2>1, SentBoth
  <2>3. chan' \in Channel  BY ZenonT(30), <1>0, <1>2, Fields DEF Channel
  <2>4. /\ chan'.state = "pending_accept" /\ chan'.wallet = m.from /\ chan'.walletConn = c
        /\ chan'.dapp = chan.dapp /\ chan'.dappConn = chan.dappConn /\ chan'.pending = chan.pending
    BY <1>2, Fields DEF Channel
  <2>5. WellFormed(chan')  BY <1>0, <1>2, <2>4, Fields DEF WellFormed
  <2>6. Registered(chan'.dappConn, chan'.dapp) /\ Registered(chan'.walletConn, chan'.wallet)
    BY <1>0, <1>2, <2>4, Stays, Fields DEF Registered, Live
  <2>7. IsFiniteSet(chan'.pending)  BY <1>2, <2>4, Fields
  <2>8. IInv'  BY <1>2, <2>2, <2>3, <2>5, <2>6, <2>7, Stays, NewEntry
  <2>9. chan.wallet = None /\ chan.walletConn = None  BY <1>2, Fields
  <2>10. Pins  BY <2>9 DEF Pins
  <2>11. Keeps  BY <1>0, <2>4, <2>9, RelayAssumption DEF Keeps, InLoop
  <2> QED BY <2>8, <2>10, <2>11 DEF Good
<1> QED BY <1>1, <1>2 DEF handle_join

\* accept: the state, and nothing else of the entry.
LEMMA AcceptStep ==
    ASSUME IInv, NEW c \in InLoop, NEW m \in Sends[c], m.t = "accept",
           handle_accept(c, m), UNCHANGED <<deaf, file, stage>>
    PROVE  Good
<1> USE Before
<1>1. CASE \/ Reject(c, "channel_not_found") \/ Reject(c, "invalid_role")
           \/ Reject(c, "invalid_state") \/ Reject(c, "protocol_error")
  BY <1>1, RejectStep DEF Reasons
<1>2. CASE /\ chan # None /\ m.from = chan.dapp /\ chan.state = "pending_accept"
           /\ chan' = [chan EXCEPT !.state = "connected"]
           /\ try_send_both(chan.dappConn,
                            ReadyConnected(m.from, chan.wallet, chan.reconnect),
                            chan.walletConn,
                            ReadyConnected(chan.wallet, m.from, chan.reconnect))
           /\ stay(c) /\ UNCHANGED notices
  <2>1. /\ ReadyConnected(m.from, chan.wallet, chan.reconnect) \in Msgs
        /\ ReadyConnected(chan.wallet, m.from, chan.reconnect) \in Msgs
    BY <1>2, Fields, RelayMsgTypes DEF Peers
  <2>2. Queues(outq')  BY <1>2, <2>1, SentBoth
  <2>3. chan' \in Channel  BY <1>2, Fields DEF Channel
  <2>4. /\ chan'.state = "connected" /\ chan'.wallet = chan.wallet /\ chan'.walletConn = chan.walletConn
        /\ chan'.dapp = chan.dapp /\ chan'.dappConn = chan.dappConn /\ chan'.pending = chan.pending
    BY <1>2, Fields DEF Channel
  <2>5. WellFormed(chan')  BY <1>2, <2>4, Fields DEF WellFormed
  <2>6. Registered(chan'.dappConn, chan'.dapp) /\ Registered(chan'.walletConn, chan'.wallet)
    BY <1>2, <2>4, Stays, Fields DEF Registered, Live
  <2>7. IsFiniteSet(chan'.pending)  BY <1>2, <2>4, Fields
  <2>8. IInv'  BY <1>2, <2>2, <2>3, <2>5, <2>6, <2>7, Stays, NewEntry
  <2>9. Pins  BY <2>4 DEF Pins
  <2>10. Keeps  BY <2>4, RelayAssumption DEF Keeps, InLoop
  <2> QED BY <2>8, <2>9, <2>10 DEF Good
<1> QED BY <1>1, <1>2 DEF handle_accept

\* forward: a new pending set, and at most the slot of a slow receiver lost.
LEMMA ForwardStep ==
    ASSUME IInv, NEW c \in InLoop, NEW m \in PeerMsg, chan # None,
           NEW pend \in SUBSET Ids, IsFiniteSet(pend), Cardinality(pend) <= PendingLimit,
           chan.state # "connected" => pend = {},
           role_of(m.from) # None,
           forward(c, m, pend), UNCHANGED <<deaf, file, stage>>
    PROVE  Good
<1> USE Before
<1> DEFINE other == other_conn(role_of(m.from))
<1>1. m \in Msgs  BY DEF Msgs
<1>2. other \in Conns \cup {None}  BY Fields DEF other_conn
<1>3. stay(c)  BY DEF forward
<1>4. Queues(outq')  BY <1>1, Sent DEF forward
<1>5. notices' \subseteq Conns  BY <1>2 DEF forward
<1>6. /\ chan'.state = chan.state /\ chan'.wallet = chan.wallet /\ chan'.dapp = chan.dapp
      /\ chan'.pending = pend /\ chan' \in Channel
      /\ \/ chan'.dappConn = chan.dappConn
         \/ chan'.dappConn = None /\ chan.dappConn # None /\ ~Fits(chan.dappConn)
      /\ \/ chan'.walletConn = chan.walletConn
         \/ chan'.walletConn = None /\ chan.walletConn # None /\ ~Fits(chan.walletConn)
  <2>1. CASE chan' = [chan EXCEPT !.pending = pend]
    BY <2>1, Fields DEF Channel
  <2>2. CASE /\ other # None /\ ~Fits(other) /\ role_of(m.from) = "dapp"
             /\ chan' = [chan EXCEPT !.pending = pend, !.walletConn = None]
    BY ZenonT(30), <2>2, Fields DEF Channel, other_conn
  <2>3. CASE /\ other # None /\ ~Fits(other) /\ role_of(m.from) # "dapp"
             /\ chan' = [chan EXCEPT !.pending = pend, !.dappConn = None]
    BY ZenonT(30), <2>3, Fields DEF Channel, other_conn
  <2> QED BY <2>1, <2>2, <2>3 DEF forward
<1>7. WellFormed(chan')  BY <1>6, Fields DEF WellFormed
<1>8. Registered(chan'.dappConn, chan'.dapp) /\ Registered(chan'.walletConn, chan'.wallet)
  BY <1>3, <1>6, Stays, Fields DEF Registered, Live
<1>9. IInv'  BY <1>3, <1>4, <1>5, <1>6, <1>7, <1>8, Stays, NewEntry
<1>10. Pins  BY <1>6 DEF Pins
<1>11. Keeps  BY <1>6, RelayAssumption DEF Keeps, InLoop
<1> QED BY <1>9, <1>10, <1>11 DEF Good

\* Data: refused, or forwarded with its id added, removed or neither.
LEMMA DataStep ==
    ASSUME IInv, NEW c \in InLoop, NEW m \in Sends[c], m.t \in DataTypes,
           handle_data(c, m), UNCHANGED <<deaf, file, stage>>
    PROVE  Good
<1>0. m \in PeerMsg /\ c \in Conns /\ (m.t \in {"req", "res"} => m.id \in Ids)
  BY PeerMsgFields DEF Sends, InLoop
<1>1. CASE \E why \in Reasons : Reject(c, why)
  BY <1>1, RejectStep
<1>2. CASE /\ chan # None /\ role_of(m.from) # None /\ m.t = "req"
           /\ allows_message(chan.state, m.t, role_of(m.from))
           /\ Cardinality(chan.pending) < PendingLimit
           /\ forward(c, m, chan.pending \cup {m.id})
  <2> DEFINE pend == chan.pending \cup {m.id}
  <2>1. /\ IsFiniteSet(chan.pending) /\ chan.pending \subseteq Ids
    BY <1>2, Fields
  <2>2. /\ IsFiniteSet(pend)
        /\ Cardinality(pend) = Cardinality(chan.pending) \/ Cardinality(pend) = Cardinality(chan.pending) + 1
    BY ZenonT(30), <2>1, FS_AddElement
  <2>3. Cardinality(chan.pending) \in Nat  BY <2>1, FS_CardinalityType
  <2>4. Cardinality(pend) <= PendingLimit  BY <1>2, <2>2, <2>3, RelayAssumption
  <2>5. chan.state = "connected"  BY <1>2 DEF allows_message
  <2>6. pend \in SUBSET Ids  BY <1>0, <1>2, <2>1
  <2> QED BY <1>0, <1>2, <2>2, <2>4, <2>5, <2>6, ForwardStep
<1>3. CASE /\ chan # None /\ role_of(m.from) # None /\ m.t = "res"
           /\ forward(c, m, chan.pending \ {m.id})
  <2> DEFINE pend == chan.pending \ {m.id}
  <2>1. /\ IsFiniteSet(chan.pending) /\ chan.pending \subseteq Ids /\ Cardinality(chan.pending) <= PendingLimit
        /\ chan.state # "connected" => chan.pending = {}
    BY <1>3, Fields
  <2>2. IsFiniteSet(pend) /\ Cardinality(pend) <= Cardinality(chan.pending)
    BY <2>1, FS_Subset
  <2>3. Cardinality(chan.pending) \in Nat /\ Cardinality(pend) \in Nat  BY <2>1, <2>2, FS_CardinalityType
  <2>4. Cardinality(pend) <= PendingLimit  BY <2>1, <2>2, <2>3, RelayAssumption
  <2>5. pend \in SUBSET Ids /\ (chan.state # "connected" => pend = {})  BY <2>1
  <2> QED BY <1>0, <1>3, <2>2, <2>4, <2>5, ForwardStep
<1>4. CASE /\ chan # None /\ role_of(m.from) # None
           /\ forward(c, m, chan.pending)
  BY <1>0, <1>4, Fields, ForwardStep
<1> QED BY <1>1, <1>2, <1>3, <1>4 DEF handle_data, Reasons

\* close: the entry goes.
LEMMA CloseStep ==
    ASSUME IInv, NEW c \in InLoop, NEW m \in Sends[c],
           handle_close(c, m), UNCHANGED <<deaf, file, stage>>
    PROVE  Good
<1> USE Before
<1>0. m \in Msgs  BY DEF Sends, InLoop, Msgs
<1>1. CASE Reject(c, "invalid_role")
  BY <1>1, RejectStep DEF Reasons
<1>2. CASE stay(c) /\ UNCHANGED <<chan, outq, notices>>
  BY <1>2, Stays, Quiet
<1>3. CASE chan' = None /\ try_send_both(other_conn(role_of(m.from)), m, None, m) /\ stay(c) /\ UNCHANGED notices
  <2>1. Queues(outq')  BY <1>0, <1>3, SentBoth
  <2> QED BY <1>3, <2>1, Stays, Removed
<1> QED BY <1>1, <1>2, <1>3 DEF handle_close

-----------------------------------------------------------------------------
(* Tasks, sweep, shutdown *)

\* The late cleanup of c clears the slot of c and no other.
LEMMA CleanupStep ==
    ASSUME IInv, NEW c \in Conns, Cleanup(c)
    PROVE  Good
<1> USE Before
<1>1. /\ task' \in [Conns -> TaskStates] /\ task'[c] = "gone" /\ UNCHANGED <<file, stage, deaf, notices, outq>>
      /\ \A d \in Conns \ {c} : task'[d] = task[d]
  BY DEF Cleanup, TaskStates, disk
<1>2. CASE chan = None
  <2>1. chan' = None  BY <1>2 DEF Cleanup, disconnect_by_conn_id
  <2> QED BY <1>1, <2>1, Removed
<1>3. CASE chan # None
  <2>1. /\ chan'.state = chan.state /\ chan'.wallet = chan.wallet /\ chan'.dapp = chan.dapp
        /\ chan'.pending = chan.pending /\ chan' \in Channel
        /\ chan'.dappConn = IF chan.dappConn = c THEN None ELSE chan.dappConn
        /\ chan'.walletConn = IF chan.walletConn = c /\ chan.dappConn # c THEN None ELSE chan.walletConn
    <3>1. CASE chan.dappConn = c
      BY <1>3, <3>1, Fields DEF Cleanup, disconnect_by_conn_id, Channel
    <3>2. CASE chan.dappConn # c /\ chan.walletConn = c
      BY <1>3, <3>2, Fields DEF Cleanup, disconnect_by_conn_id, Channel
    <3>3. CASE chan.dappConn # c /\ chan.walletConn # c
      BY <1>3, <3>3, Fields DEF Cleanup, disconnect_by_conn_id, Channel
    <3> QED BY <3>1, <3>2, <3>3
  <2>2. ~(chan.dappConn = c /\ chan.walletConn = c)
    BY <1>3, Fields, RelayAssumption DEF Live
  <2>3. WellFormed(chan')  BY <1>3, <2>1, Fields DEF WellFormed
  <2>4. Registered(chan'.dappConn, chan'.dapp) /\ Registered(chan'.walletConn, chan'.wallet)
    BY <1>1, <1>3, <2>1, <2>2, Fields DEF Registered, Live
  <2>5. IInv'  BY <1>1, <1>3, <2>1, <2>3, <2>4, Fields, NewEntry
  <2>6. Pins  BY <2>1 DEF Pins
  <2>7. Keeps  BY <1>1, <2>1, RelayAssumption DEF Keeps, InLoop
  <2> QED BY <2>5, <2>6, <2>7 DEF Good
<1> QED BY <1>2, <1>3

\* Every step of a connection's tasks.
LEMMA ConnStepGood ==
    ASSUME IInv, NEW c \in Conns, ConnStep(c)
    PROVE  Good
<1> USE Before
<1>1. CASE ws_upgrade(c)
  <2>1. /\ task' \in [Conns -> TaskStates] /\ UNCHANGED <<chan, file, stage, outq, deaf, notices>>
        /\ \A d \in Conns : task[d] \in {"bound", "exiting"} => task'[d] \in {"bound", "exiting"}
    BY <1>1 DEF ws_upgrade, TaskStates, disk
  <2> QED BY <2>1, Quiet
<1>2. CASE \E m \in Sends[c], cap \in BOOLEAN : Receive(c, m, cap)
  <2>1. PICK m \in Sends[c], cap \in BOOLEAN : Receive(c, m, cap)  BY <1>2
  <2>2. c \in InLoop /\ process_message(c, m, cap) /\ UNCHANGED <<deaf, file, stage>>
    BY <2>1 DEF Receive, disk
  <2> QED BY <2>2, CreateStep, JoinStep, AcceptStep, DataStep, CloseStep DEF process_message
<1>3. CASE \E why \in Reasons : RefuseFrame(c, why)
  BY <1>3, RejectStep DEF RefuseFrame, disk
<1>4. CASE StreamEnd(c)
  BY <1>4, Leaves, Quiet DEF StreamEnd, disk
<1>5. CASE Cleanup(c)
  BY <1>5, CleanupStep
<1>6. CASE Deliver(c)
  <2>1. outq[c] \in Seq(Msgs) /\ outq[c] # <<>>  BY <1>6 DEF Deliver, Queues
  <2>2. Tail(outq[c]) \in Seq(Msgs)  BY <2>1
  <2>3. Queues(outq')  BY <1>6, <2>2 DEF Deliver, Queues
  <2> QED BY <1>6, <2>3, Quiet DEF Deliver, disk
<1>7. CASE WriteFails(c)
  <2>1. Queues(outq')  BY <1>7 DEF WriteFails, Queues
  <2> QED BY <1>7, <2>1, Quiet DEF WriteFails, disk
<1>8. CASE SlowConsumerNotice(c)
  <2>1. Terminate("rate_limited") \in Msgs  BY RelayMsgTypes DEF Reasons
  <2>2. Queues(outq')  BY <1>8, <2>1, Sent DEF SlowConsumerNotice
  <2> QED BY <1>8, <2>2, Quiet DEF SlowConsumerNotice, disk
<1>9. CASE ShutdownTask(c)
  <2>1. Terminate("timeout") \in Msgs  BY RelayMsgTypes DEF Reasons
  <2>2. Queues(outq')  BY <1>9, <2>1, Sent DEF ShutdownTask
  <2> QED BY <1>9, <2>2, Leaves, Quiet DEF ShutdownTask, disk
<1> QED BY ZenonT(30), <1>1, <1>2, <1>3, <1>4, <1>5, <1>6, <1>7, <1>8, <1>9 DEF ConnStep

\* The terminates of a sweep or a shutdown.
LEMMA Terminated ==
    ASSUME Queues(outq), terminate_peers
    PROVE  Queues(outq')
<1>1. Terminate("timeout") \in Msgs  BY RelayMsgTypes DEF Reasons
<1> QED BY <1>1, SentBoth DEF terminate_peers

\* Shutdown: what goes into the file names no connection.
LEMMA SaveStep ==
    ASSUME IInv, save_state
    PROVE  Good
<1> USE Before
<1>1. Queues(outq')  BY Terminated DEF save_state
<1>2. /\ stage' = "saved" /\ chan' = None /\ UNCHANGED <<task, deaf, notices>> /\ file = None
      /\ file' = persisted \/ file' = None
  BY DEF save_state, OnDisk
<1>3. /\ file' \in Channel \cup {None} /\ WellFormed(file')
      /\ file' # None => /\ IsFiniteSet(file'.pending) /\ file'.dappConn = None /\ file'.walletConn = None
  <2>1. CASE chan = None \/ file' = None
    BY <1>2, <2>1 DEF persisted, WellFormed
  <2>2. CASE chan # None /\ file' = persisted
    <3>1. /\ file' \in Channel /\ file'.state = chan.state /\ file'.wallet = chan.wallet
          /\ file'.pending = chan.pending /\ file'.dappConn = None /\ file'.walletConn = None
      BY ZenonT(30), <2>2, Fields DEF persisted, Channel
    <3> QED BY <2>2, <3>1, Fields DEF WellFormed
  <2> QED BY <1>2, <2>1, <2>2
<1>4. TypeOK'  BY <1>1, <1>2, <1>3 DEF TypeOK, Queues, TaskStates, Msgs
<1>5. EntrySound'  BY <1>2, <1>3, <1>4 DEF EntrySound, WellFormed
<1>6. OnDisk'  BY <1>2, <1>3 DEF OnDisk
<1> QED BY <1>2, <1>5, <1>6 DEF Good, IInv, Pins, Keeps

\* A new process: the entry of the file, if there is one.
LEMMA RestartStep ==
    ASSUME IInv, Restart
    PROVE  Good
<1> USE Before
<1>1. /\ chan' = file /\ file' = None /\ stage' = "running" /\ notices' = {} /\ deaf' = deaf
      /\ task' \in [Conns -> TaskStates] /\ \A c \in Conns : task'[c] \in {"new", "gone"}
      /\ Queues(outq')
  BY DEF Restart, TaskStates, Queues
<1>2. TypeOK'  BY <1>1 DEF TypeOK, Queues, TaskStates, Msgs
<1>3. EntrySound'  BY <1>1, <1>2 DEF EntrySound, WellFormed, Live, OnDisk
<1>4. OnDisk'  BY <1>1 DEF OnDisk
<1>5. Pins  BY <1>1 DEF Pins, OnDisk
<1>6. Keeps  BY <1>1 DEF Keeps, InLoop
<1> QED BY <1>3, <1>4, <1>5, <1>6 DEF Good, IInv

-----------------------------------------------------------------------------
(* The theorems *)

LEMMA IInvInit == Init => IInv
<1> SUFFICES ASSUME Init PROVE IInv  OBVIOUS
<1>1. TypeOK  BY DEF Init, TypeOK
<1> QED BY <1>1 DEF Init, IInv, EntrySound, OnDisk, WellFormed

\* Every step preserves the invariant and does what the two action properties
\* allow.
LEMMA NextGood ==
    ASSUME IInv, Next
    PROVE  Good
<1> USE Before
<1>1. CASE cleanup_expired
  <2>1. Queues(outq')  BY <1>1, Terminated DEF cleanup_expired
  <2> QED BY <1>1, <2>1, Removed DEF cleanup_expired, disk
<1>2. CASE wait_for_signal
  <2>1. file = None /\ stage' = "stopping" /\ UNCHANGED <<chan, task, outq, deaf, notices, file>>
    BY <1>2 DEF wait_for_signal, OnDisk
  <2>2. TypeOK'  BY <2>1 DEF TypeOK, Queues, TaskStates, Msgs
  <2>3. EntrySound'  BY <2>1, <2>2 DEF EntrySound, WellFormed, Live
  <2>4. OnDisk'  BY <2>1 DEF OnDisk
  <2> QED BY <2>1, <2>3, <2>4, RelayAssumption DEF Good, IInv, Pins, Keeps, InLoop
<1> QED BY <1>1, <1>2, ConnStepGood, SaveStep, RestartStep DEF Next

\* Nor does a stuttering step disturb it.
LEMMA IInvStep == IInv /\ [Next /\ UNCHANGED setup]_<<vars, setup>> => IInv'
<1> SUFFICES ASSUME IInv, [Next /\ UNCHANGED setup]_<<vars, setup>> PROVE IInv'  OBVIOUS
<1>1. CASE Next  BY <1>1, NextGood DEF Good
<1>2. CASE UNCHANGED <<vars, setup>>  BY <1>2 DEF IInv, EntrySound, TypeOK, OnDisk, WellFormed, Live, vars
<1> QED BY <1>1, <1>2

\* EntrySound in every reachable state of the relay: the handshake fields agree
\* with the state, the pending limit is kept, and whatever order connects,
\* drops, late cleanups, sweeps, shutdowns and reloads come in, a registered
\* connection has a live task and is the registered peer's own.
THEOREM EntryAlwaysSound == Spec => []EntrySound
<1>1. IInv => EntrySound  BY DEF IInv
<1> QED BY IInvInit, IInvStep, <1>1, PTL DEF Spec

\* A wallet that has joined is never replaced by handle_join or any other
\* handler while its channel lives; only a new process, which loads the file
\* of a clean shutdown, may bring back another one.
THEOREM WalletStaysPinned == Spec => WalletPinned
<1>1. IInv /\ [Next /\ UNCHANGED setup]_<<vars, setup>> => [Pins]_vars
  BY NextGood DEF Good, vars
<1> QED BY IInvInit, IInvStep, <1>1, PTL DEF Spec, WalletPinned, Pins

\* No handler takes the slot of a connection that reads and keeps up, other
\* than a newer create.
THEOREM RegistrationKept == Spec => KeepsRegistration
<1>1. IInv /\ [Next /\ UNCHANGED setup]_<<vars, setup>> => [Keeps]_vars
  BY NextGood DEF Good, vars
<1> QED BY IInvInit, IInvStep, <1>1, PTL DEF Spec, KeepsRegistration, Keeps
=============================================================================
