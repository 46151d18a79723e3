---------------------------- MODULE RelaysProofs ----------------------------
(***************************************************************************)
(* Proofs about the channels of the Cloudflare relay and about the channel *)
(* limit of the Rust relay.                                                *)
(*                                                                         *)
(* CFChannel, for any peers, sockets and request ids.  None of the three   *)
(* invariants is inductive alone: that a channel wakes up with the fields  *)
(* it had needs that a waiting channel holds nothing but its dApp, and     *)
(* that its alarm is armed needs that the object knows its channel id as   *)
(* long as a socket has a role.                                            *)
(*                                                                         *)
(* RelayCapacity, for any numbers of tasks, channels and shards and a      *)
(* counter wide enough for them: the counter is off by exactly the updates *)
(* that are owed and the removals nobody counts, and the limit is passed   *)
(* by fewer channels than there are tasks.  OvershootBounded is not        *)
(* inductive.  That a task may enter although the counter says there is    *)
(* room follows from Accounting, if the counter has not wrapped above:     *)
(* swept has to be bounded, by the channels of the shards the sweep has    *)
(* passed (SweptBounded).                                                  *)
(***************************************************************************)
EXTENDS CFChannel, RelayCapacity, FiniteSetTheorems, TLAPS

\* Time for the slower leaves
USE SMTT(30), ZenonT(30)

-----------------------------------------------------------------------------
(* The Cloudflare channel: the inductive invariant *)

Early == {"waiting", "pending_accept"}

SocketTypes ==
    [Socks -> [rs : {"none", "open", "closing"}, role : {"none", "dapp", "wallet"},
               peer : Peers \cup {NoPeer}]]

Types ==
    /\ mem \in [f : Fields, init : BOOLEAN, ch : BOOLEAN]
    /\ disk \in Fields
    /\ alarm \in {"off", "unpaired", "connected"}
    /\ ws \in SocketTypes

\* The object knows its channel id while a socket of the channel remains
IdKnown == mem.init /\ (\E s \in Attached : ws[s].role # "none") => mem.ch

\* A channel that is not connected yet has its dApp's socket, the short alarm
\* and no outstanding request; while it waits it knows nobody but its dApp
EarlyBacked ==
    disk.state \in Early =>
        /\ \E s \in Attached : ws[s].role = "dapp"
        /\ alarm = "unpaired"
        /\ disk.dapp \in Peers /\ disk.pending = {}
        /\ disk.state = "waiting" => disk.wallet = NoPeer /\ ~disk.reconnect

ConnectedArmed ==
    disk.state = "connected" /\ (\E s \in Attached : ws[s].role # "none") => alarm = "connected"

\* Roles are given to the peers that ask for them: create comes from dApps, join
\* from wallets
RolesFit ==
    /\ \A s \in Attached : ws[s].peer \in Peers
    /\ \A s \in Socks : /\ ws[s].role = "dapp" => ws[s].peer \in DApps
                        /\ ws[s].role = "wallet" => ws[s].peer \in Wallets

WithinLimit == Cardinality(disk.pending) <= PENDING_REQUEST_LIMIT

IInv ==
    /\ Types /\ WithinLimit /\ DiskCurrent /\ IdKnown /\ RolesFit
    /\ EarlyBacked /\ ConnectedArmed /\ PendingHasWallet

-----------------------------------------------------------------------------
(* The fields a handler works with, and what it leaves of the sockets *)

\* ensureInitialized gives every handler the stored fields, whether the object
\* has just woken up or not.
LEMMA Fields_current ==
    ASSUME IInv
    PROVE  /\ ensureInitialized.f = disk
           /\ ensureInitialized \in [f : Fields, init : {TRUE}, ch : BOOLEAN]
           /\ (\E s \in Attached : ws[s].role # "none") => ensureInitialized.ch
BY ZenonT(30) DEF IInv, Types, DiskCurrent, IdKnown, ensureInitialized

\* persistState leaves the same fields in memory and in storage.
LEMMA Persisted ==
    ASSUME IInv, NEW f \in Fields, persistState(f)
    PROVE  /\ disk' = f /\ mem' \in [f : Fields, init : BOOLEAN, ch : BOOLEAN]
           /\ mem'.f = f /\ mem'.init /\ mem'.ch = ensureInitialized.ch
BY ZenonT(30), Fields_current DEF persistState

\* closing a socket neither detaches it nor changes its role or its peer.
LEMMA Closing ==
    ASSUME Types, NEW S \in SUBSET Attached, ws' = closing(ws, S)
    PROVE  /\ ws' \in SocketTypes
           /\ Attached' = Attached
           /\ \A s \in Socks : ws'[s].role = ws[s].role /\ ws'[s].peer = ws[s].peer
BY DEF Types, SocketTypes, closing, Attached

\* So the invariant on roles and types survives it.
LEMMA ClosingFits ==
    ASSUME IInv, NEW S \in SUBSET Attached, ws' = closing(ws, S)
    PROVE  ws' \in SocketTypes /\ RolesFit'
<1>1. /\ ws' \in SocketTypes /\ Attached' = Attached
      /\ \A s \in Socks : ws'[s].role = ws[s].role /\ ws'[s].peer = ws[s].peer
  BY Closing DEF IInv
<1>2. Attached \subseteq Socks  BY DEF Attached
<1> QED  BY <1>1, <1>2 DEF IInv, RolesFit

\* findPeerWs returns attached sockets of the role.
LEMMA FoundAttached ==
    ASSUME NEW role, NEW S \in Found(role)
    PROVE  S \subseteq findPeerWs(role) /\ S \subseteq Attached
BY DEF Found, findPeerWs

-----------------------------------------------------------------------------
(* The handlers preserve the invariant *)

\* A refused frame closes its socket and changes nothing else.
LEMMA Refusing ==
    ASSUME IInv, NEW s \in Attached, sendAndClose(s)
    PROVE  IInv'
<1>1. ws' = closing(ws, {s}) /\ mem' = ensureInitialized /\ disk' = disk /\ alarm' = alarm
  BY DEF sendAndClose, untouched
<1>2. /\ Attached' = Attached
      /\ \A t \in Socks : ws'[t].role = ws[t].role /\ ws'[t].peer = ws[t].peer
      /\ ws' \in SocketTypes
  <2>1. {s} \in SUBSET Attached  OBVIOUS
  <2> QED  BY ZenonT(30), <1>1, <2>1, Closing DEF IInv
<1>3. Attached \subseteq Socks  BY DEF Attached
<1>4. Types' /\ DiskCurrent' /\ IdKnown' /\ WithinLimit'
  BY ZenonT(30), <1>1, <1>2, <1>3, Fields_current DEF IInv, Types, DiskCurrent, IdKnown, WithinLimit
<1>5. RolesFit' /\ PendingHasWallet'
  BY ZenonT(30), <1>1, <1>2, <1>3 DEF IInv, RolesFit, PendingHasWallet
<1>6. EarlyBacked' /\ ConnectedArmed'
  BY ZenonT(30), <1>1, <1>2, <1>3 DEF IInv, EarlyBacked, ConnectedArmed, Early
<1> QED  BY <1>4, <1>5, <1>6 DEF IInv



\* A create: the fields start afresh with the alarm and the dApp's socket.
LEMMA CreateKeeps ==
    ASSUME IInv, NEW s \in Socks, ws[s].rs = "open", ws[s].peer \in DApps,
           ws[s].role = "none" \/ disk.dapp = NoPeer \/ ws[s].peer = disk.dapp,
           ensureInitialized.ch, handleCreate(s, disk, ws[s].peer)
    PROVE  IInv'
<1> DEFINE new == [state |-> "waiting", dapp |-> ws[s].peer, wallet |-> NoPeer,
                   reconnect |-> FALSE, pending |-> {}]
<1>1. s \in Attached  BY DEF Attached
<1>2. CASE sendAndClose(s)  BY <1>1, <1>2, Refusing
<1>3. ASSUME NEW old \in SUBSET Attached,
             s \in old => disk = new /\ alarm = "unpaired",
             ws' = setAttachment(closing(ws, old), s, "dapp"),
             IF s \in old THEN mem' = [ensureInitialized EXCEPT !.f = new] /\ UNCHANGED <<alarm, disk>>
                          ELSE alarm' = "unpaired" /\ persistState(new)
      PROVE IInv'
  <2>1. new \in Fields  BY DEF Fields, States, Peers
  <2>2. /\ new.state = "waiting" /\ new.dapp \in Peers /\ new.wallet = NoPeer
        /\ new.reconnect = FALSE /\ new.pending = {}
    BY DEF Peers
  <2>3. /\ disk' = new /\ mem' \in [f : Fields, init : BOOLEAN, ch : BOOLEAN]
        /\ mem'.f = new /\ mem'.init /\ mem'.ch /\ alarm' = "unpaired"
    BY ZenonT(30), <1>3, <2>1, Fields_current, Persisted
  <2>4. /\ ws' \in SocketTypes
        /\ Attached' = Attached
        /\ ws'[s].role = "dapp"
        /\ \A t \in Socks : /\ ws'[t].peer = ws[t].peer
                            /\ t # s => ws'[t].role = ws[t].role
    BY <1>3 DEF IInv, Types, SocketTypes, setAttachment, closing, Attached
  <2>5. WithinLimit'  BY <2>2, <2>3, FS_EmptySet, CFAssumption DEF WithinLimit
  <2>6. Types' /\ DiskCurrent' /\ IdKnown'
    BY <2>1, <2>3, <2>4 DEF Types, DiskCurrent, IdKnown
  <2>7. EarlyBacked' /\ ConnectedArmed' /\ PendingHasWallet'
    BY <1>1, <2>2, <2>3, <2>4 DEF EarlyBacked, ConnectedArmed, PendingHasWallet, Early
  <2>8. RolesFit'
    BY <1>1, <2>4 DEF IInv, RolesFit, Attached
  <2> QED  BY <2>5, <2>6, <2>7, <2>8 DEF IInv
<1>4. ASSUME ~sendAndClose(s) PROVE IInv'
  <2> DEFINE loser == CASE disk.state = "waiting" -> Found("dapp")
                        [] disk.state = "connected" -> Found("wallet")
                        [] OTHER -> {{}}
  <2>1. PICK old \in loser :
           /\ ws' = setAttachment(closing(ws, old), s, "dapp")
           /\ IF s \in old THEN mem' = [ensureInitialized EXCEPT !.f = new] /\ UNCHANGED <<alarm, disk>>
                           ELSE alarm' = "unpaired" /\ persistState(new)
    BY ZenonT(30), <1>4 DEF handleCreate
  <2>2. /\ old \in SUBSET Attached
        /\ s \in old => \/ disk.state = "waiting" /\ ws[s].role = "dapp"
                        \/ ws[s].role = "wallet"
    <3>1. CASE disk.state = "waiting"
      <4>1. old \in Found("dapp")  BY <2>1, <3>1
      <4> QED  BY <4>1, <3>1, FoundAttached DEF findPeerWs
    <3>2. CASE disk.state = "connected"
      <4>1. old \in Found("wallet")  BY <2>1, <3>2
      <4> QED  BY <4>1, FoundAttached DEF findPeerWs
    <3>3. CASE disk.state \notin {"waiting", "connected"}
      BY <2>1, <3>3
    <3> QED  BY <3>1, <3>2, <3>3
  <2>3. s \in old => disk = new /\ alarm = "unpaired"
    <3> SUFFICES ASSUME s \in old PROVE disk = new /\ alarm = "unpaired"  OBVIOUS
    <3>1. ws[s].role # "wallet"  BY CFAssumption DEF IInv, RolesFit
    <3>2. disk.state = "waiting" /\ ws[s].role = "dapp"  BY <2>2, <3>1
    <3>3. /\ alarm = "unpaired" /\ disk.dapp \in Peers /\ disk.pending = {}
          /\ disk.wallet = NoPeer /\ ~disk.reconnect
      BY <3>2 DEF IInv, EarlyBacked, Early
    <3>4. disk.dapp = ws[s].peer  BY <3>2, <3>3, CFAssumption DEF Peers
    <3>5. disk.reconnect = FALSE  BY <3>3 DEF IInv, Types, Fields
    <3>6. disk = [state |-> disk.state, dapp |-> disk.dapp, wallet |-> disk.wallet,
                  reconnect |-> disk.reconnect, pending |-> disk.pending]
      BY DEF IInv, Types, Fields
    <3> QED  BY <3>2, <3>3, <3>4, <3>5, <3>6
  <2> QED  BY <1>3, <2>1, <2>2, <2>3
<1> QED  BY <1>2, <1>4

\* A join: the channel expects an accept for this very socket, or waits on.
LEMMA JoinKeeps ==
    ASSUME IInv, NEW s \in Socks, ws[s].rs = "open", ws[s].peer \in Wallets, ws[s].role = "none",
           ensureInitialized.ch, NEW null \in BOOLEAN, handleJoin(s, disk, ws[s].peer, null)
    PROVE  IInv'
<1>1. s \in Attached /\ Attached \subseteq Socks  BY DEF Attached
<1>2. CASE sendAndClose(s)  BY <1>1, <1>2, Refusing
<1>3. ASSUME ~sendAndClose(s) PROVE IInv'
  <2>1. disk.state = "waiting" /\ alarm' = alarm  BY <1>3 DEF handleJoin
  <2>2. /\ alarm = "unpaired" /\ disk.dapp \in Peers /\ disk.pending = {}
        /\ disk.wallet = NoPeer /\ \E t \in Attached : ws[t].role = "dapp"
    BY <2>1 DEF IInv, EarlyBacked, Early
  <2>3. PICK d \in Found("dapp") :
          \/ /\ ws' = setAttachment(ws, s, "wallet")
             /\ persistState([disk EXCEPT !.state = "pending_accept", !.wallet = ws[s].peer, !.reconnect = null])
          \/ /\ ws' = closing(setAttachment(ws, s, "wallet"), d \cup {s})
             /\ persistState([disk EXCEPT !.wallet = NoPeer, !.reconnect = FALSE])
    BY <1>3 DEF handleJoin
  <2>4. /\ ws' \in SocketTypes
        /\ Attached' = Attached
        /\ ws'[s].role = "wallet"
        /\ \A t \in Socks : /\ ws'[t].peer = ws[t].peer
                            /\ t # s => ws'[t].role = ws[t].role
    <3>1. d \subseteq Attached  BY FoundAttached
    <3> QED  BY <1>1, <2>3, <3>1 DEF IInv, Types, SocketTypes, setAttachment, closing, Attached
  <2>5. \E f \in Fields : /\ persistState(f) /\ f.pending = {} /\ f.dapp = disk.dapp
                          /\ \/ f.state = "pending_accept" /\ f.wallet = ws[s].peer
                             \/ f.state = "waiting" /\ f.wallet = NoPeer /\ f.reconnect = FALSE
    <3>1. CASE persistState([disk EXCEPT !.state = "pending_accept", !.wallet = ws[s].peer, !.reconnect = null])
      <4> DEFINE g == [disk EXCEPT !.state = "pending_accept", !.wallet = ws[s].peer, !.reconnect = null]
      <4>1. /\ g.state = "pending_accept" /\ g.wallet = ws[s].peer
            /\ g.dapp = disk.dapp /\ g.pending = disk.pending
        BY DEF IInv, Types, Fields
      <4>2. g \in Fields  BY ZenonT(30) DEF IInv, Types, Fields, States, Peers
      <4> QED  BY ZenonT(30), <2>2, <3>1, <4>1, <4>2
    <3>2. CASE persistState([disk EXCEPT !.wallet = NoPeer, !.reconnect = FALSE])
      <4> DEFINE g == [disk EXCEPT !.wallet = NoPeer, !.reconnect = FALSE]
      <4>1. /\ g.state = disk.state /\ g.wallet = NoPeer /\ g.reconnect = FALSE
            /\ g.dapp = disk.dapp /\ g.pending = disk.pending
        BY DEF IInv, Types, Fields
      <4>2. g \in Fields  BY ZenonT(30) DEF IInv, Types, Fields, Peers
      <4> QED  BY ZenonT(30), <2>1, <2>2, <3>2, <4>1, <4>2
    <3> QED  BY ZenonT(30), <2>3, <3>1, <3>2
  <2>6. /\ disk' \in Fields /\ disk'.pending = {} /\ disk'.dapp = disk.dapp
        /\ \/ disk'.state = "pending_accept" /\ disk'.wallet = ws[s].peer
           \/ disk'.state = "waiting" /\ disk'.wallet = NoPeer /\ disk'.reconnect = FALSE
        /\ mem' \in [f : Fields, init : BOOLEAN, ch : BOOLEAN]
        /\ mem'.f = disk' /\ mem'.ch
    BY ZenonT(30), <2>5, Persisted
  <2>7. Types' /\ DiskCurrent' /\ IdKnown'
    BY <2>1, <2>2, <2>4, <2>6 DEF Types, DiskCurrent, IdKnown
  <2>8. WithinLimit'  BY <2>6, FS_EmptySet, CFAssumption DEF WithinLimit
  <2>9. RolesFit' /\ PendingHasWallet' /\ ConnectedArmed'
    BY <1>1, <2>4, <2>6 DEF IInv, RolesFit, PendingHasWallet, ConnectedArmed
  <2>10. EarlyBacked'
    BY <1>1, <2>1, <2>2, <2>4, <2>6 DEF EarlyBacked, Early
  <2> QED  BY <2>7, <2>8, <2>9, <2>10 DEF IInv
<1> QED  BY <1>2, <1>3

\* A handler that ends the channel or connects it, on the sockets there are.
LEMMA EndsOrConnects ==
    ASSUME IInv, NEW f \in Fields, persistState(f), f.pending = disk.pending,
           f.state = "closed" \/ (f.state = "connected" /\ alarm' = "connected"),
           alarm' \in {"off", "connected"}, ensureInitialized.ch,
           ws' \in SocketTypes, RolesFit'
    PROVE  IInv'
<1>1. /\ disk' = f /\ mem' \in [f : Fields, init : BOOLEAN, ch : BOOLEAN]
      /\ mem'.f = f /\ mem'.ch
  BY ZenonT(30), Persisted
<1>2. Types' /\ DiskCurrent' /\ IdKnown' /\ WithinLimit'
  BY <1>1 DEF IInv, Types, DiskCurrent, IdKnown, WithinLimit, SocketTypes
<1>3. EarlyBacked' /\ ConnectedArmed' /\ PendingHasWallet'
  BY <1>1 DEF EarlyBacked, ConnectedArmed, PendingHasWallet, Early
<1> QED  BY <1>2, <1>3 DEF IInv

\* One field of the stored record is changed.
LEMMA StateSet ==
    ASSUME IInv, NEW x \in States
    PROVE  /\ [disk EXCEPT !.state = x] \in Fields
           /\ [disk EXCEPT !.state = x].state = x
           /\ [disk EXCEPT !.state = x].pending = disk.pending
BY DEF IInv, Types, Fields

\* A handler that closes the channel and deletes the alarm.
LEMMA Ends ==
    ASSUME IInv, persistState([disk EXCEPT !.state = "closed"]), alarm' = "off",
           ensureInitialized.ch, ws' \in SocketTypes, RolesFit'
    PROVE  IInv'
<1>1. PICK g : g = [disk EXCEPT !.state = "closed"]  OBVIOUS
<1>2. g \in Fields /\ g.state = "closed" /\ g.pending = disk.pending
  BY <1>1, StateSet DEF States
<1>3. persistState(g) /\ alarm' \in {"off", "connected"}  BY <1>1
<1> QED  BY <1>2, <1>3, EndsOrConnects

\* An accept connects the channel, or closes it when both sends failed.
LEMMA AcceptKeeps ==
    ASSUME IInv, NEW s \in Socks, ws[s].rs = "open", ensureInitialized.ch,
           NEW target \in Wallets, handleAccept(s, disk, ws[s].peer, target)
    PROVE  IInv'
<1>1. s \in Attached  BY DEF Attached
<1>2. CASE sendAndClose(s)  BY <1>1, <1>2, Refusing
<1>3. ASSUME ~sendAndClose(s) PROVE IInv'
  <2>1. PICK d \in Found("dapp"), w \in Found("wallet") : \E sent \in SUBSET (d \cup w) :
            /\ ws' = closing(ws, (d \cup w) \ sent)
            /\ persistState([disk EXCEPT !.state = IF sent = {} THEN "closed" ELSE "connected"])
            /\ alarm' = IF sent = {} THEN "off" ELSE "connected"
    BY ZenonT(30), <1>3 DEF handleAccept
  <2>2. PICK sent \in SUBSET (d \cup w) :
            /\ ws' = closing(ws, (d \cup w) \ sent)
            /\ persistState([disk EXCEPT !.state = IF sent = {} THEN "closed" ELSE "connected"])
            /\ alarm' = IF sent = {} THEN "off" ELSE "connected"
    BY ZenonT(30), <2>1
  <2>3. (d \cup w) \ sent \in SUBSET Attached  BY FoundAttached
  <2>4. ws' \in SocketTypes /\ RolesFit'
    BY <2>2, <2>3, ClosingFits
  <2>5. CASE sent = {}
    <3>1. persistState([disk EXCEPT !.state = "closed"]) /\ alarm' = "off"  BY <2>2, <2>5
    <3> QED  BY <2>4, <3>1, Ends
  <2>6. CASE sent # {}
    <3>1. persistState([disk EXCEPT !.state = "connected"]) /\ alarm' = "connected"  BY <2>2, <2>6
    <3> QED  BY ZenonT(30), <2>4, <3>1, StateSet, EndsOrConnects DEF States
  <2> QED  BY <2>5, <2>6
<1> QED  BY <1>2, <1>3

\* A close ends the channel.
LEMMA CloseKeeps ==
    ASSUME IInv, NEW s \in Socks, ws[s].rs = "open", ensureInitialized.ch,
           handleClose(s, disk, ws[s].peer)
    PROVE  IInv'
<1>1. s \in Attached  BY DEF Attached
<1>2. CASE sendAndClose(s)  BY <1>1, <1>2, Refusing
<1>3. ASSUME ~sendAndClose(s) PROVE IInv'
  <2>1. PICK o \in Found(Other(ws[s].role)) : ws' = closing(ws, o \cup {s})
    BY <1>3 DEF handleClose
  <2>2. persistState([disk EXCEPT !.state = "closed"]) /\ alarm' = "off"
    BY <1>3 DEF handleClose
  <2>3. o \cup {s} \in SUBSET Attached  BY <1>1, FoundAttached
  <2>4. ws' \in SocketTypes /\ RolesFit'
    BY <2>1, <2>3, ClosingFits
  <2> QED  BY <2>2, <2>4, Ends
<1> QED  BY <1>2, <1>3

\* Traffic changes the outstanding requests only, within their limit.
LEMMA DataKeeps ==
    ASSUME IInv, NEW s \in Socks, ws[s].rs = "open", ensureInitialized.ch,
           NEW t, NEW id \in Ids, handleData(s, disk, ws[s].peer, t, id)
    PROVE  IInv'
<1>1. s \in Attached /\ Attached \subseteq Socks  BY DEF Attached
<1>2. CASE sendAndClose(s)  BY <1>1, <1>2, Refusing
<1>3. ASSUME ~sendAndClose(s) PROVE IInv'
  <2> DEFINE q == CASE t = "req" -> disk.pending \cup {id}
                    [] t = "res" -> disk.pending \ {id}
                    [] OTHER -> disk.pending
             g == [disk EXCEPT !.pending = q]
  <2>1. /\ stateAllowsMessage(disk.state, t, ws[s].role)
        /\ t = "req" => ~(Cardinality(disk.pending) >= PENDING_REQUEST_LIMIT)
        /\ persistState(g) /\ alarm' = alarm
        /\ \E o \in Found(Other(ws[s].role)) : \E sent \in SUBSET o : ws' = closing(ws, o \ sent)
    BY ZenonT(30), <1>3 DEF handleData
  <2>2. /\ ws' \in SocketTypes /\ Attached' = Attached
        /\ \A u \in Socks : ws'[u].role = ws[u].role /\ ws'[u].peer = ws[u].peer
    <3>1. PICK o \in Found(Other(ws[s].role)) : \E sent \in SUBSET o : ws' = closing(ws, o \ sent)
      BY ZenonT(30), <2>1
    <3>2. PICK sent \in SUBSET o : ws' = closing(ws, o \ sent)  BY ZenonT(30), <3>1
    <3>3. o \ sent \in SUBSET Attached  BY FoundAttached
    <3> QED  BY ZenonT(30), <3>2, <3>3, Closing DEF IInv, SocketTypes
  <2>3. disk.pending \in SUBSET Ids /\ IsFiniteSet(disk.pending) /\ Cardinality(disk.pending) \in Nat
    <3>1. disk.pending \in SUBSET Ids  BY DEF IInv, Types, Fields
    <3> QED  BY <3>1, CFAssumption, FS_Subset, FS_CardinalityType
  <2>4. q \in SUBSET Ids /\ Cardinality(q) <= PENDING_REQUEST_LIMIT
    <3>1. CASE t = "req"
      <4>1. q = disk.pending \cup {id}  BY <3>1
      <4>2. Cardinality(disk.pending \cup {id}) <= Cardinality(disk.pending) + 1
        <5>1. Cardinality(disk.pending \cup {id}) =
                IF id \in disk.pending THEN Cardinality(disk.pending) ELSE Cardinality(disk.pending) + 1
          BY <2>3, FS_AddElement, Zenon
        <5> QED  BY <2>3, <5>1
      <4>3. IsFiniteSet(disk.pending \cup {id}) /\ Cardinality(disk.pending \cup {id}) \in Nat
        BY ZenonT(30), <2>3, FS_AddElement, FS_CardinalityType
      <4> HIDE DEF q
      <4> QED  BY <2>1, <2>3, <3>1, <4>1, <4>2, <4>3, CFAssumption
    <3>2. CASE t = "res"
      <4>1. q = disk.pending \ {id}  BY <3>2
      <4>2. Cardinality(disk.pending \ {id}) <= Cardinality(disk.pending)
        BY <2>3, FS_Subset
      <4>3. IsFiniteSet(disk.pending \ {id}) /\ Cardinality(disk.pending \ {id}) \in Nat
        BY <2>3, FS_RemoveElement, FS_CardinalityType
      <4> HIDE DEF q
      <4> QED  BY <2>3, <4>1, <4>2, <4>3, CFAssumption DEF IInv, WithinLimit
    <3>3. CASE t \notin {"req", "res"}
      BY <2>3, <3>3 DEF IInv, WithinLimit
    <3> QED  BY <3>1, <3>2, <3>3
  <2>5. disk.state # "connected" => q = disk.pending
    BY <2>1 DEF stateAllowsMessage
  <2> HIDE DEF q
  <2>6. /\ g \in Fields /\ g.pending = q
        /\ g.state = disk.state /\ g.dapp = disk.dapp /\ g.wallet = disk.wallet
        /\ g.reconnect = disk.reconnect
    BY <2>4 DEF IInv, Types, Fields
  <2> HIDE DEF g
  <2>7. /\ disk' = g /\ mem' \in [f : Fields, init : BOOLEAN, ch : BOOLEAN]
        /\ mem'.f = g /\ mem'.ch
    BY ZenonT(30), <2>1, <2>6, Persisted
  <2>8. Types' /\ DiskCurrent' /\ IdKnown' /\ WithinLimit'
    BY ZenonT(30), <2>1, <2>2, <2>4, <2>6, <2>7 DEF IInv, Types, DiskCurrent, IdKnown, WithinLimit, SocketTypes
  <2>9. RolesFit' /\ PendingHasWallet' /\ ConnectedArmed'
    BY ZenonT(30), <1>1, <2>1, <2>2, <2>6, <2>7 DEF IInv, RolesFit, PendingHasWallet, ConnectedArmed
  <2>10. EarlyBacked'
    BY ZenonT(30), <1>1, <2>1, <2>2, <2>5, <2>6, <2>7 DEF IInv, EarlyBacked, Early
  <2> QED  BY <2>8, <2>9, <2>10 DEF IInv
<1> QED  BY <1>2, <1>3

-----------------------------------------------------------------------------
(* The events preserve the invariant *)

\* A frame, whatever its type and whether its socket has a role yet.
LEMMA MessageKeeps ==
    ASSUME IInv, NEW s \in Socks, webSocketMessage(s)
    PROVE  IInv'
<1>1. ws[s].rs = "open" /\ s \in Attached  BY DEF webSocketMessage, Attached
<1>2. CASE sendAndClose(s)  BY <1>1, <1>2, Refusing
<1>3. ASSUME ~sendAndClose(s) PROVE IInv'
  <2>1. ensureInitialized.ch /\ ensureInitialized.f = disk
    BY <1>3, Fields_current DEF webSocketMessage
  <2>2. PICK t \in MsgTypes(ws[s].peer) :
            IF ws[s].role = "none" THEN handleFirstMessage(s, disk, ws[s].peer, t)
                                   ELSE handleMessage(s, disk, ws[s].peer, t)
    BY <1>3, <2>1 DEF webSocketMessage
  <2>3. /\ t \in {"create", "accept", "req"} => ws[s].peer \in DApps
        /\ t = "join" => ws[s].peer \in Wallets
    <3>1. ws[s].peer \in DApps \/ t \in {"ping", "pong", "close", "join", "res", "evt"}
      BY <2>2 DEF MsgTypes
    <3>2. ws[s].peer \notin DApps \/ t \in {"ping", "pong", "close", "create", "accept", "req"}
      BY <2>2 DEF MsgTypes
    <3>3. ws[s].peer \in DApps \cup Wallets  BY <1>1 DEF IInv, RolesFit, Peers
    <3> QED  BY <3>1, <3>2, <3>3
  <2>4. CASE ws[s].role = "none"
    <3>1. handleFirstMessage(s, disk, ws[s].peer, t)  BY <2>2, <2>4
    <3>2. CASE t = "create"
      BY <1>1, <2>1, <2>3, <2>4, <3>1, <3>2, CreateKeeps DEF handleFirstMessage
    <3>3. CASE t = "join"
      <4>1. PICK null \in BOOLEAN : handleJoin(s, disk, ws[s].peer, null)
        BY <3>1, <3>3 DEF handleFirstMessage
      <4> QED  BY <1>1, <2>1, <2>3, <2>4, <3>3, <4>1, JoinKeeps
    <3>4. CASE t \notin {"create", "join"}
      BY <1>3, <3>1, <3>4 DEF handleFirstMessage
    <3> QED  BY <3>2, <3>3, <3>4
  <2>5. CASE ws[s].role # "none"
    <3>1. handleMessage(s, disk, ws[s].peer, t)  BY <2>2, <2>5
    <3>2. CASE t = "create"
      <4>1. disk.dapp = NoPeer \/ ws[s].peer = disk.dapp
        BY <1>3, <3>1, <3>2 DEF handleMessage
      <4>2. handleCreate(s, disk, ws[s].peer)
        BY <1>3, <3>1, <3>2 DEF handleMessage
      <4> QED  BY <1>1, <2>1, <2>3, <3>2, <4>1, <4>2, CreateKeeps
    <3>3. CASE t = "join"
      BY <1>3, <3>1, <3>3 DEF handleMessage
    <3>4. CASE t = "accept"
      <4>1. PICK target \in Wallets : handleAccept(s, disk, ws[s].peer, target)
        BY <3>1, <3>4 DEF handleMessage
      <4> QED  BY <1>1, <2>1, <4>1, AcceptKeeps
    <3>5. CASE t = "close"
      BY <1>1, <2>1, <3>1, <3>5, CloseKeeps DEF handleMessage
    <3>6. CASE t \notin {"create", "join", "accept", "close"}
      <4>1. PICK id \in Ids : handleData(s, disk, ws[s].peer, t, id)
        BY <3>1, <3>6 DEF handleMessage
      <4> QED  BY <1>1, <2>1, <4>1, DataKeeps
    <3> QED  BY <3>2, <3>3, <3>4, <3>5, <3>6
  <2> QED  BY <2>4, <2>5
<1> QED  BY <1>2, <1>3

\* The handler of a socket that is gone, before and after the connection.
LEMMA DisconnectKeeps ==
    ASSUME IInv, NEW s \in Socks, webSocketClose(s)
    PROVE  IInv'
<1>1. /\ s \in Attached /\ Attached \subseteq Socks /\ handleDisconnect(s, disk)
      /\ ws[s].role # "none" => ensureInitialized.ch
  BY Fields_current DEF webSocketClose, Attached
<1> DEFINE early == ensureInitialized.ch /\ disk.state \in {"waiting", "pending_accept"}
           closes == early /\ ws[s].role = "dapp"
           reverts == early /\ ws[s].role = "wallet" /\ disk.state = "pending_accept"
<1>2. CASE closes
  <2>1. PICK w \in Found("wallet") :
          /\ ws' = [closing(ws, w) EXCEPT ![s] = NoSocket]
          /\ persistState([disk EXCEPT !.state = "closed"]) /\ alarm' = "off"
    BY <1>1, <1>2 DEF handleDisconnect
  <2>2. w \in SUBSET Attached  BY FoundAttached
  <2>3. ws' \in SocketTypes
    BY <1>1, <2>1, <2>2 DEF IInv, Types, SocketTypes, closing, NoSocket
  <2>4. RolesFit'
    BY <1>1, <2>1, <2>2 DEF IInv, Types, SocketTypes, RolesFit, closing, NoSocket, Attached
  <2> QED  BY <1>2, <2>1, <2>3, <2>4, Ends
<1>3. ASSUME ~closes, ws' = [ws EXCEPT ![s] = NoSocket]
      PROVE  /\ ws' \in SocketTypes /\ RolesFit' /\ Attached' = Attached \ {s}
             /\ \A t \in Attached' : ws'[t] = ws[t]
  <2>1. ws' \in SocketTypes  BY <1>1, <1>3 DEF IInv, Types, SocketTypes, NoSocket
  <2>2. Attached' = Attached \ {s} /\ \A t \in Attached' : ws'[t] = ws[t]
    BY <1>1, <1>3 DEF IInv, Types, SocketTypes, NoSocket, Attached
  <2>3. RolesFit'
    BY <1>1, <1>3 DEF IInv, Types, SocketTypes, RolesFit, NoSocket, Attached
  <2> QED  BY <2>1, <2>2, <2>3
<1>4. CASE reverts
  <2>1. /\ ws' = [ws EXCEPT ![s] = NoSocket] /\ alarm' = "unpaired"
        /\ persistState([disk EXCEPT !.state = "waiting", !.wallet = NoPeer, !.reconnect = FALSE])
    BY <1>1, <1>4 DEF handleDisconnect
  <2>2. PICK g : g = [disk EXCEPT !.state = "waiting", !.wallet = NoPeer, !.reconnect = FALSE]
    OBVIOUS
  <2>3. /\ g.state = "waiting" /\ g.wallet = NoPeer /\ g.reconnect = FALSE
        /\ g.dapp = disk.dapp /\ g.pending = disk.pending
    BY <2>2 DEF IInv, Types, Fields
  <2>4. g \in Fields  BY ZenonT(30), <2>2 DEF IInv, Types, Fields, States, Peers
  <2>5. /\ disk' = g /\ mem' \in [f : Fields, init : BOOLEAN, ch : BOOLEAN]
        /\ mem'.f = g /\ mem'.ch
    BY ZenonT(30), <1>4, <2>1, <2>2, <2>4, Persisted
  <2>6. /\ ws' \in SocketTypes /\ RolesFit' /\ Attached' = Attached \ {s}
        /\ \A t \in Attached' : ws'[t] = ws[t]
    BY <1>3, <1>4, <2>1
  <2>7. Types' /\ DiskCurrent' /\ IdKnown' /\ WithinLimit'
    BY <2>1, <2>3, <2>4, <2>5, <2>6 DEF IInv, Types, DiskCurrent, IdKnown, WithinLimit, SocketTypes
  <2>8. PendingHasWallet' /\ ConnectedArmed'
    BY <2>3, <2>5 DEF PendingHasWallet, ConnectedArmed
  <2>9. EarlyBacked'
    <3>1. PICK t \in Attached : ws[t].role = "dapp"  BY <1>4 DEF IInv, EarlyBacked, Early
    <3>2. t \in Attached' /\ ws'[t].role = "dapp"  BY <1>4, <2>6, <3>1
    <3>3. disk.dapp \in Peers /\ disk.pending = {}  BY <1>4 DEF IInv, EarlyBacked, Early
    <3> QED  BY <2>1, <2>3, <2>5, <3>2, <3>3 DEF EarlyBacked, Early
  <2> QED  BY <2>6, <2>7, <2>8, <2>9 DEF IInv
<1>5. CASE ~closes /\ ~reverts
  <2>1. ws' = [ws EXCEPT ![s] = NoSocket] /\ mem' = ensureInitialized /\ disk' = disk /\ alarm' = alarm
    BY <1>1, <1>5 DEF handleDisconnect, untouched
  <2>2. /\ ws' \in SocketTypes /\ RolesFit' /\ Attached' = Attached \ {s}
        /\ \A t \in Attached' : ws'[t] = ws[t]
    BY <1>3, <1>5, <2>1
  <2>3. Types' /\ DiskCurrent' /\ IdKnown' /\ WithinLimit'
    BY ZenonT(30), <2>1, <2>2, Fields_current DEF IInv, Types, DiskCurrent, IdKnown, WithinLimit, SocketTypes
  <2>4. disk.state \in Early => /\ ws[s].role # "dapp"
                                /\ disk.state = "pending_accept" => ws[s].role # "wallet"
    BY <1>1, <1>5 DEF Early
  <2>5. PendingHasWallet'
    BY <2>1, <2>2, <2>4 DEF IInv, PendingHasWallet, Early
  <2>6. EarlyBacked'
    BY <2>1, <2>2, <2>4 DEF IInv, EarlyBacked, Early
  <2>7. ConnectedArmed'
    BY <2>1, <2>2 DEF IInv, ConnectedArmed
  <2> QED  BY <2>2, <2>3, <2>5, <2>6, <2>7 DEF IInv
<1> QED  BY <1>2, <1>4, <1>5

\* The alarm closes the channel; without an id there is no socket of it left.
LEMMA AlarmKeeps == ASSUME IInv, alarm_fires PROVE IInv'
<1>1. ensureInitialized.f = disk /\ alarm' = "off"  BY Fields_current DEF alarm_fires
<1>2. CASE ensureInitialized.ch
  <2>1. ws' = closing(ws, Attached) /\ persistState([disk EXCEPT !.state = "closed"])
    BY <1>1, <1>2 DEF alarm_fires
  <2>2. Attached \in SUBSET Attached  OBVIOUS
  <2>3. ws' \in SocketTypes /\ RolesFit'
    BY <2>1, <2>2, ClosingFits
  <2> QED  BY <1>1, <1>2, <2>1, <2>3, Ends
<1>3. CASE ~ensureInitialized.ch
  <2>1. mem' = ensureInitialized /\ ws' = ws /\ disk' = disk  BY <1>3 DEF alarm_fires
  <2>2. /\ Attached' = Attached /\ RolesFit'
        /\ \A s \in Attached : ws[s].role = "none"
    BY ZenonT(30), <1>3, <2>1, Fields_current DEF IInv, Attached, RolesFit
  <2>3. disk.state \notin Early
    BY <2>2 DEF IInv, EarlyBacked
  <2>4. Types' /\ DiskCurrent' /\ IdKnown' /\ WithinLimit'
    BY ZenonT(30), <1>1, <2>1, <2>2, Fields_current DEF IInv, Types, DiskCurrent, IdKnown, WithinLimit
  <2>5. EarlyBacked' /\ ConnectedArmed' /\ PendingHasWallet'
    BY <2>1, <2>2, <2>3 DEF EarlyBacked, ConnectedArmed, PendingHasWallet, Early
  <2> QED  BY <2>2, <2>4, <2>5 DEF IInv
<1> QED  BY <1>2, <1>3

\* A new socket has no role; with it the object learns its channel id.
LEMMA FetchKeeps == ASSUME IInv, NEW s \in Socks, fetch(s) PROVE IInv'
<1>1. PICK p \in Peers : ws' = [ws EXCEPT ![s] = [rs |-> "open", role |-> "none", peer |-> p]]
  BY ZenonT(30) DEF fetch
<1>2. /\ ws[s].rs = "none" /\ disk' = disk /\ alarm' = alarm
      /\ mem' = [ensureInitialized EXCEPT !.ch = TRUE]
  BY DEF fetch
<1>3. mem' \in [f : Fields, init : BOOLEAN, ch : BOOLEAN] /\ mem'.f = disk /\ mem'.ch
  BY ZenonT(30), <1>2, Fields_current
<1>4. /\ ws' \in SocketTypes /\ Attached \subseteq Socks
      /\ Attached' = Attached \cup {s} /\ s \notin Attached
      /\ ws'[s].role = "none" /\ ws'[s].peer = p
      /\ \A t \in Socks \ {s} : ws'[t] = ws[t]
  BY <1>1, <1>2 DEF IInv, Types, SocketTypes, Attached
<1>5. Types' /\ DiskCurrent' /\ IdKnown' /\ WithinLimit'
  BY <1>2, <1>3, <1>4 DEF IInv, Types, DiskCurrent, IdKnown, WithinLimit
<1>6. RolesFit'
  BY <1>4 DEF IInv, RolesFit
<1>7. PendingHasWallet' /\ ConnectedArmed'
  BY <1>2, <1>4 DEF IInv, PendingHasWallet, ConnectedArmed
<1>8. EarlyBacked'
  BY <1>2, <1>4 DEF IInv, EarlyBacked, Early
<1> QED  BY <1>5, <1>6, <1>7, <1>8 DEF IInv

\* Hibernation drops the fields; storage, sockets and alarm are enough.
LEMMA HibernateKeeps == ASSUME IInv, hibernate PROVE IInv'
<1>1. /\ mem' = [f |-> Fresh, init |-> FALSE, ch |-> FALSE]
      /\ disk' = disk /\ alarm' = alarm /\ ws' = ws /\ Attached' = Attached
  BY DEF hibernate, Attached
<1>2. Fresh \in Fields  BY DEF Fresh, Fields, States, Peers
<1>3. Types' /\ DiskCurrent' /\ IdKnown' /\ WithinLimit'
  BY <1>1, <1>2 DEF IInv, Types, DiskCurrent, IdKnown, WithinLimit
<1>4. RolesFit' /\ PendingHasWallet' /\ ConnectedArmed'
  BY <1>1 DEF IInv, RolesFit, PendingHasWallet, ConnectedArmed
<1>5. EarlyBacked'  BY <1>1 DEF IInv, EarlyBacked, Early
<1> QED  BY <1>3, <1>4, <1>5 DEF IInv

\* A new object satisfies the invariant.
LEMMA InitInv == ASSUME Init PROVE IInv
<1>1. Fresh \in Fields /\ Fresh.state = "none" /\ Fresh.pending = {}
  BY DEF Fresh, Fields, States, Peers
<1>2. Attached = {}  BY DEF Init, Attached, NoSocket
<1>3. Types /\ RolesFit
  BY <1>1, <1>2 DEF Init, Types, SocketTypes, RolesFit, NoSocket
<1>4. WithinLimit  BY <1>1, FS_EmptySet, CFAssumption DEF Init, WithinLimit
<1> QED  BY <1>1, <1>2, <1>3, <1>4
         DEF Init, IInv, DiskCurrent, IdKnown, EarlyBacked, ConnectedArmed, PendingHasWallet, Early

\* Every event and every stutter preserves it.
LEMMA NextInv == ASSUME IInv, [Next]_vars PROVE IInv'
<1>1. CASE \E s \in Socks : fetch(s) \/ webSocketMessage(s) \/ webSocketClose(s)
  BY <1>1, FetchKeeps, MessageKeeps, DisconnectKeeps
<1>2. CASE UNCHANGED vars
  <2>1. mem' = mem /\ disk' = disk /\ alarm' = alarm /\ ws' = ws /\ Attached' = Attached
    BY <1>2 DEF vars, Attached
  <2> QED  BY <2>1 DEF IInv, Types, DiskCurrent, IdKnown, WithinLimit, RolesFit, PendingHasWallet,
                       ConnectedArmed, EarlyBacked
<1> QED  BY <1>1, <1>2, AlarmKeeps, HibernateKeeps DEF Next

\* So it holds always.
LEMMA Invariance == Spec => []IInv
<1>1. Init => IInv  BY InitInv
<1>2. IInv /\ [Next]_vars => IInv'  BY NextInv
<1> QED  BY <1>1, <1>2, PTL DEF Spec

-----------------------------------------------------------------------------
(* The theorems *)

\* Fields, sockets and alarm have their types, and handleData keeps the
\* outstanding requests within PENDING_REQUEST_LIMIT.
THEOREM TypeCorrect == Spec => []TypeOK
<1>1. IInv => TypeOK  BY DEF IInv, Types, SocketTypes, WithinLimit, TypeOK
<1> QED  BY <1>1, Invariance, PTL

\* Whenever the object hibernates, storage holds the fields it had: also after a
\* create whose handler throws before it persists.
THEOREM WakesAsItSlept == Spec => []DiskCurrent
<1>1. IInv => DiskCurrent  BY DEF IInv
<1> QED  BY <1>1, Invariance, PTL

\* A channel in use always has the alarm of its state.
THEOREM AlwaysExpires == Spec => []ExpiryArmed
<1>1. IInv => ExpiryArmed
  BY DEF IInv, ExpiryArmed, EarlyBacked, ConnectedArmed, Early
<1> QED  BY <1>1, Invariance, PTL

\* A channel that expects an accept has its wallet attached.
THEOREM AcceptHasWallet == Spec => []PendingHasWallet
<1>1. IInv => PendingHasWallet  BY DEF IInv
<1> QED  BY <1>1, Invariance, PTL

-----------------------------------------------------------------------------
(* The channel limit: the inductive invariant *)

Passed == {ch \in Channels : ShardOf[ch] < sweep}
SweptBounded == swept <= Cardinality(Passed)
LostBounded == lost <= MaxLost

\* The number the counter stands for
Owed == Cardinality(present) + lost + Cardinality(In("dec")) - Cardinality(In("inc")) + swept

CapacityInv == Accounting /\ SweptBounded /\ LostBounded /\ OvershootBounded

-----------------------------------------------------------------------------
(* Arithmetic modulo Usize *)

\* Division with remainder.
LEMMA DivMod ==
    ASSUME NEW n \in Nat \ {0}, NEW a \in Int
    PROVE  a % n \in 0 .. n - 1 /\ a \div n \in Int /\ a = (n * (a \div n)) + (a % n)
OBVIOUS

\* The remainder is unique.
LEMMA ModUnique ==
    ASSUME NEW n \in Nat \ {0}, NEW q \in Int, NEW r \in 0 .. n - 1
    PROVE  ((n * q) + r) % n = r
OBVIOUS

\* What is added to a wrapped counter might as well have been added before: the
\* fetch_add and fetch_sub of an AtomicUsize.
LEMMA ModAdd ==
    ASSUME NEW n \in Nat \ {0}, NEW a \in Int, NEW b \in Int
    PROVE  ((a % n) + b) % n = (a + b) % n
<1> DEFINE q == a \div n
           r == a % n
           p == (r + b) \div n
           s == (r + b) % n
<1>1. q \in Int /\ r \in 0 .. n - 1 /\ a = (n * q) + r  BY DivMod
<1>2. r + b \in Int  BY <1>1
<1>3. p \in Int /\ s \in 0 .. n - 1 /\ r + b = (n * p) + s  BY <1>2, DivMod
<1> HIDE DEF q, r, p, s
<1>4. a + b = (n * (q + p)) + s  BY <1>1, <1>3
<1>5. q + p \in Int  BY <1>1, <1>3
<1>6. (a + b) % n = s  BY ZenonT(30), <1>3, <1>4, <1>5, ModUnique
<1> QED  BY <1>6 DEF s, r

\* A number below the modulus is its own remainder.
LEMMA ModSmall ==
    ASSUME NEW n \in Nat \ {0}, NEW a \in 0 .. n - 1
    PROVE  a % n = a
OBVIOUS

\* A counter that has gone below zero is near the top.
LEMMA ModNegative ==
    ASSUME NEW n \in Nat \ {0}, NEW a \in Int, a < 0, a >= -n
    PROVE  a % n = a + n
OBVIOUS

-----------------------------------------------------------------------------
(* Counting *)

\* Tasks at a step and the channels are finitely many.
LEMMA Finite ==
    ASSUME CapacityConstants, CapacityTypeOK
    PROVE  /\ \A step : IsFiniteSet(In(step)) /\ Cardinality(In(step)) \in Nat
           /\ IsFiniteSet(present) /\ Cardinality(present) \in Nat
           /\ Cardinality(present) <= Cardinality(Channels)
           /\ IsFiniteSet(Passed) /\ Cardinality(Passed) \in Nat
           /\ Cardinality(Passed) <= Cardinality(Channels)
           /\ Cardinality(Tasks) \in Nat /\ Cardinality(Channels) \in Nat
           /\ Owed \in Int
<1>1. IsFiniteSet(Tasks) /\ IsFiniteSet(Channels)  BY DEF CapacityConstants
<1>2. ASSUME NEW step PROVE IsFiniteSet(In(step)) /\ Cardinality(In(step)) \in Nat
  <2>1. In(step) \subseteq Tasks  BY DEF In
  <2> QED  BY <1>1, <2>1, FS_Subset, FS_CardinalityType
<1>3. present \subseteq Channels /\ Passed \subseteq Channels  BY DEF CapacityTypeOK, Passed
<1>4. /\ IsFiniteSet(present) /\ Cardinality(present) <= Cardinality(Channels)
      /\ IsFiniteSet(Passed) /\ Cardinality(Passed) <= Cardinality(Channels)
  BY <1>1, <1>3, FS_Subset
<1>5. /\ Cardinality(present) \in Nat /\ Cardinality(Passed) \in Nat
      /\ Cardinality(Tasks) \in Nat /\ Cardinality(Channels) \in Nat
  BY <1>1, <1>4, FS_CardinalityType
<1>6. Owed \in Int
  BY <1>2, <1>5 DEF Owed, CapacityTypeOK
<1> QED  BY <1>2, <1>4, <1>5, <1>6

\* So are the channels the sweep has passed after a step.
LEMMA PassedAfter ==
    ASSUME CapacityConstants
    PROVE  IsFiniteSet(Passed') /\ Cardinality(Passed') \in Nat
<1>1. Passed' \subseteq Channels  BY DEF Passed
<1> QED  BY <1>1, FS_Subset, FS_CardinalityType DEF CapacityConstants

\* How many tasks are at a step
Count(f, step) == Cardinality({t \in Tasks : f[t] = step})

\* The counts of the properties, before and after a step.
LEMMA Counts ==
    /\ Cardinality(In("room")) = Count(pc, "room") /\ Cardinality(In("room"))' = Count(pc', "room")
    /\ Cardinality(In("inc")) = Count(pc, "inc")   /\ Cardinality(In("inc"))' = Count(pc', "inc")
    /\ Cardinality(In("dec")) = Count(pc, "dec")   /\ Cardinality(In("dec"))' = Count(pc', "dec")
BY DEF In, Count

\* Counts are numbers.
LEMMA CountNat == ASSUME IsFiniteSet(Tasks), NEW f, NEW step PROVE Count(f, step) \in Nat
<1>1. {t \in Tasks : f[t] = step} \subseteq Tasks  OBVIOUS
<1> QED  BY <1>1, FS_Subset, FS_CardinalityType DEF Count

One(p) == IF p THEN 1 ELSE 0

\* g is f but for task t, which has gone to step b
Goes(f, g, t, b) == \A x \in Tasks : g[x] = IF x = t THEN b ELSE f[x]

\* The counts of the properties after a task has gone from step a to step b
Shifted(f, g, a, b) ==
    \A step \in {"room", "inc", "dec"} :
        Count(g, step) = Count(f, step) + One(b = step) - One(a = step)

\* A task that goes from one step to another changes these two counts by one, and
\* no other.
LEMMA Move ==
    ASSUME IsFiniteSet(Tasks), NEW f, NEW g, NEW t \in Tasks, NEW a, NEW b,
           f[t] = a, a # b, Goes(f, g, t, b)
    PROVE  Shifted(f, g, a, b)
<1> DEFINE At(h, step) == {x \in Tasks : h[x] = step}
<1>1. At(g, a) = At(f, a) \ {t} /\ t \in At(f, a)  BY DEF Goes
<1>2. At(g, b) = At(f, b) \cup {t} /\ t \notin At(f, b)  BY DEF Goes
<1>3. \A step : step # a /\ step # b => At(g, step) = At(f, step)  BY DEF Goes
<1>4. IsFiniteSet(At(f, a)) /\ IsFiniteSet(At(f, b))  BY FS_Subset
<1>5. Cardinality(At(f, a) \ {t}) = Cardinality(At(f, a)) - 1  BY ZenonT(30), <1>1, <1>4, FS_RemoveElement
<1>6. Cardinality(At(f, b) \cup {t}) = Cardinality(At(f, b)) + 1  BY ZenonT(30), <1>2, <1>4, FS_AddElement
<1>7. \A h, step : Count(h, step) = Cardinality(At(h, step))  BY DEF Count
<1>8. \A step : Count(f, step) \in Nat  BY CountNat
<1> HIDE DEF At
<1>9. /\ Count(g, a) = Count(f, a) - 1 /\ Count(g, b) = Count(f, b) + 1
      /\ \A step : step # a /\ step # b => Count(g, step) = Count(f, step)
  BY <1>1, <1>2, <1>3, <1>5, <1>6, <1>7
<1>10. ASSUME NEW step PROVE Count(g, step) = Count(f, step) + One(b = step) - One(a = step)
  <2>1. CASE step = a  BY <1>8, <1>9, <2>1 DEF One
  <2>2. CASE step = b  BY <1>8, <1>9, <2>2 DEF One
  <2>3. CASE step # a /\ step # b
    <3>1. Count(g, step) = Count(f, step)  BY <1>9, <2>3
    <3>2. One(b = step) = 0 /\ One(a = step) = 0  BY <2>3 DEF One
    <3> QED  BY <1>8, <3>1, <3>2
  <2> QED  BY <2>1, <2>2, <2>3
<1> QED  BY <1>10 DEF Shifted

\* Where a task is idle, the ones that were promised room and the ones that owe an
\* increment are among the others.
LEMMA Others ==
    ASSUME CapacityConstants, CapacityTypeOK, NEW t \in Tasks, pc[t] = "idle"
    PROVE  Cardinality(In("room")) + Cardinality(In("inc")) <= Cardinality(Tasks) - 1
<1> DEFINE R == In("room")  I == In("inc")
<1>1. IsFiniteSet(R) /\ IsFiniteSet(I) /\ Cardinality(R) \in Nat /\ Cardinality(I) \in Nat  BY Finite
<1>2. R \cap I = {} /\ R \cup I \subseteq Tasks \ {t}  BY DEF In
<1>3. IsFiniteSet(Tasks)  BY DEF CapacityConstants
<1>4. IsFiniteSet(Tasks \ {t}) /\ Cardinality(Tasks \ {t}) = Cardinality(Tasks) - 1
  BY <1>3, FS_RemoveElement
<1>5. Cardinality(R \cup I) <= Cardinality(Tasks) - 1  BY <1>2, <1>4, FS_Subset
<1>6. Cardinality(R \cup I) = Cardinality(R) + Cardinality(I) - Cardinality(R \cap I)
  BY <1>1, FS_Union
<1>7. Cardinality(R \cap I) = 0  BY <1>2, FS_EmptySet
<1> QED  BY <1>1, <1>5, <1>6, <1>7

\* What at_capacity promises: a counter below the limit has not wrapped, so at
\* most the increments owed by other tasks are missing from it.
LEMMA RoomLeft ==
    ASSUME CapacityConstants, WideCounter, CapacityInv,
           NEW t \in Tasks, pc[t] = "idle", total < MaxChannels
    PROVE  Cardinality(present) + Cardinality(In("room")) + 1 <= MaxChannels + Cardinality(Tasks) - 1
<1> USE DEF CapacityConstants
<1>1. CapacityTypeOK /\ total = Owed % Usize  BY DEF CapacityInv, Accounting, Owed
<1>2. Cardinality(In("room")) + Cardinality(In("inc")) <= Cardinality(Tasks) - 1  BY <1>1, Others
<1> DEFINE n == Cardinality(present)
           i == Cardinality(In("inc"))
           d == Cardinality(In("dec"))
           r == Cardinality(In("room"))
           T == Cardinality(Tasks)
           C == Cardinality(Channels)
<1>3. /\ n \in Nat /\ i \in Nat /\ d \in Nat /\ r \in Nat /\ T \in Nat /\ C \in Nat
      /\ n <= C /\ swept \in Nat /\ lost \in Nat
  BY <1>1, Finite DEF CapacityTypeOK
<1>4. swept <= C /\ lost <= MaxLost
  BY <1>1, <1>3, Finite DEF CapacityInv, SweptBounded, LostBounded
<1>5. d <= T
  <2>1. In("dec") \subseteq Tasks  BY DEF In
  <2> QED  BY <2>1, FS_Subset
<1>6. Owed = n + lost + d - i + swept  BY DEF Owed
<1>7. 2 * C + MaxLost + T < Usize /\ MaxChannels + T <= Usize  BY DEF WideCounter
<1>8. r + i <= T - 1  BY <1>2
<1> HIDE DEF n, i, d, r, T, C
<1>9. Owed \in Int /\ Owed < Usize /\ Owed >= -T  BY <1>3, <1>4, <1>5, <1>6, <1>7, <1>8
<1>10. Owed >= 0
  <2> SUFFICES ASSUME Owed < 0 PROVE FALSE  BY <1>9
  <2>1. Owed >= -Usize  BY <1>3, <1>7, <1>9
  <2>2. total = Owed + Usize  BY ZenonT(30), <1>1, <1>9, <2>1, ModNegative
  <2> QED  BY <1>3, <1>7, <1>9, <2>2
<1>11. Owed \in 0 .. Usize - 1  BY <1>9, <1>10
<1>12. total = Owed  BY <1>1, <1>11, ModSmall
<1>13. n <= MaxChannels - 1 + i  BY <1>3, <1>6, <1>12
<1> QED  BY <1>3, <1>8, <1>13 DEF n, r, T

-----------------------------------------------------------------------------
(* One lemma per step *)

Sum(p, l, f, s) == Cardinality(p) + l + Count(f, "dec") - Count(f, "inc") + s

\* What the invariant says before a step.
LEMMA CapacityBefore ==
    ASSUME CapacityConstants, CapacityInv
    PROVE  /\ CapacityTypeOK /\ total = Sum(present, lost, pc, swept) % Usize
           /\ Cardinality(present) + Count(pc, "room") <= MaxChannels + Cardinality(Tasks) - 1
           /\ SweptBounded /\ LostBounded
           /\ \A step : Count(pc, step) \in Nat
           /\ IsFiniteSet(present) /\ Cardinality(present) \in Nat
           /\ pc \in [Tasks -> Steps] /\ swept \in Nat /\ lost \in Nat
           /\ IsFiniteSet(Tasks) /\ Cardinality(Tasks) \in Nat
           /\ MaxChannels \in Nat /\ Usize \in Nat \ {0}
           /\ Sum(present, lost, pc, swept) \in Int
<1>1. CapacityTypeOK /\ total = Sum(present, lost, pc, swept) % Usize
  BY Counts DEF CapacityInv, Accounting, Sum
<1>2. Cardinality(present) + Count(pc, "room") <= MaxChannels + Cardinality(Tasks) - 1
  BY Counts DEF CapacityInv, OvershootBounded
<1>3. IsFiniteSet(Tasks)  BY DEF CapacityConstants
<1>4. \A step : Count(pc, step) \in Nat  BY <1>3, CountNat
<1>5. /\ IsFiniteSet(present) /\ Cardinality(present) \in Nat /\ swept \in Nat /\ lost \in Nat
      /\ Cardinality(Tasks) \in Nat /\ pc \in [Tasks -> Steps]
  BY <1>1, Finite DEF CapacityTypeOK
<1>6. Sum(present, lost, pc, swept) \in Int  BY <1>4, <1>5 DEF Sum
<1> QED  BY <1>1, <1>2, <1>3, <1>4, <1>5, <1>6 DEF CapacityInv, CapacityConstants

\* What has to be shown after it.
LEMMA After ==
    ASSUME CapacityTypeOK', total' = Sum(present', lost', pc', swept') % Usize,
           Cardinality(present') + Count(pc', "room") <= MaxChannels + Cardinality(Tasks) - 1,
           SweptBounded', LostBounded'
    PROVE  CapacityInv'
<1>1. Accounting'  BY Counts DEF Accounting, Sum
<1>2. OvershootBounded'  BY Counts DEF OvershootBounded
<1> QED  BY <1>1, <1>2 DEF CapacityInv

\* A create that reads the counter is promised room only where there is some.
LEMMA at_capacityStep ==
    ASSUME CapacityConstants, WideCounter, CapacityInv, NEW t \in Tasks, at_capacity(t)
    PROVE  CapacityInv'
<1> USE CapacityBefore
<1>1. pc[t] = "idle" /\ UNCHANGED <<present, taken, total, sweep, swept, lost>>
  BY DEF at_capacity
<1>2. PICK b \in {"full", "room"} : pc' = [pc EXCEPT ![t] = b] /\ (b = "room" => ~(total >= MaxChannels))
  BY ZenonT(30) DEF at_capacity
<1>3. b \in Steps /\ "idle" # b  BY DEF Steps
<1>4. /\ Count(pc', "inc") = Count(pc, "inc") /\ Count(pc', "dec") = Count(pc, "dec")
      /\ b = "full" => Count(pc', "room") = Count(pc, "room")
      /\ b = "room" => Count(pc', "room") = Count(pc, "room") + 1
  <2>1. Shifted(pc, pc', pc[t], b)
    <3>1. Goes(pc, pc', t, b) /\ pc[t] # b  BY <1>1, <1>2, <1>3 DEF Goes
    <3> QED  BY <3>1, Move
  <2> QED  BY <1>1, <2>1 DEF Shifted, One
<1>5. CapacityTypeOK'  BY <1>1, <1>2, <1>3 DEF CapacityTypeOK
<1>6. total' = Sum(present', lost', pc', swept') % Usize  BY <1>1, <1>4 DEF Sum
<1>7. SweptBounded' /\ LostBounded'  BY <1>1 DEF SweptBounded, LostBounded, Passed
<1>8. Cardinality(present') + Count(pc', "room") <= MaxChannels + Cardinality(Tasks) - 1
  <2>1. CASE b = "full"  BY <1>1, <1>4, <2>1
  <2>2. CASE b = "room"
    <3>1. total < MaxChannels  BY <1>2, <2>2 DEF CapacityTypeOK
    <3>2. Cardinality(present) + Count(pc, "room") + 1 <= MaxChannels + Cardinality(Tasks) - 1
      BY <1>1, <3>1, RoomLeft, Counts
    <3> QED  BY <1>1, <1>4, <2>2, <3>2
  <2> QED  BY <2>1, <2>2
<1> QED  BY <1>5, <1>6, <1>7, <1>8, After

\* A create turns the room it was promised into a channel and a debt of one, or
\* removes a channel that is counted as lost.
LEMMA create_channelStep ==
    ASSUME CapacityConstants, CapacityInv, NEW t \in Tasks, NEW ch \in Channels, create_channel(t, ch)
    PROVE  CapacityInv'
<1>0. /\ CapacityTypeOK /\ total = Sum(present, lost, pc, swept) % Usize
      /\ Cardinality(present) + Count(pc, "room") <= MaxChannels + Cardinality(Tasks) - 1
      /\ SweptBounded /\ LostBounded /\ pc \in [Tasks -> Steps]
      /\ IsFiniteSet(present) /\ IsFiniteSet(Tasks) /\ MaxChannels \in Nat /\ Cardinality(Tasks) \in Nat
  BY CapacityBefore
<1> DEFINE n == Cardinality(present)
<1>10. /\ n \in Nat /\ swept \in Nat /\ lost \in Nat
       /\ Count(pc, "room") \in Nat /\ Count(pc, "inc") \in Nat /\ Count(pc, "dec") \in Nat
  BY CapacityBefore
<1>1. /\ pc[t] \in {"room", "full"} /\ lost' <= MaxLost
      /\ UNCHANGED <<taken, total, sweep, swept>>
  BY DEF create_channel
<1>2. PICK b \in {"idle", "inc"} :
        /\ pc' = [pc EXCEPT ![t] = b]
        /\ \/ b = "idle" /\ UNCHANGED <<present, lost>>
           \/ /\ ch \notin taken /\ b = "idle" /\ pc[t] = "full" /\ present' = present \ {ch}
              /\ lost' = IF ch \in present THEN lost + 1 ELSE lost
           \/ /\ ch \notin taken /\ b = "inc" /\ pc[t] = "room" /\ present' = present \cup {ch}
              /\ lost' = IF ch \in present THEN lost + 1 ELSE lost
  BY DEF create_channel
<1>3. Shifted(pc, pc', pc[t], b)
  <2>1. Goes(pc, pc', t, b) /\ pc[t] # b  BY <1>0, <1>1, <1>2 DEF Goes, Steps
  <2> QED  BY <1>0, <2>1, Move
<1>4. /\ Cardinality(present \ {ch}) = IF ch \in present THEN Cardinality(present) - 1 ELSE Cardinality(present)
      /\ Cardinality(present \cup {ch}) = IF ch \in present THEN Cardinality(present) ELSE Cardinality(present) + 1
  BY ZenonT(30), <1>0, FS_RemoveElement, FS_AddElement
<1>5. CapacityTypeOK'  BY <1>0, <1>1, <1>2 DEF CapacityTypeOK, Steps
<1>6. /\ Sum(present', lost', pc', swept') = Sum(present, lost, pc, swept)
      /\ Cardinality(present') + Count(pc', "room") <= n + Count(pc, "room")
  <2>1. /\ Count(pc', "dec") = Count(pc, "dec")
        /\ Count(pc', "inc") = Count(pc, "inc") + One(b = "inc")
        /\ Count(pc', "room") = Count(pc, "room") - One(pc[t] = "room")
    BY <1>10, <1>1, <1>2, <1>3 DEF Shifted, One
  <2> HIDE DEF n
  <2>0. /\ Sum(present, lost, pc, swept) = n + lost + Count(pc, "dec") - Count(pc, "inc") + swept
        /\ Sum(present', lost', pc', swept') =
             Cardinality(present') + lost' + Count(pc', "dec") - Count(pc', "inc") + swept
    BY <1>1 DEF Sum, n
  <2>2. CASE b = "idle" /\ UNCHANGED <<present, lost>>
    BY <1>10, <2>1, <2>2, <2>0 DEF One, n
  <2>3. CASE /\ b = "idle" /\ present' = present \ {ch}
             /\ lost' = IF ch \in present THEN lost + 1 ELSE lost
    <3>1. CASE ch \in present  BY <1>10, <1>4, <2>1, <2>0, <2>3, <3>1 DEF One, n
    <3>2. CASE ch \notin present  BY <1>10, <1>4, <2>1, <2>0, <2>3, <3>2 DEF One, n
    <3> QED  BY <3>1, <3>2
  <2>4. CASE /\ b = "inc" /\ pc[t] = "room" /\ present' = present \cup {ch}
             /\ lost' = IF ch \in present THEN lost + 1 ELSE lost
    <3>1. CASE ch \in present  BY <1>10, <1>4, <2>1, <2>0, <2>4, <3>1 DEF One, n
    <3>2. CASE ch \notin present  BY <1>10, <1>4, <2>1, <2>0, <2>4, <3>2 DEF One, n
    <3> QED  BY <3>1, <3>2
  <2> QED  BY <1>2, <2>2, <2>3, <2>4
<1>7. Cardinality(present') + Count(pc', "room") <= MaxChannels + Cardinality(Tasks) - 1
  <2>1. Count(pc', "room") \in Nat  BY <1>0, CountNat
  <2>2. Cardinality(present') \in Nat
    BY ZenonT(30), <1>5, FS_CardinalityType, FS_Subset DEF CapacityTypeOK, CapacityConstants
  <2> QED  BY <1>0, <1>10, <1>6, <2>1, <2>2
<1>8. SweptBounded' /\ LostBounded'  BY <1>0, <1>1 DEF SweptBounded, LostBounded, Passed
<1>9. total' = Sum(present', lost', pc', swept') % Usize  BY <1>0, <1>1, <1>6
<1> QED  BY <1>5, <1>7, <1>8, <1>9, After

\* A close trades a channel for a debt of one.
LEMMA remove_channelStep ==
    ASSUME CapacityConstants, CapacityInv, NEW t \in Tasks, NEW ch \in Channels, remove_channel(t, ch)
    PROVE  CapacityInv'
<1> USE CapacityBefore
<1>1. /\ pc[t] = "idle" /\ ch \in present /\ present' = present \ {ch} /\ taken' = taken \ {ch}
      /\ pc' = [pc EXCEPT ![t] = "dec"] /\ UNCHANGED <<total, sweep, swept, lost>>
  BY DEF remove_channel
<1>2. Shifted(pc, pc', pc[t], "dec")
  <2>1. Goes(pc, pc', t, "dec") /\ pc[t] # "dec"  BY <1>1 DEF Goes
  <2> QED  BY <2>1, Move
<1>3. Cardinality(present \ {ch}) = Cardinality(present) - 1  BY ZenonT(30), <1>1, FS_RemoveElement
<1>4. CapacityTypeOK'  BY <1>1 DEF CapacityTypeOK, Steps
<1>5. Sum(present', lost', pc', swept') = Sum(present, lost, pc, swept)
  BY <1>1, <1>2, <1>3 DEF Sum, Shifted, One
<1>6. Cardinality(present') + Count(pc', "room") <= MaxChannels + Cardinality(Tasks) - 1
  BY <1>1, <1>2, <1>3 DEF Shifted, One
<1>7. SweptBounded' /\ LostBounded'  BY <1>1 DEF SweptBounded, LostBounded, Passed
<1>8. total' = Sum(present', lost', pc', swept') % Usize  BY <1>1, <1>5
<1> QED  BY <1>4, <1>6, <1>7, <1>8, After

\* A task settles its debt: the counter and what is owed move together.
LEMMA inc_totalStep ==
    ASSUME CapacityConstants, CapacityInv, NEW t \in Tasks, inc_total(t)
    PROVE  CapacityInv'
<1> USE CapacityBefore
<1>1. /\ pc[t] = "inc" /\ total' = (total + 1) % Usize /\ pc' = [pc EXCEPT ![t] = "idle"]
      /\ UNCHANGED <<present, taken, sweep, swept, lost>>
  BY DEF inc_total
<1>2. Shifted(pc, pc', pc[t], "idle")
  <2>1. Goes(pc, pc', t, "idle") /\ pc[t] # "idle"  BY <1>1 DEF Goes
  <2> QED  BY <2>1, Move
<1>3. Sum(present', lost', pc', swept') = Sum(present, lost, pc, swept) + 1
  BY <1>1, <1>2 DEF Sum, Shifted, One
<1>4. total' = Sum(present', lost', pc', swept') % Usize  BY <1>1, <1>3, ModAdd
<1>5. CapacityTypeOK'
  <2>1. total + 1 \in Int  BY DEF CapacityTypeOK
  <2>2. total' \in 0 .. Usize - 1  BY <1>1, <2>1, DivMod
  <2> QED  BY <1>1, <2>2 DEF CapacityTypeOK, Steps
<1>6. Cardinality(present') + Count(pc', "room") <= MaxChannels + Cardinality(Tasks) - 1
  BY <1>1, <1>2 DEF Shifted, One
<1>7. SweptBounded' /\ LostBounded'  BY <1>1 DEF SweptBounded, LostBounded, Passed
<1> QED  BY <1>4, <1>5, <1>6, <1>7, After

\* The same for a close.
LEMMA dec_totalStep ==
    ASSUME CapacityConstants, CapacityInv, NEW t \in Tasks, dec_total(t)
    PROVE  CapacityInv'
<1> USE CapacityBefore
<1>1. /\ pc[t] = "dec" /\ total' = (total - 1) % Usize /\ pc' = [pc EXCEPT ![t] = "idle"]
      /\ UNCHANGED <<present, taken, sweep, swept, lost>>
  BY DEF dec_total
<1>2. Shifted(pc, pc', pc[t], "idle")
  <2>1. Goes(pc, pc', t, "idle") /\ pc[t] # "idle"  BY <1>1 DEF Goes
  <2> QED  BY <2>1, Move
<1>3. Sum(present', lost', pc', swept') = Sum(present, lost, pc, swept) + (-1)
  BY <1>1, <1>2 DEF Sum, Shifted, One
<1>4. total' = Sum(present', lost', pc', swept') % Usize
  <2>1. total - 1 = total + (-1)  BY DEF CapacityTypeOK
  <2> QED  BY <1>1, <1>3, <2>1, ModAdd
<1>5. CapacityTypeOK'
  <2>1. total - 1 \in Int  BY DEF CapacityTypeOK
  <2>2. total' \in 0 .. Usize - 1  BY <1>1, <2>1, DivMod
  <2> QED  BY <1>1, <2>2 DEF CapacityTypeOK, Steps
<1>6. Cardinality(present') + Count(pc', "room") <= MaxChannels + Cardinality(Tasks) - 1
  BY <1>1, <1>2 DEF Shifted, One
<1>7. SweptBounded' /\ LostBounded'  BY <1>1 DEF SweptBounded, LostBounded, Passed
<1> QED  BY <1>4, <1>5, <1>6, <1>7, After

\* Joins, accepts and connections do not touch what is counted.
LEMMA ProgressStep ==
    ASSUME CapacityConstants, CapacityInv, NEW ch \in Channels, Progress(ch)
    PROVE  CapacityInv'
<1> USE CapacityBefore
<1>1. /\ ch \in present /\ taken' = IF ch \in taken THEN taken \ {ch} ELSE taken \cup {ch}
      /\ UNCHANGED <<present, total, pc, sweep, swept, lost>>
  BY DEF Progress
<1>2. CapacityTypeOK'  BY <1>1 DEF CapacityTypeOK
<1>3. SweptBounded' /\ LostBounded'  BY <1>1 DEF SweptBounded, LostBounded, Passed
<1> QED  BY <1>1, <1>2, <1>3, After

\* A sweep of one shard moves the channels it removes to what is owed, and there
\* are no more of them than the shard has.
LEMMA cleanup_shardStep ==
    ASSUME CapacityConstants, CapacityInv, NEW expired \in SUBSET present, cleanup_shard(expired)
    PROVE  CapacityInv'
<1> USE CapacityBefore
<1> DEFINE shard == {ch \in Channels : ShardOf[ch] = sweep}
<1>1. /\ sweep <= Shards /\ present' = present \ expired /\ taken' = taken \ expired
      /\ swept' = swept + Cardinality(expired) /\ sweep' = sweep + 1
      /\ UNCHANGED <<total, pc, lost>> /\ expired \subseteq shard
  BY DEF cleanup_shard, CapacityTypeOK
<1>2. /\ Cardinality(present \ expired) = Cardinality(present) - Cardinality(expired)
      /\ IsFiniteSet(expired) /\ Cardinality(expired) \in Nat
      /\ Cardinality(expired) <= Cardinality(present)
  <2>1. /\ IsFiniteSet(expired) /\ Cardinality(expired) <= Cardinality(present)
    BY FS_Subset
  <2>2. Cardinality(expired) \in Nat  BY <2>1, FS_CardinalityType
  <2>3. Cardinality(present \ expired) = Cardinality(present) - Cardinality(present \cap expired)
    BY ZenonT(30), FS_Difference
  <2>4. present \cap expired = expired  OBVIOUS
  <2> QED  BY ZenonT(30), <2>1, <2>2, <2>3, <2>4
<1>3. CapacityTypeOK'  BY <1>1, <1>2 DEF CapacityTypeOK, CapacityConstants
<1>4. Sum(present', lost', pc', swept') = Sum(present, lost, pc, swept)
  BY <1>1, <1>2 DEF Sum
<1>5. total' = Sum(present', lost', pc', swept') % Usize  BY <1>1, <1>4
<1>6. Cardinality(present') + Count(pc', "room") <= MaxChannels + Cardinality(Tasks) - 1
  BY <1>1, <1>2
<1>7. SweptBounded'
  <2>1. IsFiniteSet(Passed) /\ Cardinality(Passed) \in Nat  BY Finite
  <2>2. IsFiniteSet(Passed') /\ Cardinality(Passed') \in Nat  BY PassedAfter
  <2>3. Passed \cap expired = {} /\ Passed \cup expired \subseteq Passed'
    BY <1>1 DEF Passed, CapacityTypeOK, CapacityConstants
  <2>4. Cardinality(Passed \cup expired) = Cardinality(Passed) + Cardinality(expired) - Cardinality(Passed \cap expired)
    BY <1>2, <2>1, FS_Union
  <2>5. Cardinality(Passed \cap expired) = 0  BY ZenonT(30), <2>3, FS_EmptySet
  <2>6. Cardinality(Passed \cup expired) <= Cardinality(Passed')  BY <2>2, <2>3, FS_Subset
  <2>7. swept <= Cardinality(Passed)  BY DEF SweptBounded
  <2>8. swept + Cardinality(expired) <= Cardinality(Passed')
    BY <1>2, <2>1, <2>2, <2>4, <2>5, <2>6, <2>7
  <2> QED  BY <1>1, <2>8 DEF SweptBounded
<1>8. LostBounded'  BY <1>1 DEF LostBounded
<1> QED  BY <1>3, <1>5, <1>6, <1>7, <1>8, After

\* At the end of the sweep the counter loses what the sweep removed.
LEMMA cleanup_totalStep ==
    ASSUME CapacityConstants, CapacityInv, cleanup_total
    PROVE  CapacityInv'
<1> USE CapacityBefore
<1>1. /\ total' = (total - swept) % Usize /\ sweep' = 1 /\ swept' = 0
      /\ UNCHANGED <<present, taken, pc, lost>>
  BY DEF cleanup_total
<1>2. Sum(present', lost', pc', swept') = Sum(present, lost, pc, swept) + (-swept)
  BY <1>1 DEF Sum
<1>3. total' = Sum(present', lost', pc', swept') % Usize
  <2>1. total - swept = total + (-swept) /\ -swept \in Int  BY DEF CapacityTypeOK
  <2> QED  BY ZenonT(30), <1>1, <1>2, <2>1, ModAdd
<1>4. CapacityTypeOK'
  <2>1. total - swept \in Int  BY DEF CapacityTypeOK
  <2>2. total' \in 0 .. Usize - 1  BY <1>1, <2>1, DivMod
  <2> QED  BY <1>1, <2>2 DEF CapacityTypeOK, CapacityConstants
<1>5. SweptBounded'
  <2>1. Cardinality(Passed') \in Nat  BY PassedAfter
  <2> QED  BY <1>1, <2>1 DEF SweptBounded
<1>6. LostBounded'  BY <1>1 DEF LostBounded
<1> QED  BY <1>1, <1>3, <1>4, <1>5, <1>6, After

\* A restart counts what it loads, and nothing is owed.
LEMMA from_singleStep ==
    ASSUME CapacityConstants, WideCounter, CapacityInv, NEW saved \in SUBSET Channels, from_single(saved)
    PROVE  CapacityInv'
<1> USE CapacityBefore
<1>1. /\ saved \in {present, {}} /\ present' = saved /\ taken' \subseteq taken \cap saved
      /\ total' = Cardinality(saved) /\ pc' = [t \in Tasks |-> "idle"]
      /\ sweep' = 1 /\ swept' = 0 /\ lost' = 0
  BY DEF from_single
<1>2. /\ Cardinality(saved) \in Nat /\ Cardinality(saved) <= Cardinality(present)
  <2>1. saved \subseteq present  BY <1>1
  <2> QED  BY <2>1, FS_Subset, FS_CardinalityType
<1>3. \A step \in {"room", "inc", "dec"} : Count(pc', step) = 0
  <2>1. \A step \in {"room", "inc", "dec"} : {t \in Tasks : pc'[t] = step} = {}  BY <1>1
  <2> QED  BY ZenonT(30), <2>1, FS_EmptySet DEF Count
<1>4. Cardinality(saved) \in 0 .. Usize - 1
  <2>1. /\ Cardinality(present) <= Cardinality(Channels) /\ Cardinality(Channels) \in Nat
    BY Finite
  <2> QED  BY <1>2, <2>1 DEF WideCounter, CapacityConstants
<1>5. CapacityTypeOK'  BY <1>1, <1>4 DEF CapacityTypeOK, Steps, CapacityConstants
<1>6. Sum(present', lost', pc', swept') = Cardinality(saved)  BY <1>1, <1>2, <1>3 DEF Sum
<1>7. total' = Sum(present', lost', pc', swept') % Usize  BY ZenonT(30), <1>1, <1>4, <1>6, ModSmall
<1>8. Cardinality(present') + Count(pc', "room") <= MaxChannels + Cardinality(Tasks) - 1
  BY <1>1, <1>2, <1>3
<1>9. SweptBounded' /\ LostBounded'
  <2>1. Cardinality(Passed') \in Nat  BY PassedAfter
  <2> QED  BY <1>1, <2>1 DEF SweptBounded, LostBounded, CapacityConstants
<1> QED  BY <1>5, <1>7, <1>8, <1>9, After

-----------------------------------------------------------------------------
(* The invariant *)

\* An empty relay owes nothing.
LEMMA CapacityInvInit == ASSUME CapacityConstants, CapacityInit PROVE CapacityInv
<1>1. /\ present = {} /\ taken = {} /\ total = 0 /\ pc = [t \in Tasks |-> "idle"]
      /\ sweep = 1 /\ swept = 0 /\ lost = 0
  BY DEF CapacityInit
<1>2. CapacityTypeOK  BY <1>1 DEF CapacityTypeOK, Steps, CapacityConstants
<1>3. Cardinality(present) = 0  BY <1>1, FS_EmptySet
<1>4. In("room") = {} /\ In("inc") = {} /\ In("dec") = {}  BY <1>1 DEF In
<1>5. /\ Cardinality(In("room")) = 0 /\ Cardinality(In("inc")) = 0 /\ Cardinality(In("dec")) = 0
  BY <1>4, FS_EmptySet
<1>6. 0 % Usize = 0  BY ModSmall DEF CapacityConstants
<1>7. Accounting  BY <1>1, <1>2, <1>3, <1>5, <1>6 DEF Accounting
<1>8. Cardinality(Tasks) \in Nat /\ Cardinality(Tasks) # 0
  BY FS_CardinalityType, FS_EmptySet DEF CapacityConstants
<1>9. OvershootBounded  BY <1>3, <1>5, <1>8 DEF OvershootBounded, CapacityConstants
<1>10. SweptBounded /\ LostBounded
  BY <1>1, <1>2, Finite DEF SweptBounded, LostBounded, CapacityConstants
<1> QED  BY <1>7, <1>9, <1>10 DEF CapacityInv

\* Every step keeps the invariant.
LEMMA CapacityInvStep ==
    ASSUME CapacityConstants, WideCounter, CapacityInv, [CapacityNext]_capacityVars
    PROVE  CapacityInv'
<1>1. ASSUME NEW t \in Tasks, at_capacity(t) PROVE CapacityInv'  BY <1>1, at_capacityStep
<1>2. ASSUME NEW t \in Tasks, inc_total(t) PROVE CapacityInv'  BY <1>2, inc_totalStep
<1>3. ASSUME NEW t \in Tasks, dec_total(t) PROVE CapacityInv'  BY <1>3, dec_totalStep
<1>4. ASSUME NEW t \in Tasks, NEW ch \in Channels, create_channel(t, ch) PROVE CapacityInv'
  BY <1>4, create_channelStep
<1>5. ASSUME NEW t \in Tasks, NEW ch \in Channels, remove_channel(t, ch) PROVE CapacityInv'
  BY <1>5, remove_channelStep
<1>6. ASSUME NEW ch \in Channels, Progress(ch) PROVE CapacityInv'  BY <1>6, ProgressStep
<1>7. ASSUME NEW expired \in SUBSET present, cleanup_shard(expired) PROVE CapacityInv'
  BY <1>7, cleanup_shardStep
<1>8. CASE cleanup_total  BY <1>8, cleanup_totalStep
<1>9. ASSUME NEW saved \in SUBSET Channels, from_single(saved) PROVE CapacityInv'
  BY ZenonT(30), <1>9, from_singleStep
<1>10. CASE UNCHANGED capacityVars
  BY <1>10, CapacityBefore, After DEF capacityVars, CapacityTypeOK, SweptBounded, LostBounded, Passed
<1> QED  BY <1>1, <1>2, <1>3, <1>4, <1>5, <1>6, <1>7, <1>8, <1>9, <1>10 DEF CapacityNext

\* The counter of the relay is exact up to the updates that are owed: total_channels
\* is the number of channels, plus the removals of handle_create that nobody
\* reports, plus and minus what tasks and the sweep have still to add and subtract.
THEOREM AccountingHolds == CapacitySpec => []Accounting
<1>1. CapacityInit => CapacityInv  BY CapacityInvInit, CapacityAssumption
<1>2. CapacityInv /\ [CapacityNext]_capacityVars => CapacityInv'  BY CapacityInvStep, CapacityAssumption
<1>3. CapacityInv => Accounting  BY DEF CapacityInv
<1> QED  BY <1>1, <1>2, <1>3, PTL DEF CapacitySpec

\* max_channels is passed by fewer channels than there are connection tasks, for
\* any number of them and whatever the sweep and a restart do meanwhile.
THEOREM OvershootHolds == CapacitySpec => []OvershootBounded
<1>1. CapacityInit => CapacityInv  BY CapacityInvInit, CapacityAssumption
<1>2. CapacityInv /\ [CapacityNext]_capacityVars => CapacityInv'  BY CapacityInvStep, CapacityAssumption
<1>3. CapacityInv => OvershootBounded  BY DEF CapacityInv
<1> QED  BY <1>1, <1>2, <1>3, PTL DEF CapacitySpec
=============================================================================
