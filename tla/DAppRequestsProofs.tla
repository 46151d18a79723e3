------------------------- MODULE DAppRequestsProofs -------------------------
(***************************************************************************)
(* Proofs about the requests of a DAppSession (DAppRequests), for any set  *)
(* of calls and any limits: the session implements the safety part of      *)
(* RequestPromises.  The inductive invariant follows every call through    *)
(* three places: it is not waiting, or it waits in the map, or it waits in *)
(* exactly one save under way.                                             *)
(***************************************************************************)
EXTENDS DAppRequests, FiniteSetTheorems, TLAPS

\* Time for the slower leaves
USE SMTT(30), ZenonT(30)

NotWaiting(r) == promise[r] # "waiting" /\ r \notin pendingRequests /\ SavesOf(r) = {}
InMap(r)      == promise[r] = "waiting" /\ r \in pendingRequests /\ SavesOf(r) = {}
InSave(r)     == promise[r] = "waiting" /\ r \notin pendingRequests
                     /\ \E s \in saves : SavesOf(r) = {s}

Ledger == \A r \in Requests : NotWaiting(r) \/ InMap(r) \/ InSave(r)

\* Frames belong to calls that were made, answers to calls that were executed
Causes ==
    /\ \A f \in wire \cup outbound : promise[f.r] # "idle"
    /\ \A s \in saves : s.k \in {"send", "resend"} => promise[s.f.r] # "idle"
    /\ \A m \in inbox : m.t = "res" => m.r \in executed
    /\ \A s \in saves : s.k = "deliver" /\ s.m.t = "res" => s.m.r \in executed

IInv == TypeOK /\ IsFiniteSet(pendingRequests) /\ Ledger /\ Causes

-----------------------------------------------------------------------------
(* Saves *)

\* What a save holds, by the continuation it has.
LEMMA SaveKinds ==
    ASSUME NEW s \in Saves
    PROVE  /\ s.k \in {"send", "resend", "deliver", "snapshot"}
           /\ s.k \in {"send", "resend"} => s.f \in Frames
           /\ s.k = "deliver" => s.m \in Answers \cup Events /\ s.prev \in -1..MaxWalletSeq
BY DEF Saves

\* The saves the session starts are of those kinds.
LEMMA SaveMade ==
    /\ \A f \in Frames : [k |-> "send", f |-> f] \in Saves /\ [k |-> "resend", f |-> f] \in Saves
    /\ \A m \in Answers \cup Events, p \in -1..MaxWalletSeq :
          [k |-> "deliver", m |-> m, prev |-> p] \in Saves
    /\ [k |-> "snapshot"] \in Saves
BY DEF Saves

\* Frames and answers have their fields.
LEMMA Fields_of ==
    /\ \A f \in Frames : f.r \in Requests /\ f.seq \in 0..MAX_SEND_SEQ
    /\ \A m \in Answers \cup Events : /\ m.seq \in 0..MaxWalletSeq /\ m.t \in {"res", "evt"}
                                      /\ m.t = "res" => m.r \in Requests
                                      /\ m.t = "evt" => m.r = NoRequest
BY DEF Frames, Answers, Events

\* A save that settles holds no call any more.
LEMMA SaveGone ==
    ASSUME NEW s \in saves, saves' = saves \ {s}
    PROVE  \A r : SavesOf(r)' = SavesOf(r) \ {s}
BY DEF SavesOf

\* A save that starts holds the call it is about.
LEMMA SaveStarts ==
    ASSUME NEW x, saves' = saves \cup {x}
    PROVE  \A r : SavesOf(r)' = SavesOf(r) \cup
                    (IF (x.k = "send" /\ x.f.r = r) \/ (x.k = "deliver" /\ x.m.r = r) THEN {x} ELSE {})
BY DEF SavesOf

-----------------------------------------------------------------------------
(* Type correctness *)

Shape == TypeOK /\ IsFiniteSet(pendingRequests)

\* settle keeps a promise one of the four outcomes.
LEMMA SettleTyped ==
    ASSUME TypeOK, NEW S, NEW o \in {"resolved", "rejected"}, settle(S, o)
    PROVE  promise' \in [Requests -> {"idle", "waiting", "resolved", "rejected"}]
BY DEF TypeOK, settle

\* sendRaw puts frames where frames are.
LEMMA SendTyped ==
    ASSUME TypeOK, NEW F \in SUBSET Frames, sendRaw(F)
    PROVE  wire' \in SUBSET Frames /\ outbound' \in SUBSET Frames
BY DEF TypeOK, sendRaw

\* close: what is left has its type.
LEMMA CloseTyped ==
    ASSUME TypeOK, NEW S, close(S)
    PROVE  /\ promise' \in [Requests -> {"idle", "waiting", "resolved", "rejected"}]
           /\ pendingRequests' = {} /\ IsFiniteSet(pendingRequests')
           /\ phase' = "closed" /\ net' = "down" /\ outbound' = {} /\ inbox' = {}
<1>1. settle(pendingRequests \cup S, "rejected")  BY DEF close
<1>2. promise' \in [Requests -> {"idle", "waiting", "resolved", "rejected"}]  BY <1>1, SettleTyped
<1> QED  BY <1>2, FS_EmptySet DEF close, disconnect

\* request: the counter stops at its limit and the map stays finite.
LEMMA RequestTyped == ASSUME Shape, NEW r \in Requests, request(r) PROVE Shape'
<1> USE DEF Shape, settings
<1>1. CASE request_refused(r)
  <2>1. promise' \in [Requests -> {"idle", "waiting", "resolved", "rejected"}]
    BY <1>1 DEF request_refused, TypeOK
  <2> QED  BY <1>1, <2>1 DEF request, request_refused, TypeOK
<1>2. CASE request_overflow(r)
  <2>1. promise' \in [Requests -> {"idle", "waiting", "resolved", "rejected"}]
    BY <1>2 DEF request_overflow, TypeOK
  <2> QED  BY <1>2, <2>1, FS_EmptySet DEF request, request_overflow, disconnect, TypeOK
<1>3. CASE request_sent(r)
  <2> DEFINE f == [r |-> r, seq |-> sendSeq]
  <2>1. promise' \in [Requests -> {"idle", "waiting", "resolved", "rejected"}]
    BY <1>3 DEF request_sent, TypeOK
  <2>2. f \in Frames /\ sendSeq' \in 0..MAX_SEND_SEQ
    BY <1>3, RequestsAssumption DEF request_sent, TypeOK, Frames
  <2>3. /\ saves' \subseteq Saves /\ pendingRequests' \subseteq Requests /\ IsFiniteSet(pendingRequests')
        /\ wire' \subseteq Frames /\ outbound' \subseteq Frames
    <3>1. CASE asyncSave
      <4>1. saves' = saves \cup {[k |-> "send", f |-> f]} /\ UNCHANGED <<pendingRequests, outbound, wire>>
        BY <1>3, <3>1 DEF request_sent
      <4>2. [k |-> "send", f |-> f] \in Saves  BY ZenonT(30), <2>2, SaveMade
      <4> QED  BY <4>1, <4>2 DEF TypeOK
    <3>2. CASE ~asyncSave
      <4>1. sendRaw({f}) /\ saves' = saves /\ pendingRequests' = pendingRequests \cup {r}
        BY <1>3, <3>2 DEF request_sent
      <4>2. {f} \in SUBSET Frames  BY <2>2
      <4>3. wire' \in SUBSET Frames /\ outbound' \in SUBSET Frames  BY <4>1, <4>2, SendTyped
      <4>4. IsFiniteSet(pendingRequests \cup {r})  BY FS_AddElement
      <4> QED  BY <4>1, <4>3, <4>4 DEF TypeOK
    <3> QED  BY <3>1, <3>2
  <2> QED  BY <1>3, <2>1, <2>2, <2>3 DEF request, request_sent, TypeOK
<1> QED  BY <1>1, <1>2, <1>3 DEF request

\* A save that settles leaves everything typed.
LEMMA SavedTyped == ASSUME Shape, NEW s \in saves, saved(s) PROVE Shape'
<1> USE DEF Shape, settings, wallet, seqs
<1>1. s \in Saves /\ saves' \subseteq Saves  BY DEF saved, TypeOK
<1>2. /\ executed' = executed /\ phase' = phase /\ reconnecting' = reconnecting /\ keys' = keys
      /\ asyncSave' = asyncSave /\ resendOnReconnect' = resendOnReconnect /\ sendSeq' = sendSeq
      /\ recvSeq' = recvSeq /\ net' = net /\ inbox' = inbox /\ walletSeq' = walletSeq
  BY DEF saved
<1> SUFFICES /\ promise' \in [Requests -> {"idle", "waiting", "resolved", "rejected"}]
             /\ pendingRequests' \subseteq Requests /\ IsFiniteSet(pendingRequests')
             /\ wire' \subseteq Frames /\ outbound' \subseteq Frames
  BY <1>1, <1>2 DEF TypeOK
<1>3. CASE s.k = "send"
  <2>1. send(s.f) /\ s.f \in Frames /\ s.f.r \in Requests
    BY <1>1, <1>3, SaveKinds, Fields_of DEF saved
  <2>2. CASE keys
    <3>1. pendingRequests' = pendingRequests \cup {s.f.r} /\ sendRaw({s.f}) /\ promise' = promise
      BY <2>1, <2>2 DEF send
    <3>2. {s.f} \in SUBSET Frames  BY <2>1
    <3>3. wire' \in SUBSET Frames /\ outbound' \in SUBSET Frames  BY <3>1, <3>2, SendTyped
    <3>4. IsFiniteSet(pendingRequests \cup {s.f.r})  BY FS_AddElement
    <3> QED  BY <2>1, <3>1, <3>3, <3>4 DEF TypeOK
  <2>3. CASE ~keys
    <3>1. settle({s.f.r}, "rejected") /\ UNCHANGED <<pendingRequests, outbound, wire>>
      BY <2>1, <2>3 DEF send
    <3>2. promise' \in [Requests -> {"idle", "waiting", "resolved", "rejected"}]
      BY <3>1, SettleTyped
    <3> QED  BY <3>1, <3>2 DEF TypeOK
  <2> QED  BY <2>2, <2>3
<1>4. CASE s.k = "resend"
  <2>1. sendRaw(IF keys THEN {s.f} ELSE {}) /\ UNCHANGED <<promise, pendingRequests>>
    BY <1>4 DEF saved
  <2>2. (IF keys THEN {s.f} ELSE {}) \in SUBSET Frames  BY <1>1, <1>4, SaveKinds
  <2>3. wire' \in SUBSET Frames /\ outbound' \in SUBSET Frames  BY <2>1, <2>2, SendTyped
  <2> QED  BY <2>1, <2>3 DEF TypeOK
<1>5. CASE s.k = "deliver"
  <2>1. settle({s.m.r}, Settled(s.m)) /\ UNCHANGED <<pendingRequests, outbound, wire>>
    BY <1>5 DEF saved
  <2>2. Settled(s.m) \in {"resolved", "rejected"}  BY DEF Settled
  <2>3. promise' \in [Requests -> {"idle", "waiting", "resolved", "rejected"}]
    BY <2>1, <2>2, SettleTyped
  <2> QED  BY <2>1, <2>3 DEF TypeOK
<1>6. CASE s.k = "snapshot"
  BY <1>6 DEF saved, TypeOK
<1> QED  BY <1>1, <1>3, <1>4, <1>5, <1>6, SaveKinds

\* A save that fails leaves everything typed; recvSeq goes back to a value it had.
LEMMA SaveFailedTyped == ASSUME Shape, NEW s \in saves, save_failed(s) PROVE Shape'
<1> DEFINE S == CASE s.k = "send" -> {s.f.r} [] s.k = "deliver" -> {s.m.r} [] OTHER -> {}
<1>1. close(S) /\ s \in Saves /\ saves' \subseteq Saves  BY DEF save_failed, Shape, TypeOK
<1> HIDE DEF S
<1>2. recvSeq' \in -1..MaxWalletSeq  BY <1>1, SaveKinds DEF save_failed, Shape, TypeOK
<1> QED  BY <1>1, <1>2, CloseTyped DEF save_failed, Shape, TypeOK, wallet, settings

\* The promise, the save and the counter a received frame changes.
LEMMA DeliverTyped ==
    ASSUME TypeOK, NEW m \in Answers \cup Events, deliver(m)
    PROVE  /\ promise' \in [Requests -> {"idle", "waiting", "resolved", "rejected"}]
           /\ saves' \subseteq Saves /\ recvSeq' \in -1..MaxWalletSeq
<1>1. recvSeq' \in -1..MaxWalletSeq  BY Fields_of, RequestsAssumption DEF deliver
<1>2. CASE asyncSave
  <2>1. saves' = saves \cup {[k |-> "deliver", m |-> m, prev |-> recvSeq]} /\ promise' = promise
    BY <1>2 DEF deliver
  <2>2. [k |-> "deliver", m |-> m, prev |-> recvSeq] \in Saves  BY SaveMade DEF TypeOK
  <2> QED  BY <1>1, <2>1, <2>2 DEF TypeOK
<1>3. CASE ~asyncSave
  <2>1. settle({m.r}, Settled(m)) /\ saves' = saves  BY <1>3 DEF deliver
  <2>2. Settled(m) \in {"resolved", "rejected"}  BY DEF Settled
  <2>3. promise' \in [Requests -> {"idle", "waiting", "resolved", "rejected"}]
    BY <2>1, <2>2, SettleTyped
  <2> QED  BY <1>1, <2>1, <2>3 DEF TypeOK
<1> QED  BY <1>2, <1>3

\* A frame from the wallet leaves everything typed.
LEMMA ReceiveTyped == ASSUME Shape, NEW m \in inbox, receive(m) PROVE Shape'
<1>1. m \in Answers \cup Events  BY DEF Shape, TypeOK
<1> SUFFICES /\ promise' \in [Requests -> {"idle", "waiting", "resolved", "rejected"}]
             /\ saves' \subseteq Saves /\ recvSeq' \in -1..MaxWalletSeq
             /\ pendingRequests' \subseteq Requests /\ IsFiniteSet(pendingRequests')
  BY DEF Shape, TypeOK, receive, wallet, settings
<1>2. CASE m.t = "res"
  <2>1. res(m)  BY <1>2 DEF receive
  <2>2. CASE ~(phase = "connected" /\ m.r \in pendingRequests)
    BY <2>1, <2>2 DEF res, Shape, TypeOK
  <2>3. CASE phase = "connected" /\ m.r \in pendingRequests
    <3>1. /\ pendingRequests' = pendingRequests \ {m.r}
          /\ IF m.body = "unreadable" \/ ~keys \/ m.seq <= recvSeq
             THEN settle({m.r}, "rejected") /\ UNCHANGED <<recvSeq, saves>>
             ELSE deliver(m)
      BY <2>1, <2>3 DEF res
    <3>2. pendingRequests' \subseteq Requests /\ IsFiniteSet(pendingRequests')
      BY <3>1, FS_RemoveElement DEF Shape, TypeOK
    <3>3. CASE settle({m.r}, "rejected") /\ UNCHANGED <<recvSeq, saves>>
      BY <3>2, <3>3, SettleTyped DEF Shape, TypeOK
    <3>4. CASE deliver(m)
      BY <1>1, <3>2, <3>4, DeliverTyped DEF Shape
    <3> QED  BY <3>1, <3>3, <3>4
  <2> QED  BY <2>2, <2>3
<1>3. CASE m.t # "res"
  <2>1. evt(m) /\ pendingRequests' = pendingRequests  BY <1>3 DEF receive, evt
  <2>2. CASE deliver(m)
    BY <1>1, <2>1, <2>2, DeliverTyped DEF Shape, TypeOK
  <2>3. CASE UNCHANGED <<promise, recvSeq, saves>>
    BY <2>1, <2>3 DEF Shape, TypeOK
  <2> QED  BY <2>1, <2>2, <2>3 DEF evt
<1> QED  BY <1>2, <1>3

\* The wallet's answers are answers.
LEMMA AnswerTyped == ASSUME Shape, NEW f \in wire, walletAnswers(f) PROVE Shape'
<1>1. f.r \in Requests  BY Fields_of DEF Shape, TypeOK
<1>2. walletSeq \in 0..MaxWalletSeq /\ walletSeq' \in 0..MaxWalletSeq
  BY RequestsAssumption DEF walletAnswers, Shape, TypeOK
<1>3. inbox' \subseteq Answers \cup Events
  BY <1>1, <1>2 DEF walletAnswers, Shape, TypeOK, Answers
<1> QED  BY <1>1, <1>2, <1>3 DEF walletAnswers, Shape, TypeOK, settings, seqs

\* The wallet's events are events.
LEMMA PushTyped == ASSUME Shape, walletPushes PROVE Shape'
<1>1. walletSeq \in 0..MaxWalletSeq /\ walletSeq' \in 0..MaxWalletSeq
  BY RequestsAssumption DEF walletPushes, Shape, TypeOK
<1>2. inbox' \subseteq Answers \cup Events
  BY <1>1 DEF walletPushes, Shape, TypeOK, Events
<1> QED  BY <1>1, <1>2 DEF walletPushes, Shape, TypeOK, settings, seqs

\* What resendPending does: n numbers, frames with them, saves for the frames.
LEMMA ResendMade ==
    ASSUME Shape, NEW P \in SUBSET pendingRequests, resendPending(P)
    PROVE  \E F \in SUBSET Frames :
             /\ sendSeq' \in 0..MAX_SEND_SEQ
             /\ \A f \in F : f.r \in P
             /\ \A s \in saves' \ saves : s.k = "snapshot" \/ (s.k = "resend" /\ s.f \in F)
             /\ saves \subseteq saves' /\ saves' \subseteq Saves
             /\ \/ close({}) /\ wire' \subseteq wire \cup F
                \/ /\ UNCHANGED <<promise, pendingRequests, net, inbox>>
                   /\ phase' = "connected"
                   /\ wire' \subseteq wire \cup F /\ outbound' \subseteq outbound \cup F
<1> DEFINE n == IF Cardinality(P) <= MAX_SEND_SEQ - sendSeq THEN Cardinality(P) ELSE MAX_SEND_SEQ - sendSeq
           snap == IF asyncSave THEN {[k |-> "snapshot"]} ELSE {}
<1>1. n \in Nat /\ sendSeq + n \in 0..MAX_SEND_SEQ
  <2>1. Cardinality(P) \in Nat  BY FS_Subset, FS_CardinalityType DEF Shape
  <2> QED  BY <2>1, RequestsAssumption DEF Shape, TypeOK
<1>2. PICK order \in [1..n -> P] :
        LET F == {[r |-> order[i], seq |-> sendSeq + i - 1] : i \in 1..n} IN
          /\ sendSeq' = sendSeq + n
          /\ saves' = saves \cup snap \cup (IF asyncSave THEN {[k |-> "resend", f |-> f] : f \in F} ELSE {})
          /\ IF n < Cardinality(P)
             THEN close({}) /\ wire' = wire \cup (IF asyncSave THEN {} ELSE F)
             ELSE /\ phase' = "connected"
                  /\ sendRaw(IF asyncSave THEN {} ELSE F)
                  /\ UNCHANGED <<promise, pendingRequests, net, inbox>>
  BY ZenonT(30) DEF resendPending
<1> DEFINE F == {[r |-> order[i], seq |-> sendSeq + i - 1] : i \in 1..n}
<1>3. F \in SUBSET Frames /\ \A f \in F : f.r \in P
  <2> SUFFICES ASSUME NEW i \in 1..n
               PROVE  /\ [r |-> order[i], seq |-> sendSeq + i - 1] \in Frames
                      /\ order[i] \in P
    OBVIOUS
  <2>1. order[i] \in P  OBVIOUS
  <2>2. sendSeq + i - 1 \in 0..MAX_SEND_SEQ
    <3> HIDE DEF n
    <3> QED  BY <1>1, RequestsAssumption DEF Shape, TypeOK
  <2> QED  BY <2>1, <2>2 DEF Frames, Shape, TypeOK
<1> HIDE DEF F, n
<1>4. /\ sendSeq' = sendSeq + n
      /\ saves' = saves \cup snap \cup (IF asyncSave THEN {[k |-> "resend", f |-> f] : f \in F} ELSE {})
      /\ IF n < Cardinality(P)
         THEN close({}) /\ wire' = wire \cup (IF asyncSave THEN {} ELSE F)
         ELSE /\ phase' = "connected"
              /\ sendRaw(IF asyncSave THEN {} ELSE F)
              /\ UNCHANGED <<promise, pendingRequests, net, inbox>>
  BY ZenonT(30), <1>2 DEF F
<1>5. /\ \A s \in saves' \ saves : s.k = "snapshot" \/ (s.k = "resend" /\ s.f \in F)
      /\ saves \subseteq saves'
  BY <1>4
<1>6. saves' \subseteq Saves
  <2>1. [k |-> "snapshot"] \in Saves /\ \A f \in F : [k |-> "resend", f |-> f] \in Saves
    BY ZenonT(30), <1>3, SaveMade
  <2>2. \A s \in saves' : s \in saves \/ s = [k |-> "snapshot"] \/ \E f \in F : s = [k |-> "resend", f |-> f]
    BY <1>4
  <2> QED  BY <2>1, <2>2 DEF Shape, TypeOK
<1>7. \/ close({}) /\ wire' \subseteq wire \cup F
      \/ /\ UNCHANGED <<promise, pendingRequests, net, inbox>>
         /\ phase' = "connected"
         /\ wire' \subseteq wire \cup F /\ outbound' \subseteq outbound \cup F
  <2>1. CASE n < Cardinality(P)  BY <1>4, <2>1
  <2>2. CASE ~(n < Cardinality(P))
    BY <1>4, <2>2 DEF sendRaw
  <2> QED  BY <2>1, <2>2
<1> QED  BY ZenonT(30), <1>1, <1>3, <1>4, <1>5, <1>6, <1>7

\* Re-sending after a reconnect leaves everything typed.
LEMMA ResendTyped == ASSUME Shape, ready_connected PROVE Shape'
<1>1. PICK P \in SUBSET pendingRequests : resendPending(P)
  <2>1. (IF reconnecting /\ resendOnReconnect /\ keys THEN pendingRequests ELSE {}) \in SUBSET pendingRequests
    OBVIOUS
  <2> QED  BY <2>1 DEF ready_connected
<1>2. PICK F \in SUBSET Frames :
        /\ sendSeq' \in 0..MAX_SEND_SEQ /\ saves' \subseteq Saves
        /\ \/ close({}) /\ wire' \subseteq wire \cup F
           \/ /\ UNCHANGED <<promise, pendingRequests, net, inbox>>
              /\ phase' = "connected"
              /\ wire' \subseteq wire \cup F /\ outbound' \subseteq outbound \cup F
  BY <1>1, ResendMade
<1>3. UNCHANGED <<wallet, keys, settings, recvSeq>> /\ reconnecting' = FALSE  BY DEF ready_connected
<1>4. CASE close({}) /\ wire' \subseteq wire \cup F
  BY ZenonT(30), <1>2, <1>3, <1>4, CloseTyped DEF Shape, TypeOK, wallet, settings
<1>5. CASE /\ UNCHANGED <<promise, pendingRequests, net, inbox>>
           /\ phase' = "connected"
           /\ wire' \subseteq wire \cup F /\ outbound' \subseteq outbound \cup F
  BY ZenonT(30), <1>2, <1>3, <1>5 DEF Shape, TypeOK, wallet, settings
<1> QED  BY <1>2, <1>4, <1>5

\* Every step leaves everything typed and the map finite.
LEMMA ShapeNext == ASSUME Shape, [Next]_vars PROVE Shape'
<1>1. ASSUME NEW r \in Requests, timeout(r) PROVE Shape'
  <2>1. promise' \in [Requests -> {"idle", "waiting", "resolved", "rejected"}]
    BY <1>1, SettleTyped DEF timeout, Shape
  <2>2. IsFiniteSet(pendingRequests \ {r})  BY FS_RemoveElement DEF Shape
  <2> QED  BY <1>1, <2>1, <2>2 DEF timeout, Shape, TypeOK, wallet, settings, seqs
<1>2. CASE app_close \/ destroy \/ giveUpReconnect
  <2>1. close({})  BY <1>2 DEF app_close, destroy, giveUpReconnect
  <2> QED  BY ZenonT(30), <1>2, <2>1, CloseTyped
           DEF app_close, destroy, giveUpReconnect, Shape, TypeOK, wallet, settings, seqs
<1>3. CASE peer_close
  <2>1. promise' \in [Requests -> {"idle", "waiting", "resolved", "rejected"}]
    BY <1>3, SettleTyped DEF peer_close, Shape
  <2> QED  BY <1>3, <2>1, FS_EmptySet
           DEF peer_close, disconnect, Shape, TypeOK, wallet, settings, seqs
<1>4. CASE startReconnect \/ doReconnectAttempt \/ onopen
  BY ZenonT(30), <1>4 DEF startReconnect, doReconnectAttempt, onopen, disconnect, Shape, TypeOK, wallet, settings, seqs
<1>5. CASE UNCHANGED vars
  BY <1>5 DEF vars, Shape, TypeOK
<1> QED  BY <1>1, <1>2, <1>3, <1>4, <1>5, RequestTyped, SavedTyped, SaveFailedTyped, ReceiveTyped,
            AnswerTyped, PushTyped, ResendTyped
         DEF Next

-----------------------------------------------------------------------------
(* The ledger *)

\* The place of a call, from the place it had: nothing about it changed.
LEMMA SamePlace ==
    ASSUME Ledger, NEW r \in Requests, promise'[r] = promise[r],
           r \in pendingRequests' <=> r \in pendingRequests, SavesOf(r)' = SavesOf(r)
    PROVE  NotWaiting(r)' \/ InMap(r)' \/ InSave(r)'
BY DEF Ledger, NotWaiting, InMap, InSave, SavesOf

\* The place of a call whose promise has been settled.
LEMMA SettledPlace ==
    ASSUME TypeOK, Ledger, NEW r \in Requests, NEW S, NEW o \in {"resolved", "rejected"}, r \in S,
           settle(S, o), r \notin pendingRequests', SavesOf(r)' = {}
    PROVE  NotWaiting(r)'
BY DEF TypeOK, settle, NotWaiting

\* A call that settle does not name keeps its promise.
LEMMA Unnamed ==
    ASSUME TypeOK, NEW r \in Requests, NEW S, NEW o, r \notin S, settle(S, o)
    PROVE  promise'[r] = promise[r]
BY DEF TypeOK, settle

\* Everything in the map is settled, and so are the calls in S, which no save
\* holds any more.
LEMMA CloseLedger ==
    ASSUME Shape, Ledger, NEW S, settle(pendingRequests \cup S, "rejected"), pendingRequests' = {},
           \A r \in Requests : IF r \in S THEN SavesOf(r)' = {} ELSE SavesOf(r)' = SavesOf(r)
    PROVE  Ledger'
<1> SUFFICES ASSUME NEW r \in Requests PROVE NotWaiting(r)' \/ InMap(r)' \/ InSave(r)'
  BY DEF Ledger
<1>1. CASE r \in S
  BY <1>1, SettledPlace DEF Shape
<1>2. CASE r \notin S /\ r \in pendingRequests
  <2>1. SavesOf(r)' = {}  BY <1>2 DEF Ledger, NotWaiting, InMap, InSave
  <2> QED  BY <1>2, <2>1, SettledPlace DEF Shape
<1>3. CASE r \notin S /\ r \notin pendingRequests
  BY <1>3, Unnamed, SamePlace DEF Shape
<1> QED  BY <1>1, <1>2, <1>3

\* request puts the call it makes in one place and leaves the others.
LEMMA RequestLedger == ASSUME Shape, Ledger, NEW r \in Requests, request(r) PROVE Ledger'
<1>0. /\ promise[r] = "idle" /\ promise \in [Requests -> {"idle", "waiting", "resolved", "rejected"}]
      /\ r \notin pendingRequests /\ SavesOf(r) = {}
  BY DEF request, Shape, TypeOK, Ledger, NotWaiting, InMap, InSave
<1> SUFFICES ASSUME NEW q \in Requests PROVE NotWaiting(q)' \/ InMap(q)' \/ InSave(q)'
  BY DEF Ledger
<1>1. CASE request_refused(r)
  <2>1. SavesOf(q)' = SavesOf(q) /\ pendingRequests' = pendingRequests
    BY <1>1 DEF request_refused, SavesOf
  <2>2. CASE q = r
    BY <1>0, <1>1, <2>1, <2>2 DEF request_refused, NotWaiting
  <2>3. CASE q # r
    <3>1. promise'[q] = promise[q]  BY <1>0, <1>1, <2>3 DEF request_refused
    <3> QED  BY <2>1, <3>1, SamePlace
  <2> QED  BY <2>2, <2>3
<1>2. CASE request_overflow(r)
  <2>1. SavesOf(q)' = SavesOf(q) /\ pendingRequests' = {}
    BY <1>2 DEF request_overflow, SavesOf
  <2>2. CASE q = r
    BY <1>0, <1>2, <2>1, <2>2 DEF request_overflow, NotWaiting
  <2>3. CASE q # r /\ q \in pendingRequests
    <3>1. promise'[q] # "waiting"  BY <1>0, <1>2, <2>3 DEF request_overflow
    <3>2. SavesOf(q) = {}  BY <2>3 DEF Ledger, NotWaiting, InMap, InSave
    <3> QED  BY <2>1, <3>1, <3>2 DEF NotWaiting
  <2>4. CASE q # r /\ q \notin pendingRequests
    <3>1. promise'[q] = promise[q]  BY <1>0, <1>2, <2>4 DEF request_overflow
    <3> QED  BY <2>1, <2>4, <3>1, SamePlace
  <2> QED  BY <2>2, <2>3, <2>4
<1>3. CASE request_sent(r)
  <2> DEFINE x == [k |-> "send", f |-> [r |-> r, seq |-> sendSeq]]
  <2>1. promise'[r] = "waiting" /\ (q # r => promise'[q] = promise[q])
    BY <1>0, <1>3 DEF request_sent
  <2>2. CASE asyncSave
    <3>1. saves' = saves \cup {x} /\ pendingRequests' = pendingRequests
      BY <1>3, <2>2 DEF request_sent
    <3>2. SavesOf(q)' = SavesOf(q) \cup (IF q = r THEN {x} ELSE {})
      BY <3>1 DEF SavesOf
    <3>3. CASE q = r
      BY ZenonT(30), <1>0, <2>1, <3>1, <3>2, <3>3 DEF InSave
    <3>4. CASE q # r
      <4>1. SavesOf(q)' = SavesOf(q)  BY <3>2, <3>4
      <4> QED  BY <2>1, <3>1, <3>4, <4>1, SamePlace
    <3> QED  BY <3>3, <3>4
  <2>3. CASE ~asyncSave
    <3>1. saves' = saves /\ pendingRequests' = pendingRequests \cup {r}
      BY <1>3, <2>3 DEF request_sent
    <3>2. SavesOf(q)' = SavesOf(q)  BY <3>1 DEF SavesOf
    <3>3. CASE q = r
      BY <1>0, <2>1, <3>1, <3>2, <3>3 DEF InMap
    <3>4. CASE q # r
      BY <2>1, <3>1, <3>2, <3>4, SamePlace
    <3> QED  BY <3>3, <3>4
  <2> QED  BY <2>2, <2>3
<1> QED  BY <1>1, <1>2, <1>3 DEF request

\* Which calls a save holds.
LEMMA HeldBy ==
    ASSUME Ledger, NEW s \in saves, NEW r \in Requests
    PROVE  /\ (s.k = "send" /\ s.f.r = r) \/ (s.k = "deliver" /\ s.m.r = r) =>
                 SavesOf(r) = {s} /\ promise[r] = "waiting" /\ r \notin pendingRequests
           /\ ~((s.k = "send" /\ s.f.r = r) \/ (s.k = "deliver" /\ s.m.r = r)) => s \notin SavesOf(r)
BY DEF Ledger, NotWaiting, InMap, InSave, SavesOf

\* A save that settles moves its call into the map or settles it.
LEMMA SavedLedger == ASSUME Shape, Ledger, NEW s \in saves, saved(s) PROVE Ledger'
<1> SUFFICES ASSUME NEW q \in Requests PROVE NotWaiting(q)' \/ InMap(q)' \/ InSave(q)'
  BY DEF Ledger
<1>1. s \in Saves /\ SavesOf(q)' = SavesOf(q) \ {s}
  BY SaveGone DEF saved, Shape, TypeOK
<1>2. CASE s.k = "send"
  <2>1. send(s.f)  BY <1>2 DEF saved
  <2>2. CASE q = s.f.r
    <3>1. SavesOf(q)' = {} /\ promise[q] = "waiting" /\ q \notin pendingRequests
      BY <1>1, <1>2, <2>2, HeldBy
    <3>2. CASE keys
      BY <2>1, <2>2, <3>1, <3>2 DEF send, InMap
    <3>3. CASE ~keys
      <4>1. settle({s.f.r}, "rejected") /\ pendingRequests' = pendingRequests
        BY <2>1, <3>3 DEF send
      <4> QED  BY <2>2, <3>1, <4>1, SettledPlace DEF Shape
    <3> QED  BY <3>2, <3>3
  <2>3. CASE q # s.f.r
    <3>1. SavesOf(q)' = SavesOf(q)  BY <1>1, <1>2, <2>3, HeldBy
    <3>2. (q \in pendingRequests' <=> q \in pendingRequests) /\ promise'[q] = promise[q]
      <4>1. CASE keys  BY <2>1, <2>3, <4>1 DEF send
      <4>2. CASE ~keys
        <5>1. settle({s.f.r}, "rejected") /\ pendingRequests' = pendingRequests
          BY <2>1, <4>2 DEF send
        <5> QED  BY <2>3, <5>1, Unnamed DEF Shape
      <4> QED  BY <4>1, <4>2
    <3> QED  BY <3>1, <3>2, SamePlace
  <2> QED  BY <2>2, <2>3
<1>3. CASE s.k = "deliver"
  <2>1. settle({s.m.r}, Settled(s.m)) /\ pendingRequests' = pendingRequests
    BY <1>3 DEF saved
  <2>2. Settled(s.m) \in {"resolved", "rejected"}  BY DEF Settled
  <2>3. CASE q = s.m.r
    <3>1. SavesOf(q)' = {} /\ q \notin pendingRequests  BY <1>1, <1>3, <2>3, HeldBy
    <3> QED  BY <2>1, <2>2, <2>3, <3>1, SettledPlace DEF Shape
  <2>4. CASE q # s.m.r
    <3>1. SavesOf(q)' = SavesOf(q)  BY <1>1, <1>3, <2>4, HeldBy
    <3>2. promise'[q] = promise[q]  BY <2>1, <2>4, Unnamed DEF Shape
    <3> QED  BY <2>1, <3>1, <3>2, SamePlace
  <2> QED  BY <2>3, <2>4
<1>4. CASE s.k \in {"resend", "snapshot"}
  <2>1. promise' = promise /\ pendingRequests' = pendingRequests  BY <1>4 DEF saved
  <2>2. SavesOf(q)' = SavesOf(q)  BY <1>1, <1>4, HeldBy
  <2> QED  BY <2>1, <2>2, SamePlace
<1> QED  BY <1>1, <1>2, <1>3, <1>4, SaveKinds

\* A save that fails settles its call and everything in the map.
LEMMA SaveFailedLedger == ASSUME Shape, Ledger, NEW s \in saves, save_failed(s) PROVE Ledger'
<1> DEFINE S == CASE s.k = "send" -> {s.f.r} [] s.k = "deliver" -> {s.m.r} [] OTHER -> {}
<1>1. settle(pendingRequests \cup S, "rejected") /\ pendingRequests' = {}
  BY DEF save_failed, close
<1>2. \A r : SavesOf(r)' = SavesOf(r) \ {s}  BY SaveGone DEF save_failed
<1>3. ASSUME NEW r \in Requests
      PROVE  IF r \in S THEN SavesOf(r)' = {} ELSE SavesOf(r)' = SavesOf(r)
  <2>1. r \in S <=> (s.k = "send" /\ s.f.r = r) \/ (s.k = "deliver" /\ s.m.r = r)
    <3>1. s.k \in {"send", "resend", "deliver", "snapshot"}  BY SaveKinds DEF Shape, TypeOK
    <3>2. CASE s.k = "send"  BY <3>2
    <3>3. CASE s.k = "deliver"  BY <3>3
    <3>4. CASE s.k \in {"resend", "snapshot"}  BY <3>4
    <3> QED  BY <3>1, <3>2, <3>3, <3>4
  <2> HIDE DEF S
  <2>2. CASE r \in S
    <3>1. SavesOf(r) = {s}  BY <2>1, <2>2, HeldBy
    <3> QED  BY <1>2, <2>2, <3>1
  <2>3. CASE r \notin S
    <3>1. s \notin SavesOf(r)  BY <2>1, <2>3, HeldBy
    <3>2. SavesOf(r)' = SavesOf(r)  BY <1>2, <3>1
    <3> QED  BY <2>3, <3>2
  <2> QED  BY <2>2, <2>3
<1> HIDE DEF S
<1> QED  BY <1>1, <1>3, CloseLedger

\* A frame that is accepted settles its call or starts the save that will; the
\* call left the map in the same step.
LEMMA DeliverLedger ==
    ASSUME Shape, Ledger, NEW m \in Answers \cup Events, deliver(m),
           m.r \in Requests => m.r \in pendingRequests,
           pendingRequests' = pendingRequests \ {m.r}
    PROVE  Ledger'
<1> SUFFICES ASSUME NEW q \in Requests PROVE NotWaiting(q)' \/ InMap(q)' \/ InSave(q)'
  BY DEF Ledger
<1> DEFINE x == [k |-> "deliver", m |-> m, prev |-> recvSeq]
<1>1. q = m.r => SavesOf(q) = {} /\ promise[q] = "waiting"
  BY DEF Ledger, NotWaiting, InMap, InSave
<1>2. CASE asyncSave
  <2>1. saves' = saves \cup {x} /\ promise' = promise  BY <1>2 DEF deliver
  <2>2. SavesOf(q)' = SavesOf(q) \cup (IF q = m.r THEN {x} ELSE {})  BY <2>1 DEF SavesOf
  <2>3. CASE q = m.r
    BY ZenonT(30), <1>1, <2>1, <2>2, <2>3 DEF InSave
  <2>4. CASE q # m.r
    <3>1. SavesOf(q)' = SavesOf(q)  BY <2>2, <2>4
    <3> QED  BY <2>1, <2>4, <3>1, SamePlace
  <2> QED  BY <2>3, <2>4
<1>3. CASE ~asyncSave
  <2>1. settle({m.r}, Settled(m)) /\ saves' = saves  BY <1>3 DEF deliver
  <2>2. Settled(m) \in {"resolved", "rejected"} /\ SavesOf(q)' = SavesOf(q)
    BY <2>1 DEF Settled, SavesOf
  <2>3. CASE q = m.r
    <3>1. SavesOf(q)' = {} /\ q \notin pendingRequests'  BY <1>1, <2>2, <2>3
    <3> QED  BY <2>1, <2>2, <2>3, <3>1, SettledPlace DEF Shape
  <2>4. CASE q # m.r
    <3>1. promise'[q] = promise[q]  BY <2>1, <2>4, Unnamed DEF Shape
    <3> QED  BY <2>2, <2>4, <3>1, SamePlace
  <2> QED  BY <2>3, <2>4
<1> QED  BY <1>2, <1>3

\* A response takes its call out of the map; any other frame moves no call.
LEMMA ReceiveLedger == ASSUME Shape, Ledger, NEW m \in inbox, receive(m) PROVE Ledger'
<1>1. /\ m \in Answers \cup Events
      /\ m.t = "res" => m.r \in Requests
      /\ m.t # "res" => m.r \notin Requests
  BY Fields_of, RequestsAssumption DEF Shape, TypeOK
<1>2. CASE UNCHANGED <<promise, pendingRequests, saves>>
  BY <1>2, SamePlace DEF Ledger, SavesOf
<1>3. CASE m.t = "res" /\ ~UNCHANGED <<promise, pendingRequests, saves>>
  <2>1. /\ m.r \in pendingRequests /\ pendingRequests' = pendingRequests \ {m.r}
        /\ \/ settle({m.r}, "rejected") /\ UNCHANGED <<recvSeq, saves>>
           \/ deliver(m)
    BY <1>3 DEF receive, res
  <2>2. CASE deliver(m)
    BY <1>1, <2>1, <2>2, DeliverLedger
  <2>3. CASE settle({m.r}, "rejected") /\ UNCHANGED <<recvSeq, saves>>
    <3> SUFFICES ASSUME NEW q \in Requests PROVE NotWaiting(q)' \/ InMap(q)' \/ InSave(q)'
      BY DEF Ledger
    <3>1. SavesOf(q)' = SavesOf(q)  BY <2>3 DEF SavesOf
    <3>2. CASE q = m.r
      <4>1. SavesOf(q)' = {} /\ q \notin pendingRequests'
        BY <2>1, <3>1, <3>2 DEF Ledger, NotWaiting, InMap, InSave
      <4> QED  BY <2>3, <3>2, <4>1, SettledPlace DEF Shape
    <3>3. CASE q # m.r
      <4>1. promise'[q] = promise[q]  BY <2>3, <3>3, Unnamed DEF Shape
      <4> QED  BY <2>1, <3>1, <3>3, <4>1, SamePlace
    <3> QED  BY <3>2, <3>3
  <2> QED  BY <2>1, <2>2, <2>3
<1>4. CASE m.t # "res" /\ ~UNCHANGED <<promise, pendingRequests, saves>>
  <2>1. deliver(m) /\ pendingRequests' = pendingRequests
    BY <1>4 DEF receive, evt
  <2>2. pendingRequests' = pendingRequests \ {m.r}
    BY <1>1, <1>4, <2>1 DEF Shape, TypeOK
  <2> QED  BY <1>1, <1>4, <2>1, <2>2, DeliverLedger
<1> QED  BY <1>2, <1>3, <1>4

\* Every step leaves every call in exactly one place.
LEMMA LedgerNext == ASSUME Shape, Ledger, [Next]_vars PROVE Ledger'
<1>1. ASSUME UNCHANGED <<promise, pendingRequests>>, \A r \in Requests : SavesOf(r)' = SavesOf(r)
      PROVE  Ledger'
  BY <1>1, SamePlace DEF Ledger
<1>2. ASSUME settle(pendingRequests \cup {}, "rejected"), pendingRequests' = {},
             \A r \in Requests : SavesOf(r)' = SavesOf(r)
      PROVE  Ledger'
  BY <1>2, CloseLedger
<1>3. ASSUME NEW r \in Requests, timeout(r) PROVE Ledger'
  <2> SUFFICES ASSUME NEW q \in Requests PROVE NotWaiting(q)' \/ InMap(q)' \/ InSave(q)'
    BY DEF Ledger
  <2>1. SavesOf(q)' = SavesOf(q) /\ pendingRequests' = pendingRequests \ {r} /\ settle({r}, "rejected")
    BY <1>3 DEF timeout, SavesOf
  <2>2. CASE q = r
    <3>1. SavesOf(q)' = {} /\ q \notin pendingRequests'
      BY <1>3, <2>1, <2>2 DEF timeout, Ledger, NotWaiting, InMap, InSave
    <3> QED  BY <2>1, <2>2, <3>1, SettledPlace DEF Shape
  <2>3. CASE q # r
    <3>1. promise'[q] = promise[q]  BY <2>1, <2>3, Unnamed DEF Shape
    <3> QED  BY <2>1, <2>3, <3>1, SamePlace
  <2> QED  BY <2>2, <2>3
<1>4. CASE app_close \/ destroy \/ giveUpReconnect \/ peer_close
  <2>1. settle(pendingRequests \cup {}, "rejected") /\ pendingRequests' = {} /\ saves' = saves
    <3>1. pendingRequests \cup {} = pendingRequests  OBVIOUS
    <3>2. CASE peer_close  BY <3>1, <3>2 DEF peer_close
    <3>3. CASE app_close \/ destroy \/ giveUpReconnect
      BY <3>3 DEF app_close, destroy, giveUpReconnect, close
    <3> QED  BY <1>4, <3>2, <3>3
  <2>2. \A r \in Requests : SavesOf(r)' = SavesOf(r)  BY <2>1 DEF SavesOf
  <2> QED  BY <1>2, <2>1, <2>2
<1>5. CASE \/ startReconnect \/ doReconnectAttempt \/ onopen \/ walletPushes
           \/ (\E f \in wire : walletAnswers(f)) \/ UNCHANGED vars
  <2>1. UNCHANGED <<promise, pendingRequests, saves>>
    BY <1>5 DEF startReconnect, doReconnectAttempt, onopen, walletPushes, walletAnswers, vars
  <2>2. \A r \in Requests : SavesOf(r)' = SavesOf(r)  BY <2>1 DEF SavesOf
  <2> QED  BY <1>1, <2>1, <2>2
<1>6. CASE ready_connected
  <2>1. PICK P \in SUBSET pendingRequests : resendPending(P)
    <3>1. (IF reconnecting /\ resendOnReconnect /\ keys THEN pendingRequests ELSE {}) \in SUBSET pendingRequests
      OBVIOUS
    <3> QED  BY <1>6, <3>1 DEF ready_connected
  <2>2. /\ \A s \in saves' \ saves : s.k \in {"snapshot", "resend"}
        /\ saves \subseteq saves'
        /\ close({}) \/ UNCHANGED <<promise, pendingRequests>>
    BY <2>1, ResendMade
  <2>3. \A r \in Requests : SavesOf(r)' = SavesOf(r)  BY <2>2 DEF SavesOf
  <2> QED  BY <1>1, <1>2, <2>2, <2>3 DEF close
<1> QED  BY <1>3, <1>4, <1>5, <1>6, RequestLedger, SavedLedger, SaveFailedLedger, ReceiveLedger DEF Next

-----------------------------------------------------------------------------
(* Causes *)

\* A call that was made stays made: no step returns a promise to "idle".
LEMMA SettleStays ==
    ASSUME TypeOK, NEW S, NEW o \in {"resolved", "rejected"}, settle(S, o)
    PROVE  \A r \in Requests : promise[r] # "idle" => promise'[r] # "idle"
BY DEF TypeOK, settle

\* Causes holds after a step that starts from calls made and executed.
LEMMA NewCauses ==
    ASSUME Shape, Causes, executed \subseteq executed',
           \A r \in Requests : promise[r] # "idle" => promise'[r] # "idle",
           \A f \in wire' \cup outbound' : f \in wire \cup outbound \/ promise'[f.r] # "idle",
           \A m \in inbox' : m \in inbox \/ (m.t = "res" => m.r \in executed'),
           \A s \in saves' : \/ s \in saves
                             \/ s.k = "snapshot"
                             \/ s.k \in {"send", "resend"} /\ promise'[s.f.r] # "idle"
                             \/ s.k = "deliver" /\ (s.m.t = "res" => s.m.r \in executed')
    PROVE  Causes'
<1>1. \A f \in wire' \cup outbound' : promise'[f.r] # "idle"
  BY Fields_of DEF Shape, TypeOK, Causes
<1>2. \A s \in saves' : s.k \in {"send", "resend"} => promise'[s.f.r] # "idle"
  <2> SUFFICES ASSUME NEW s \in saves', s.k \in {"send", "resend"}, s \in saves
               PROVE  promise'[s.f.r] # "idle"
    OBVIOUS
  <2>1. s.f.r \in Requests  BY SaveKinds, Fields_of DEF Shape, TypeOK
  <2> QED  BY <2>1 DEF Causes
<1>3. \A m \in inbox' : m.t = "res" => m.r \in executed'  BY DEF Causes
<1>4. \A s \in saves' : s.k = "deliver" /\ s.m.t = "res" => s.m.r \in executed'
  <2> SUFFICES ASSUME NEW s \in saves', s.k = "deliver", s.m.t = "res" PROVE s.m.r \in executed'
    OBVIOUS
  <2> QED  BY DEF Causes
<1> QED  BY <1>1, <1>2, <1>3, <1>4 DEF Causes

\* request makes the call before it saves or sends the frame.
LEMMA RequestCauses == ASSUME Shape, Causes, NEW r \in Requests, request(r) PROVE Causes'
<1>1. /\ executed' = executed /\ inbox' \subseteq inbox
      /\ promise \in [Requests -> {"idle", "waiting", "resolved", "rejected"}]
  BY DEF request, request_refused, request_overflow, request_sent, disconnect, Shape, TypeOK
<1>2. \A q \in Requests : promise[q] # "idle" => promise'[q] # "idle"
  BY <1>1 DEF request, request_refused, request_overflow, request_sent
<1>3. CASE request_refused(r) \/ request_overflow(r)
  <2>1. saves' = saves /\ wire' = wire /\ outbound' \subseteq outbound
    BY <1>3 DEF request_refused, request_overflow, disconnect
  <2> QED  BY <1>1, <1>2, <2>1, NewCauses
<1>4. CASE request_sent(r)
  <2> DEFINE f == [r |-> r, seq |-> sendSeq]
  <2>1. promise'[r] # "idle"  BY <1>1, <1>4 DEF request_sent
  <2>2. \A s \in saves' : s \in saves \/ (s.k = "send" /\ promise'[s.f.r] # "idle")
    BY <1>4, <2>1 DEF request_sent
  <2>3. \A g \in wire' \cup outbound' : g \in wire \cup outbound \/ promise'[g.r] # "idle"
    <3>1. \A g \in wire' \cup outbound' : g \in wire \cup outbound \/ g = f
      BY <1>4 DEF request_sent, sendRaw
    <3> QED  BY <2>1, <3>1
  <2> QED  BY <1>1, <1>2, <2>2, <2>3, NewCauses
<1> QED  BY <1>3, <1>4 DEF request

\* A save that settles sends the frame of a call that was made.
LEMMA SavedCauses == ASSUME Shape, Causes, NEW s \in saves, saved(s) PROVE Causes'
<1>1. executed' = executed /\ inbox' = inbox /\ saves' \subseteq saves /\ s \in Saves
  BY DEF saved, wallet, Shape, TypeOK
<1>2. s.k \in {"send", "resend"} => promise[s.f.r] # "idle" /\ s.f.r \in Requests
  BY <1>1, SaveKinds, Fields_of DEF Causes
<1>3. Settled(s.m) \in {"resolved", "rejected"}  BY DEF Settled
<1>4. \A r \in Requests : promise[r] # "idle" => promise'[r] # "idle"
  <2>1. promise' = promise \/ settle({s.f.r}, "rejected") \/ settle({s.m.r}, Settled(s.m))
    BY <1>1, SaveKinds DEF saved, send
  <2> QED  BY <1>3, <2>1, SettleStays DEF Shape
<1>5. \A g \in wire' \cup outbound' :
         g \in wire \cup outbound \/ (s.k \in {"send", "resend"} /\ g = s.f)
  BY <1>1, SaveKinds DEF saved, send, sendRaw
<1> QED  BY <1>1, <1>2, <1>4, <1>5, NewCauses

\* A frame is delivered, now or after its save, for a call that was executed.
LEMMA ReceiveCauses == ASSUME Shape, Causes, NEW m \in inbox, receive(m) PROVE Causes'
<1>1. executed' = executed /\ inbox' \subseteq inbox /\ wire' = wire /\ outbound' = outbound
  BY DEF receive, wallet
<1>2. (m.t = "res" => m.r \in executed) /\ Settled(m) \in {"resolved", "rejected"}
  BY DEF Causes, Settled
<1>3. \/ UNCHANGED <<promise, saves>>
      \/ settle({m.r}, "rejected") /\ saves' = saves
      \/ deliver(m)
  BY ZenonT(30) DEF receive, res, evt
<1>4. \A r \in Requests : promise[r] # "idle" => promise'[r] # "idle"
  BY <1>2, <1>3, SettleStays DEF deliver, Shape
<1>5. \A s \in saves' : s \in saves \/ (s.k = "deliver" /\ s.m = m)
  BY <1>3 DEF deliver
<1> QED  BY <1>1, <1>2, <1>4, <1>5, NewCauses

\* After a reconnect, only pending calls are sent again.
LEMMA ResendCauses == ASSUME Shape, Ledger, Causes, ready_connected PROVE Causes'
<1>1. PICK P \in SUBSET pendingRequests : resendPending(P)
  <2>1. (IF reconnecting /\ resendOnReconnect /\ keys THEN pendingRequests ELSE {}) \in SUBSET pendingRequests
    OBVIOUS
  <2> QED  BY <2>1 DEF ready_connected
<1>2. PICK F \in SUBSET Frames :
        /\ \A f \in F : f.r \in P
        /\ \A s \in saves' \ saves : s.k = "snapshot" \/ (s.k = "resend" /\ s.f \in F)
        /\ \/ close({}) /\ wire' \subseteq wire \cup F
           \/ /\ UNCHANGED <<promise, pendingRequests, net, inbox>>
              /\ phase' = "connected"
              /\ wire' \subseteq wire \cup F /\ outbound' \subseteq outbound \cup F
  BY <1>1, ResendMade
<1>3. executed' = executed  BY DEF ready_connected, wallet
<1>4. \A r \in Requests : promise[r] # "idle" => promise'[r] # "idle"
  BY ZenonT(30), <1>2, SettleStays DEF close, Shape
<1>5. \A f \in F : promise[f.r] # "idle" /\ f.r \in Requests
  BY ZenonT(30), <1>2, Fields_of DEF Ledger, NotWaiting, InMap, InSave
<1>6. \A f \in F : promise'[f.r] # "idle"  BY <1>4, <1>5
<1>7. inbox' \subseteq inbox /\ wire' \cup outbound' \subseteq wire \cup outbound \cup F
  BY <1>2 DEF close, disconnect
<1> QED  BY <1>2, <1>3, <1>4, <1>6, <1>7, NewCauses

\* The wallet's answer is for the request it has just executed.
LEMMA AnswerCauses == ASSUME Shape, Causes, NEW f \in wire, walletAnswers(f) PROVE Causes'
<1>1. /\ promise' = promise /\ saves' = saves /\ outbound' = outbound /\ wire' \subseteq wire
      /\ executed' = executed \cup {f.r}
  BY DEF walletAnswers
<1>2. \A m \in inbox' : m \in inbox \/ m.r = f.r
  BY DEF walletAnswers
<1> QED  BY <1>1, <1>2, NewCauses

\* Every step keeps frames to calls made and answers to calls executed.
LEMMA CausesNext == ASSUME Shape, Ledger, Causes, [Next]_vars PROVE Causes'
<1>1. ASSUME executed' = executed, inbox' \subseteq inbox, wire' = wire, outbound' \subseteq outbound,
             saves' \subseteq saves,
             promise' = promise \/ \E S : settle(S, "rejected")
      PROVE  Causes'
  <2>1. \A r \in Requests : promise[r] # "idle" => promise'[r] # "idle"
    BY <1>1, SettleStays DEF Shape
  <2> QED  BY <1>1, <2>1, NewCauses
<1>2. ASSUME NEW s \in saves, save_failed(s) PROVE Causes'
  BY <1>1, <1>2 DEF save_failed, close, disconnect, wallet
<1>3. ASSUME NEW r \in Requests, timeout(r) PROVE Causes'
  BY <1>1, <1>3 DEF timeout, wallet
<1>4. CASE app_close \/ destroy \/ giveUpReconnect \/ peer_close
  BY <1>1, <1>4 DEF app_close, destroy, giveUpReconnect, peer_close, close, disconnect, wallet
<1>5. CASE startReconnect \/ doReconnectAttempt \/ onopen \/ UNCHANGED vars
  BY <1>1, <1>5 DEF startReconnect, doReconnectAttempt, onopen, disconnect, wallet, vars
<1>6. CASE walletPushes
  <2>1. \A m \in inbox' : m \in inbox \/ m.t = "evt"  BY <1>6 DEF walletPushes
  <2>2. UNCHANGED <<promise, executed, saves, outbound, wire>>  BY <1>6 DEF walletPushes
  <2> QED  BY ZenonT(30), <2>1, <2>2, NewCauses
<1> QED  BY <1>2, <1>3, <1>4, <1>5, <1>6, RequestCauses, SavedCauses, ReceiveCauses, ResendCauses,
            AnswerCauses
         DEF Next

-----------------------------------------------------------------------------
(* Invariance *)

\* Every reachable state has every call in one place, with its causes.
LEMMA Invariance == Spec => []IInv
<1>1. Init => IInv
  <2> SUFFICES ASSUME Init PROVE IInv
    OBVIOUS
  <2>1. TypeOK
    <3>1. sendSeq \in 0..MAX_SEND_SEQ /\ recvSeq \in -1..MaxWalletSeq /\ walletSeq \in 0..MaxWalletSeq
      BY RequestsAssumption DEF Init
    <3>2. reconnecting \in BOOLEAN /\ keys \in BOOLEAN /\ asyncSave \in BOOLEAN /\ resendOnReconnect \in BOOLEAN
      BY ZenonT(30) DEF Init
    <3>3. promise \in [Requests -> {"idle", "waiting", "resolved", "rejected"}] /\ executed \subseteq Requests
      BY DEF Init
    <3> QED  BY <3>1, <3>2, <3>3 DEF Init, TypeOK
  <2>2. IsFiniteSet(pendingRequests)  BY FS_EmptySet DEF Init
  <2>3. Ledger  BY DEF Init, Ledger, NotWaiting, SavesOf
  <2>4. Causes  BY DEF Init, Causes
  <2> QED  BY <2>1, <2>2, <2>3, <2>4 DEF IInv
<1>2. IInv /\ [Next]_vars => IInv'
  BY ShapeNext, LedgerNext, CausesNext DEF IInv, Shape
<1> QED  BY <1>1, <1>2, PTL DEF Spec

\* Promises, saves, frames and counters keep their types whatever is called,
\* lost or saved; the number that seals a request never passes its limit.
THEOREM TypeCorrect == Spec => []TypeOK
<1>1. IInv => TypeOK  BY DEF IInv
<1> QED  BY <1>1, Invariance, PTL

\* A promise that waits is held by exactly one thing that will settle it: the
\* entry with its timer, or one save under way.  A settled one by none.
THEOREM HeldOnce == Spec => []WaitingHeld
<1>1. IInv => WaitingHeld
  <2> SUFFICES ASSUME IInv, NEW r \in Requests
                  PROVE  Holders(r) = IF promise[r] = "waiting" THEN 1 ELSE 0
    BY DEF WaitingHeld
  <2>1. CASE NotWaiting(r)
    <3>1. Cardinality(SavesOf(r)) = 0  BY <2>1, FS_EmptySet DEF NotWaiting
    <3> QED  BY <2>1, <3>1 DEF NotWaiting, Holders
  <2>2. CASE InMap(r)
    <3>1. Cardinality(SavesOf(r)) = 0  BY <2>2, FS_EmptySet DEF InMap
    <3> QED  BY <2>2, <3>1 DEF InMap, Holders
  <2>3. CASE InSave(r)
    <3>1. Cardinality(SavesOf(r)) = 1  BY ZenonT(30), <2>3, FS_Singleton DEF InSave
    <3> QED  BY <2>3, <3>1 DEF InSave, Holders
  <2> QED  BY <2>1, <2>2, <2>3 DEF IInv, Ledger
<1> QED  BY <1>1, Invariance, PTL

-----------------------------------------------------------------------------
(* Refinement *)

\* Rejecting whoever of S is still waiting is a step of RequestPromises.
LEMMA SettleRejects ==
    ASSUME Shape, NEW S, settle(S, "rejected"), executed' = executed
    PROVE  [Promises!Next]_(Promises!vars)
<1> DEFINE W == {r \in Requests : r \in S /\ promise[r] = "waiting"}
<1>1. CASE W = {}
  <2>1. promise' = promise  BY <1>1 DEF settle, Shape, TypeOK
  <2> QED  BY <2>1 DEF Promises!vars
<1>2. CASE W # {}
  <2>1. PICK r \in W : TRUE  BY <1>2
  <2>2. Promises!Reject(W)
    BY <1>2 DEF settle, Promises!Reject, Promises!Waiting
  <2>3. Promises!Settle(r)  BY <2>1, <2>2 DEF Promises!Settle
  <2> QED  BY <2>1, <2>3 DEF Promises!Next
<1> QED  BY <1>1, <1>2

\* Settling a call from the wallet's frame is one too: an answer resolves only
\* a call that was executed, and an event settles none.
LEMMA SettleAnswers ==
    ASSUME Shape, NEW m \in Answers \cup Events, m.t = "res" => m.r \in executed,
           settle({m.r}, Settled(m)), executed' = executed
    PROVE  [Promises!Next]_(Promises!vars)
<1>1. CASE Settled(m) = "rejected"
  BY <1>1, SettleRejects
<1>2. CASE Settled(m) = "resolved" /\ m.r \in Requests /\ promise[m.r] = "waiting"
  <2>1. m.r \in executed  BY <1>2, Fields_of, RequestsAssumption
  <2>2. promise' = [promise EXCEPT ![m.r] = "resolved"]
    BY ZenonT(30), <1>2 DEF settle, Shape, TypeOK
  <2>3. Promises!Settle(m.r)
    BY <1>2, <2>1, <2>2 DEF Promises!Settle, Promises!Resolve, Promises!Waiting
  <2> QED  BY <1>2, <2>3 DEF Promises!Next
<1>3. CASE ~(m.r \in Requests /\ promise[m.r] = "waiting")
  <2>1. promise' = promise  BY <1>3 DEF settle, Shape, TypeOK
  <2> QED  BY <2>1 DEF Promises!vars
<1> QED  BY <1>1, <1>2, <1>3 DEF Settled

\* request: the call is made and waits, or it is made and refused, with those
\* that a close at the limit of numbers takes along.
LEMMA RequestRefines ==
    ASSUME Shape, NEW r \in Requests, request(r)
    PROVE  [Promises!Next]_(Promises!vars)
<1>1. /\ promise[r] = "idle" /\ executed' = executed
      /\ promise \in [Requests -> {"idle", "waiting", "resolved", "rejected"}]
  BY DEF request, Shape, TypeOK
<1>2. CASE request_refused(r)
  <2>1. promise' = [q \in Requests |-> IF q \in {} \cup {r} THEN "rejected" ELSE promise[q]]
    BY ZenonT(30), <1>1, <1>2 DEF request_refused
  <2>2. Promises!Refuse(r)  BY ZenonT(30), <1>1, <2>1 DEF Promises!Refuse
  <2> QED  BY <2>2 DEF Promises!Next
<1>3. CASE request_overflow(r)
  <2> DEFINE S == {q \in pendingRequests : promise[q] = "waiting"}
  <2>1. promise' = [q \in Requests |-> IF q \in S \cup {r} THEN "rejected" ELSE promise[q]]
    BY <1>1, <1>3 DEF request_overflow
  <2>2. S \in SUBSET Promises!Waiting  BY DEF Promises!Waiting, Shape, TypeOK
  <2>3. Promises!Refuse(r)  BY ZenonT(30), <1>1, <2>1, <2>2 DEF Promises!Refuse
  <2> QED  BY <2>3 DEF Promises!Next
<1>4. CASE request_sent(r)
  <2>1. Promises!Submit(r)  BY <1>1, <1>4 DEF request_sent, Promises!Submit
  <2> QED  BY <2>1 DEF Promises!Next
<1> QED  BY <1>2, <1>3, <1>4 DEF request

\* Every step of the session is a step of RequestPromises or leaves promises
\* and executions alone.
LEMMA StepRefines ==
    ASSUME IInv, [Next]_vars
    PROVE  [Promises!Next]_(Promises!vars)
<1> USE DEF IInv, Shape
<1>1. ASSUME NEW r \in Requests, timeout(r) PROVE [Promises!Next]_(Promises!vars)
  BY <1>1, SettleRejects DEF timeout, wallet
<1>2. CASE app_close \/ destroy \/ giveUpReconnect \/ peer_close
  <2>1. executed' = executed /\ \E S : settle(S, "rejected")
    BY <1>2 DEF app_close, destroy, giveUpReconnect, peer_close, close, wallet
  <2> QED  BY <2>1, SettleRejects
<1>3. CASE startReconnect \/ doReconnectAttempt \/ onopen \/ walletPushes \/ UNCHANGED vars
  BY ZenonT(30), <1>3 DEF startReconnect, doReconnectAttempt, onopen, walletPushes, wallet, vars, Promises!vars
<1>4. CASE ready_connected
  <2>1. PICK P \in SUBSET pendingRequests : resendPending(P)
    <3>1. (IF reconnecting /\ resendOnReconnect /\ keys THEN pendingRequests ELSE {}) \in SUBSET pendingRequests
      OBVIOUS
    <3> QED  BY <1>4, <3>1 DEF ready_connected
  <2>2. close({}) \/ promise' = promise  BY ZenonT(30), <2>1, ResendMade
  <2>3. executed' = executed  BY <1>4 DEF ready_connected, wallet
  <2> QED  BY <2>2, <2>3, SettleRejects DEF close, Promises!vars
<1>5. ASSUME NEW s \in saves, save_failed(s) PROVE [Promises!Next]_(Promises!vars)
  BY <1>5, SettleRejects DEF save_failed, close, wallet
<1>6. ASSUME NEW s \in saves, saved(s) PROVE [Promises!Next]_(Promises!vars)
  <2>1. s \in Saves /\ executed' = executed  BY <1>6 DEF saved, wallet, TypeOK
  <2>2. CASE s.k = "deliver"
    <3>1. s.m \in Answers \cup Events  BY <2>1, <2>2, SaveKinds
    <3>2. s.m.t = "res" => s.m.r \in executed  BY <2>2 DEF Causes
    <3>3. settle({s.m.r}, Settled(s.m))  BY <1>6, <2>2 DEF saved
    <3> QED  BY <2>1, <3>1, <3>2, <3>3, SettleAnswers
  <2>3. CASE s.k # "deliver"
    <3>1. promise' = promise \/ settle({s.f.r}, "rejected")
      BY <1>6, <2>1, <2>3, SaveKinds DEF saved, send
    <3> QED  BY <2>1, <3>1, SettleRejects DEF Promises!vars
  <2> QED  BY <2>2, <2>3
<1>7. ASSUME NEW m \in inbox, receive(m) PROVE [Promises!Next]_(Promises!vars)
  <2>1. m \in Answers \cup Events /\ executed' = executed /\ (m.t = "res" => m.r \in executed)
    BY ZenonT(30), <1>7 DEF receive, wallet, TypeOK, Causes
  <2>2. promise' = promise \/ settle({m.r}, "rejected") \/ settle({m.r}, Settled(m))
    BY ZenonT(30), <1>7 DEF receive, res, evt, deliver
  <2> QED  BY <2>1, <2>2, SettleRejects, SettleAnswers DEF Promises!vars
<1>8. ASSUME NEW f \in wire, walletAnswers(f) PROVE [Promises!Next]_(Promises!vars)
  <2>1. f.r \in Requests /\ promise[f.r] # "idle"  BY ZenonT(30), Fields_of DEF TypeOK, Causes
  <2>2. promise' = promise /\ executed' = executed \cup {f.r}  BY <1>8 DEF walletAnswers
  <2>3. Promises!Execute(f.r)  BY <2>1, <2>2 DEF Promises!Execute, Promises!Called
  <2> QED  BY ZenonT(30), <2>1, <2>3 DEF Promises!Next
<1> QED  BY <1>1, <1>2, <1>3, <1>4, <1>5, <1>6, <1>7, <1>8, RequestRefines DEF Next

\* The session implements the safety part of RequestPromises, for any number of
\* calls and any limits: a promise settles once, and it resolves only if the
\* wallet executed that very call, across awaited saves, reconnects, re-sent
\* requests and closes.
THEOREM Implements == Spec => Promises!Safety
<1>1. Init => Promises!Init  BY DEF Init, Promises!Init
<1>2. IInv /\ [Next]_vars => [Promises!Next]_(Promises!vars)  BY StepRefines
<1> QED  BY <1>1, <1>2, Invariance, PTL DEF Spec, Promises!Safety
=============================================================================
