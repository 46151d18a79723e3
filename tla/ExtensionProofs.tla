--------------------------- MODULE ExtensionProofs ---------------------------
(***************************************************************************)
(* Proofs about the browser extension: ExtensionBridge, for any pages,     *)
(* calls and permission updates, and Background, for any requests and any  *)
(* number of session objects.                                              *)
(*                                                                         *)
(* In ExtensionBridge the inductive invariant says of the permission lock  *)
(* of storage.ts that only the first update has read, and that the outcome *)
(* for an origin is that of its last update; of the accounts, that all     *)
(* that leads to one comes from an approval; and of a page, that its       *)
(* messages leave it without accounts once the wallet is forgotten.        *)
(*                                                                         *)
(* In Background it says that currentSession is the session whose          *)
(* listeners are attached, or null, and that the popup's state follows     *)
(* that session's phase.                                                   *)
(***************************************************************************)
EXTENDS ExtensionBridge, TLAPS

\* Time for the slower leaves
USE SMTT(30), ZenonT(30)

PageRecords == [accounts : BOOLEAN, port : {"none", "up", "dead"}]

CallRecords ==
    [promise : {"none", "pending"}, at : Stages, method : Methods \cup {"none"}, page : Pages \cup {"none"},
     permitted : BOOLEAN, wrapped : BOOLEAN, lost : BOOLEAN]

\* A call the worker has is of a page, and only a deferred
\* wallet_requestPermissions is wrapped
GoodCalls ==
    {r \in CallRecords : /\ r.at # "idle" => r.page \in Pages
                         /\ r.wrapped => r.method = "wallet_requestPermissions"}

Tells == {"response", "accounts"}
Forgets == {"no_accounts", "disconnect"}
Messages == [type : Tells \cup Forgets, call : Calls \cup {"none"}]
Updates == [grant : BOOLEAN, origin : Pages, read : BOOLEAN, snap : SUBSET Pages]

Types ==
    /\ page \in [Pages -> PageRecords]
    /\ call \in [Calls -> GoodCalls]
    /\ inbox \in [Pages -> Seq(Messages)] /\ \A p \in Pages : Len(inbox[p]) <= MaxInbox
    /\ registered \subseteq Pages /\ stale \subseteq Pages
    /\ session \in BOOLEAN /\ stored \in BOOLEAN
    /\ permissions \subseteq Pages /\ expected \subseteq Pages
    /\ writes \in Seq(Updates) /\ Len(writes) <= MaxWrites

\* Only the first update has read the permissions, and they have not changed
\* since; the outcome for p is that of the last update of p, or p's permission
Lock ==
    /\ \A k \in 1 .. Len(writes) : writes[k].read => k = 1 /\ writes[k].snap = permissions
    /\ \A p \in Pages :
         \/ (p \in expected <=> p \in permissions) /\ \A k \in 1 .. Len(writes) : writes[k].origin # p
         \/ \E k \in 1 .. Len(writes) :
              /\ writes[k].origin = p /\ (p \in expected <=> writes[k].grant)
              /\ \A j \in k + 1 .. Len(writes) : writes[j].origin # p

\* Whatever leads to an account or a grant comes from an approval
Granted ==
    /\ permissions \subseteq approved
    /\ \A k \in 1 .. Len(writes) : writes[k].grant => writes[k].origin \in approved
    /\ \A p \in Pages : page[p].accounts => p \in approved
    /\ \A p \in Pages : \A i \in 1 .. Len(inbox[p]) : inbox[p][i].type \in Tells => p \in approved

\* A page with accounts acc and messages q ends up without accounts
EndsWithout(acc, q) ==
    \E i \in 0 .. Len(q) :
        /\ i = 0 => ~acc
        /\ i > 0 => q[i].type \in Forgets
        /\ \A j \in i + 1 .. Len(q) : q[j].type \notin Tells

Informed == ~stored => \A p \in Pages : p \in missed \/ EndsWithout(page[p].accounts, inbox[p])

IInv == Types /\ Lock /\ Granted /\ Informed

-----------------------------------------------------------------------------
(* Calls *)

\* Calls keep their type: no call, a settled one, one that is answered
LEMMA NoCallGood == NoCall \in GoodCalls
BY DEF NoCall, GoodCalls, CallRecords, Stages

LEMMA TidyGood == ASSUME NEW r \in GoodCalls PROVE Tidy(r) \in GoodCalls
BY NoCallGood DEF Tidy

\* The fields a step may change without looking at the rest
LEMMA FieldsGood ==
    ASSUME NEW r \in GoodCalls, NEW b \in BOOLEAN, NEW x \in {"none", "pending"}
    PROVE  /\ [r EXCEPT !.promise = x] \in GoodCalls
           /\ [r EXCEPT !.lost = b] \in GoodCalls
           /\ [r EXCEPT !.permitted = b] \in GoodCalls
           /\ [r EXCEPT !.at = "idle"] \in GoodCalls
           /\ [r EXCEPT !.wrapped = FALSE] \in GoodCalls
BY ZenonT(30) DEF GoodCalls, CallRecords, Stages

LEMMA StageGood ==
    ASSUME NEW r \in GoodCalls, NEW st \in Stages, r.at # "idle"
    PROVE  [r EXCEPT !.at = st] \in GoodCalls
BY ZenonT(30) DEF GoodCalls, CallRecords

LEMMA RepliedGood ==
    ASSUME NEW r \in GoodCalls, r.at # "idle"
    PROVE  /\ Replied(r) \in GoodCalls
           /\ ~r.lost => [Replied(r) EXCEPT !.at = "posted"] \in GoodCalls
<1> DEFINE st == IF r.lost THEN "idle" ELSE "answered"
           s == [r EXCEPT !.at = st, !.permitted = FALSE, !.wrapped = FALSE]
<1>1. st \in Stages /\ "posted" \in Stages  BY DEF Stages
<1>2. s \in GoodCalls /\ s.at = st
  <2> HIDE DEF st
  <2> QED BY ZenonT(30), <1>1 DEF GoodCalls, CallRecords
<1>3. Replied(r) = Tidy(s)  BY DEF Replied
<1> HIDE DEF s
<1>4. Replied(r) \in GoodCalls  BY <1>2, <1>3, TidyGood
<1>5. ASSUME ~r.lost PROVE [Replied(r) EXCEPT !.at = "posted"] \in GoodCalls
  <2>1. s.at = "answered" /\ Tidy(s) = s  BY <1>2, <1>5 DEF Tidy
  <2> QED BY <1>1, <1>2, <1>3, <2>1, StageGood
<1> QED BY <1>4, <1>5

\* The steps of one call
LEMMA CallGood ==
    ASSUME NEW f \in [Calls -> GoodCalls], NEW c \in Calls, NEW r \in GoodCalls
    PROVE  [f EXCEPT ![c] = r] \in [Calls -> GoodCalls]
OBVIOUS

LEMMA CallType == ASSUME IInv, NEW c \in Calls PROVE call[c] \in GoodCalls
BY DEF IInv, Types

\* An answer, and every step of the worker at a call, keeps the calls' type
LEMMA ReplyGood ==
    ASSUME IInv, NEW c \in Calls, call[c].at # "idle", Reply(c)
    PROVE  call' \in [Calls -> GoodCalls] /\ inbox' = inbox
<1>1. Replied(call[c]) \in GoodCalls  BY ZenonT(30), CallType, RepliedGood
<1>2. call' = [call EXCEPT ![c] = Replied(call[c])] /\ inbox' = inbox  BY DEF Reply
<1> QED BY <1>1, <1>2, CallGood DEF IInv, Types

LEMMA WorkerStepGood ==
    ASSUME IInv, NEW c \in Calls, WorkerStep(c)
    PROVE  call' \in [Calls -> GoodCalls] /\ inbox' = inbox
<1>1. CASE Reply(c) /\ call[c].at # "idle"  BY <1>1, ReplyGood
<1>2. CASE handleRpcRequest(c) /\ ~Reply(c)
  <2> DEFINE m == call[c].method
             next == CASE m = "eth_call"                                   -> "reading"
                       [] m # "eth_call" /\ ~session /\ m \in AccountMethods -> "deferred"
                       [] session /\ (m \in AccountMethods \/ (m # "eth_call" /\ call[c].permitted)) -> "forwarded"
                       [] OTHER                                            -> "refused"
             w == call[c].wrapped \/ (next = "deferred" /\ m = "wallet_requestPermissions")
             r == [call[c] EXCEPT !.at = next, !.permitted = FALSE, !.wrapped = w]
  <2>1. next \in {"reading", "deferred", "forwarded", "refused"}  OBVIOUS
  <2>2. /\ next # "refused" /\ call[c].at = "checking" /\ inbox' = inbox
        /\ call' = [call EXCEPT ![c].at = next, ![c].permitted = FALSE,
                                ![c].wrapped = @ \/ (next = "deferred" /\ m = "wallet_requestPermissions")]
    BY <1>2 DEF handleRpcRequest
  <2>3. next \in Stages /\ w \in BOOLEAN /\ (w => m = "wallet_requestPermissions")
    <3>1. call[c] \in GoodCalls  BY CallType
    <3> QED BY <2>1, <2>2, <3>1 DEF Stages, GoodCalls, CallRecords
  <2>4. call \in [Calls -> GoodCalls] /\ call[c] \in GoodCalls  BY CallType DEF IInv, Types
  <2> HIDE DEF next
  <2>5. call' = [call EXCEPT ![c] = r]  BY ZenonT(30), <2>2, <2>4 DEF GoodCalls, CallRecords
  <2> HIDE DEF w
  <2>6. r \in GoodCalls  BY <2>2, <2>3, <2>4, ZenonT(30) DEF GoodCalls, CallRecords
  <2> HIDE DEF r
  <2>7. call' \in [Calls -> GoodCalls]  BY ZenonT(30), <2>4, <2>5, <2>6, CallGood
  <2> QED BY <2>2, <2>7
<1> QED BY <1>1, <1>2 DEF WorkerStep, handleRpcRequest, deferredTimeout, forwardFails, proxyRpcCall

-----------------------------------------------------------------------------
(* The state but for the calls *)

\* A step that changes neither pages nor messages nor grants
LEMMA OnlyCalls ==
    ASSUME IInv, UNCHANGED <<page, inbox, stored, granting, history>>, call' \in [Calls -> GoodCalls],
           registered' \subseteq Pages, stale' \subseteq Pages, session' \in BOOLEAN
    PROVE  IInv'
BY DEF IInv, Types, Lock, Granted, Informed, EndsWithout, granting, history

LEMMA Bystanders ==
    ASSUME IInv
    PROVE  registered \subseteq Pages /\ stale \subseteq Pages /\ session \in BOOLEAN
BY DEF IInv, Types

LEMMA TidiedGood ==
    ASSUME IInv, NEW c \in Calls
    PROVE  Tidy([call[c] EXCEPT !.promise = "none"]) \in GoodCalls
BY ZenonT(30), CallType, FieldsGood, TidyGood

LEMMA PlainStep ==
    ASSUME IInv, NEW c \in Calls, timeout(c) \/ deliver(c) \/ WorkerStep(c)
    PROVE  IInv'
<1>1. /\ UNCHANGED <<page, inbox, stored, granting, history>>
      /\ UNCHANGED <<registered, stale, session>>
  <2>1. CASE timeout(c) \/ deliver(c)  BY ZenonT(30), <2>1 DEF timeout, deliver
  <2>2. CASE WorkerStep(c)
    <3>1. inbox' = inbox  BY <2>2, WorkerStepGood
    <3> QED BY ZenonT(30), <2>2, <3>1 DEF WorkerStep, handleRpcRequest, deferredTimeout, forwardFails, proxyRpcCall
  <2> QED BY <2>1, <2>2
<1>2. call' \in [Calls -> GoodCalls]
  <2>1. CASE timeout(c)
    <3>1. call' = [call EXCEPT ![c] = Tidy([call[c] EXCEPT !.promise = "none"])]  BY <2>1 DEF timeout
    <3> QED BY ZenonT(30), <3>1, TidiedGood, CallGood DEF IInv, Types
  <2>2. CASE deliver(c)  BY <2>2, NoCallGood, CallGood DEF deliver, IInv, Types
  <2>3. CASE WorkerStep(c)  BY <2>3, WorkerStepGood
  <2> QED BY <2>1, <2>2, <2>3
<1> QED BY ZenonT(30), <1>1, <1>2, Bystanders, OnlyCalls

\* The session comes up or goes down
LEMMA SessionSteps == ASSUME IInv, sessionUp \/ sessionDrops PROVE IInv'
<1>1. /\ UNCHANGED <<page, inbox, stored, granting, history>>
      /\ UNCHANGED <<registered, stale>> /\ session' \in BOOLEAN
  BY ZenonT(30) DEF sessionUp, sessionDrops
<1>2. call' \in [Calls -> GoodCalls]
  <2>1. CASE sessionUp
    <3>1. \A c \in Calls : call[c] \in GoodCalls
                            /\ (call[c].at = "deferred" => [call[c] EXCEPT !.at = "checking"] \in GoodCalls)
      BY ZenonT(30), CallType, StageGood DEF Stages
    <3> QED BY <2>1, <3>1 DEF sessionUp
  <2>2. CASE sessionDrops  BY <2>2 DEF sessionDrops, IInv, Types
  <2> QED BY <2>1, <2>2
<1> QED BY ZenonT(30), <1>1, <1>2, Bystanders, OnlyCalls

LEMMA portDisconnectedStep == ASSUME IInv, NEW p \in Pages, portDisconnected(p) PROVE IInv'
<1>1. /\ UNCHANGED <<page, inbox, stored, granting, history>> /\ session' = session
      /\ registered' = registered \ {p} /\ stale' = stale \ {p} /\ call' = call
  BY DEF portDisconnected
<1>2. call' \in [Calls -> GoodCalls]  BY <1>1 DEF IInv, Types
<1> QED BY ZenonT(30), <1>1, <1>2, Bystanders, OnlyCalls

\* A step that changes of the pages only their ports
LEMMA OnlyPorts ==
    ASSUME IInv, UNCHANGED <<inbox, stored, granting, history>>, call' \in [Calls -> GoodCalls],
           page' \in [Pages -> PageRecords], \A p \in Pages : page'[p].accounts = page[p].accounts,
           registered' \subseteq Pages, stale' \subseteq Pages, session' \in BOOLEAN
    PROVE  IInv'
<1>1. Types'  BY DEF IInv, Types, granting
<1>2. Lock'  BY DEF IInv, Lock, granting
<1>3. Granted'  BY DEF IInv, Granted, granting, history
<1>4. Informed'  BY DEF IInv, Informed, history
<1> QED BY <1>1, <1>2, <1>3, <1>4 DEF IInv

LEMMA requestStep == ASSUME IInv, NEW c \in Calls, NEW p \in Pages, NEW m \in Methods, request(c, p, m) PROVE IInv'
<1> DEFINE b == m = "personal_sign" /\ p \in permissions
           r == [NoCall EXCEPT !.promise = "pending", !.at = "checking", !.method = m, !.page = p, !.permitted = b]
<1>1. PICK port \in {"up", "none"} :
        /\ page' = [page EXCEPT ![p].port = port]
        /\ registered' = IF port = "up" /\ page[p].port = "none" THEN registered \cup {p} ELSE registered
  BY ZenonT(30) DEF request, sendToBackground
<1>2. UNCHANGED <<inbox, stored, granting, history>> /\ UNCHANGED <<stale, session>>
  BY DEF request
<1>3. registered' \subseteq Pages  BY <1>1, Bystanders
<1>4. page \in [Pages -> PageRecords]  BY DEF IInv, Types
<1>5. page' \in [Pages -> PageRecords] /\ \A q \in Pages : page'[q].accounts = page[q].accounts
  BY <1>1, <1>4 DEF PageRecords
<1>6. r \in GoodCalls /\ call' = [call EXCEPT ![c] = r]
  <2>1. "checking" \in Stages /\ b \in BOOLEAN  BY DEF Stages
  <2>2. NoCall \in CallRecords /\ NoCall.wrapped = FALSE  BY NoCallGood DEF GoodCalls, NoCall
  <2>3. call' = [call EXCEPT ![c] = r]  BY DEF request
  <2> HIDE DEF b
  <2> QED BY ZenonT(30), <2>1, <2>2, <2>3 DEF GoodCalls, CallRecords
<1> HIDE DEF r
<1>7. call' \in [Calls -> GoodCalls]  BY ZenonT(30), <1>6, CallGood DEF IInv, Types
<1> QED BY ZenonT(30), <1>2, <1>3, <1>5, <1>7, Bystanders, OnlyPorts

LEMMA contextInvalidatedStep == ASSUME IInv, NEW p \in Pages, contextInvalidated(p) PROVE IInv'
<1>1. /\ UNCHANGED <<inbox, stored, granting, history>> /\ UNCHANGED <<stale, session>>
      /\ registered' = registered \ {p} /\ page' = [page EXCEPT ![p].port = "dead"]
  BY DEF contextInvalidated
<1>2. page \in [Pages -> PageRecords]  BY DEF IInv, Types
<1>3. page' \in [Pages -> PageRecords] /\ \A q \in Pages : page'[q].accounts = page[q].accounts
  BY <1>1, <1>2 DEF PageRecords
<1>4. call' \in [Calls -> GoodCalls]
  <2>1. \A c \in Calls : call[c] \in GoodCalls /\ [call[c] EXCEPT !.lost = TRUE] \in GoodCalls
    BY ZenonT(30), CallType, FieldsGood
  <2> QED BY <2>1 DEF contextInvalidated
<1>5. registered' \subseteq Pages  BY <1>1, Bystanders
<1> QED BY ZenonT(30), <1>1, <1>3, <1>4, <1>5, Bystanders, OnlyPorts

LEMMA stopWorkerStep == ASSUME IInv, stopWorker PROVE IInv'
<1>1. /\ UNCHANGED <<inbox, stored, granting, history>>
      /\ registered' = {} /\ stale' = {} /\ session' = FALSE
      /\ page' = [p \in Pages |-> [page[p] EXCEPT !.port = IF @ = "dead" THEN @ ELSE "none"]]
  BY ZenonT(30) DEF stopWorker
<1>2. page \in [Pages -> PageRecords]  BY DEF IInv, Types
<1>3. page' \in [Pages -> PageRecords] /\ \A q \in Pages : page'[q].accounts = page[q].accounts
  BY <1>1, <1>2 DEF PageRecords
<1>4. call' \in [Calls -> GoodCalls]
  <2>1. ASSUME NEW c \in Calls
        PROVE  call[c] \in GoodCalls /\ Tidy([call[c] EXCEPT !.at = "idle", !.lost = TRUE]) \in GoodCalls
    <3>1. call[c] \in GoodCalls  BY CallType
    <3>2. [call[c] EXCEPT !.at = "idle", !.lost = TRUE] \in GoodCalls
      BY ZenonT(30), <3>1 DEF GoodCalls, CallRecords, Stages
    <3> QED BY ZenonT(30), <3>1, <3>2, TidyGood
  <2> QED BY ZenonT(30), <2>1 DEF stopWorker
<1>5. registered' \subseteq Pages /\ stale' \subseteq Pages /\ session' \in BOOLEAN  BY ZenonT(30), <1>1
<1> QED BY ZenonT(30), <1>1, <1>3, <1>4, <1>5, OnlyPorts

LEMMA snapshotExpiredStep == ASSUME IInv, snapshotExpired PROVE IInv'
<1>1. /\ UNCHANGED <<page, call, inbox, registered, stale, session, granting, approved>>
      /\ stored' = FALSE /\ missed' = Pages
  BY DEF snapshotExpired
<1>2. Types'  BY ZenonT(30), <1>1 DEF IInv, Types, granting
<1>3. Lock'  BY <1>1 DEF IInv, Lock, granting
<1>4. Granted'  BY <1>1 DEF IInv, Granted, granting
<1>5. Informed'  BY <1>1 DEF Informed
<1> QED BY <1>2, <1>3, <1>4, <1>5 DEF IInv

-----------------------------------------------------------------------------
(* The lock *)

\* Enqueue and an approval with it, which may also store the wallet
LEMMA EnqueueLock ==
    ASSUME IInv, NEW g \in BOOLEAN, NEW p \in Pages, Enqueue(g, p)
    PROVE  /\ Lock' /\ writes' \in Seq(Updates) /\ Len(writes') <= MaxWrites
           /\ permissions' = permissions /\ expected' \subseteq Pages
           /\ \A k \in 1 .. Len(writes') :
                 writes'[k].grant => (g /\ writes'[k].origin = p)
                                     \/ \E j \in 1 .. Len(writes) : writes'[k] = writes[j]
<1> DEFINE u == [grant |-> g, origin |-> p, read |-> FALSE, snap |-> {}]
<1>0. writes \in Seq(Updates) /\ expected \subseteq Pages /\ permissions \subseteq Pages /\ Lock
  BY DEF IInv, Types
<1>1. /\ Len(writes) < MaxWrites /\ writes' = Append(writes, u) /\ permissions' = permissions
      /\ expected' = IF g THEN expected \cup {p} ELSE expected \ {p}
  BY DEF Enqueue
<1>2. u \in Updates /\ u.grant = g /\ u.origin = p /\ u.read = FALSE  BY DEF Updates
<1> HIDE DEF u
<1>3. /\ writes' \in Seq(Updates) /\ Len(writes') = Len(writes) + 1 /\ Len(writes) \in Nat
      /\ writes'[Len(writes) + 1] = u
      /\ \A k \in 1 .. Len(writes) : writes'[k] = writes[k]
  BY <1>0, <1>1, <1>2
<1>4. Len(writes') <= MaxWrites  BY <1>1, <1>3, BridgeBounds
<1>5. \A k \in 1 .. Len(writes') : writes'[k].read => k = 1 /\ writes'[k].snap = permissions'
  <2> SUFFICES ASSUME NEW k \in 1 .. Len(writes'), writes'[k].read
               PROVE  k = 1 /\ writes'[k].snap = permissions'
    OBVIOUS
  <2>1. k \in 1 .. Len(writes)  BY <1>2, <1>3
  <2> QED BY <1>0, <1>1, <1>3, <2>1 DEF Lock
<1>6. ASSUME NEW q \in Pages
      PROVE  \/ (q \in expected' <=> q \in permissions') /\ \A k \in 1 .. Len(writes') : writes'[k].origin # q
             \/ \E k \in 1 .. Len(writes') :
                  /\ writes'[k].origin = q /\ (q \in expected' <=> writes'[k].grant)
                  /\ \A j \in k + 1 .. Len(writes') : writes'[j].origin # q
  <2>1. CASE q = p
    <3>1. q \in expected' <=> g  BY <1>1, <2>1
    <3>2. Len(writes') \in 1 .. Len(writes') /\ writes'[Len(writes')] = u  BY <1>3
    <3>3. \A j \in Len(writes') + 1 .. Len(writes') : writes'[j].origin # q  BY <1>3
    <3> QED BY <1>2, <2>1, <3>1, <3>2, <3>3
  <2>2. CASE q # p
    <3>1. q \in expected' <=> q \in expected  BY <1>1, <2>2
    <3>2. CASE (q \in expected <=> q \in permissions) /\ \A k \in 1 .. Len(writes) : writes[k].origin # q
      <4>1. ASSUME NEW k \in 1 .. Len(writes') PROVE writes'[k].origin # q
        BY <1>2, <1>3, <2>2, <3>2
      <4> QED BY <1>1, <3>1, <3>2, <4>1
    <3>3. CASE \E k \in 1 .. Len(writes) :
                 /\ writes[k].origin = q /\ (q \in expected <=> writes[k].grant)
                 /\ \A j \in k + 1 .. Len(writes) : writes[j].origin # q
      <4>1. PICK k \in 1 .. Len(writes) :
                 /\ writes[k].origin = q /\ (q \in expected <=> writes[k].grant)
                 /\ \A j \in k + 1 .. Len(writes) : writes[j].origin # q
        BY <3>3
      <4>2. k \in 1 .. Len(writes') /\ writes'[k] = writes[k]  BY <1>3
      <4>3. ASSUME NEW j \in k + 1 .. Len(writes') PROVE writes'[j].origin # q
        BY <1>2, <1>3, <2>2, <4>1
      <4> QED BY <3>1, <4>1, <4>2, <4>3
    <3> QED BY <1>0, <3>2, <3>3 DEF Lock
  <2> QED BY <2>1, <2>2
<1>7. Lock'  BY ZenonT(30), <1>5, <1>6 DEF Lock
<1>8. expected' \subseteq Pages  BY <1>0, <1>1
<1>9. ASSUME NEW k \in 1 .. Len(writes'), writes'[k].grant
      PROVE  (g /\ writes'[k].origin = p) \/ \E j \in 1 .. Len(writes) : writes'[k] = writes[j]
  BY <1>2, <1>3, <1>9
<1> QED BY <1>1, <1>3, <1>4, <1>7, <1>8, <1>9

LEMMA revokePermissionStep == ASSUME IInv, NEW p \in Pages, revokePermission(p) PROVE IInv'
<1>1. /\ Enqueue(FALSE, p) /\ UNCHANGED <<page, call, inbox, registered, stale, session, stored, history>>
  BY ZenonT(30) DEF revokePermission
<1>2. /\ Lock' /\ writes' \in Seq(Updates) /\ Len(writes') <= MaxWrites
      /\ permissions' = permissions /\ expected' \subseteq Pages
      /\ \A k \in 1 .. Len(writes') : writes'[k].grant => \E j \in 1 .. Len(writes) : writes'[k] = writes[j]
  BY ZenonT(30), <1>1, EnqueueLock
<1>3. Types'  BY <1>1, <1>2 DEF IInv, Types
<1>4. Granted'  BY <1>1, <1>2 DEF IInv, Granted, history
<1>5. Informed'  BY <1>1 DEF IInv, Informed, history
<1> QED BY <1>2, <1>3, <1>4, <1>5 DEF IInv

LEMMA withPermissionLockStep == ASSUME IInv, NEW k \in DOMAIN writes, withPermissionLock(k) PROVE IInv'
<1>0. /\ writes \in Seq(Updates) /\ expected \subseteq Pages /\ permissions \subseteq Pages /\ Lock
      /\ Len(writes) \in Nat /\ Len(writes) <= MaxWrites /\ Len(writes) >= 1
      /\ writes[1] \in Updates
  <2>1. k = 1 /\ writes \in Seq(Updates)  BY DEF withPermissionLock, MayRun, IInv, Types
  <2> QED BY <2>1 DEF IInv, Types
<1> DEFINE u == writes[1]
<1>1. /\ UNCHANGED <<page, call, inbox, registered, stale, session, stored, expected, history>>
      /\ \/ /\ ~u.read /\ permissions' = permissions
            /\ writes' = [writes EXCEPT ![1].read = TRUE, ![1].snap = permissions]
         \/ /\ u.read
            /\ permissions' = IF u.grant THEN u.snap \cup {u.origin} ELSE u.snap \ {u.origin}
            /\ writes' = [n \in 1..(Len(writes) - 1) |-> IF n < 1 THEN writes[n] ELSE writes[n + 1]]
  BY DEF withPermissionLock, MayRun
<1>2. Informed'  BY <1>1 DEF IInv, Informed, history
<1>3. CASE ~u.read
  <2> DEFINE v == [u EXCEPT !.read = TRUE, !.snap = permissions]
  <2>1. permissions' = permissions /\ writes' = [writes EXCEPT ![1] = v]
    <3>1. writes' = [writes EXCEPT ![1].read = TRUE, ![1].snap = permissions]  BY ZenonT(30), <1>1, <1>3
    <3> QED BY ZenonT(30), <1>0, <1>1, <1>3, <3>1 DEF Updates
  <2>2. v \in Updates /\ v.snap = permissions /\ v.origin = u.origin /\ v.grant = u.grant
    BY ZenonT(30), <1>0 DEF Updates
  <2> HIDE DEF v
  <2>3. /\ writes' \in Seq(Updates) /\ Len(writes') = Len(writes) /\ writes'[1] = v
        /\ \A n \in 1 .. Len(writes) : n # 1 => writes'[n] = writes[n]
    BY <1>0, <2>1, <2>2
  <2>4. \A n \in 1 .. Len(writes) : writes'[n].origin = writes[n].origin /\ writes'[n].grant = writes[n].grant
    BY <2>2, <2>3
  <2>5. Types'  BY <1>0, <1>1, <2>1, <2>3 DEF IInv, Types
  <2>6. Lock'
    <3>1. \A n \in 1 .. Len(writes') : writes'[n].read => n = 1 /\ writes'[n].snap = permissions'
      BY <1>0, <2>1, <2>2, <2>3 DEF Lock
    <3>2. ASSUME NEW p \in Pages
          PROVE  \/ (p \in expected' <=> p \in permissions') /\ \A n \in 1 .. Len(writes') : writes'[n].origin # p
                 \/ \E n \in 1 .. Len(writes') :
                      /\ writes'[n].origin = p /\ (p \in expected' <=> writes'[n].grant)
                      /\ \A j \in n + 1 .. Len(writes') : writes'[j].origin # p
      <4>1. \A n \in 1 .. Len(writes) : n + 1 .. Len(writes) \subseteq 1 .. Len(writes)  BY <1>0
      <4>2. Len(writes') = Len(writes) /\ expected' = expected /\ permissions' = permissions  BY <1>1, <2>1, <2>3
      <4>3. CASE (p \in expected <=> p \in permissions) /\ \A n \in 1 .. Len(writes) : writes[n].origin # p
        BY <2>4, <4>2, <4>3
      <4>4. CASE \E n \in 1 .. Len(writes) :
                   /\ writes[n].origin = p /\ (p \in expected <=> writes[n].grant)
                   /\ \A j \in n + 1 .. Len(writes) : writes[j].origin # p
        <5>1. PICK n \in 1 .. Len(writes) :
                   /\ writes[n].origin = p /\ (p \in expected <=> writes[n].grant)
                   /\ \A j \in n + 1 .. Len(writes) : writes[j].origin # p
          BY <4>4
        <5>2. \A j \in n + 1 .. Len(writes) : writes'[j].origin # p  BY <2>4, <4>1, <5>1
        <5> QED BY <2>4, <4>2, <5>1, <5>2
      <4> QED BY <1>0, <4>3, <4>4 DEF Lock
    <3> QED BY ZenonT(30), <3>1, <3>2 DEF Lock
  <2>7. Granted'
    <3>1. \A n \in 1 .. Len(writes') : writes'[n].grant => writes'[n].origin \in approved
      BY <2>3, <2>4 DEF IInv, Granted
    <3> QED BY ZenonT(30), <1>1, <2>1, <3>1 DEF IInv, Granted, history
  <2> QED BY <1>2, <2>5, <2>6, <2>7 DEF IInv
<1>4. CASE u.read
  <2>1. /\ permissions' = IF u.grant THEN permissions \cup {u.origin} ELSE permissions \ {u.origin}
        /\ u.origin \in Pages
    <3>1. u.snap = permissions  BY <1>0, <1>4 DEF Lock
    <3> QED BY <1>0, <1>1, <1>4, <3>1 DEF Updates
  <2>2. /\ writes' \in Seq(Updates) /\ Len(writes') = Len(writes) - 1
        /\ \A n \in 1 .. Len(writes') : writes'[n] = writes[n + 1] /\ n + 1 \in 1 .. Len(writes)
    <3>1. writes' = [n \in 1..(Len(writes) - 1) |-> writes[n + 1]]  BY <1>0, <1>1, <1>4
    <3>2. Len(writes) - 1 \in Nat /\ \A n \in 1 .. Len(writes) - 1 : n + 1 \in 1 .. Len(writes) /\ writes[n + 1] \in Updates
      BY <1>0
    <3>3. writes' \in [1 .. Len(writes) - 1 -> Updates]  BY <3>1, <3>2
    <3>4. writes' \in Seq(Updates) /\ Len(writes') = Len(writes) - 1  BY <3>2, <3>3
    <3> QED BY <3>1, <3>2, <3>4
  <2>3. Types'
    <3>1. Len(writes') <= MaxWrites  BY <1>0, <2>2, BridgeBounds
    <3>2. permissions' \subseteq Pages  BY <1>0, <2>1
    <3> QED BY ZenonT(30), <1>1, <2>2, <3>1, <3>2 DEF IInv, Types
  <2>4. \A n \in 1 .. Len(writes) : n # 1 => ~writes[n].read  BY <1>0 DEF Lock
  <2>5. ASSUME NEW p \in Pages
        PROVE  \/ (p \in expected' <=> p \in permissions') /\ \A n \in 1 .. Len(writes') : writes'[n].origin # p
               \/ \E n \in 1 .. Len(writes') :
                    /\ writes'[n].origin = p /\ (p \in expected' <=> writes'[n].grant)
                    /\ \A j \in n + 1 .. Len(writes') : writes'[j].origin # p
    <3>1. CASE (p \in expected <=> p \in permissions) /\ \A n \in 1 .. Len(writes) : writes[n].origin # p
      <4>1. u.origin # p  BY <1>0, <3>1
      <4>2. p \in permissions' <=> p \in permissions  BY <2>1, <4>1
      <4> QED BY <1>1, <2>2, <3>1, <4>2
    <3>2. CASE \E n \in 1 .. Len(writes) :
                 /\ writes[n].origin = p /\ (p \in expected <=> writes[n].grant)
                 /\ \A j \in n + 1 .. Len(writes) : writes[j].origin # p
      <4>1. PICK n \in 1 .. Len(writes) :
                 /\ writes[n].origin = p /\ (p \in expected <=> writes[n].grant)
                 /\ \A j \in n + 1 .. Len(writes) : writes[j].origin # p
        BY <3>2
      <4>2. CASE n = 1
        <5>1. p \in permissions' <=> u.grant  BY <2>1, <4>1, <4>2
        <5>2. ASSUME NEW j \in 1 .. Len(writes') PROVE writes'[j].origin # p
          <6>1. j + 1 \in 2 .. Len(writes) /\ writes'[j] = writes[j + 1]  BY <1>0, <2>2
          <6> QED BY <4>1, <4>2, <6>1
        <5> QED BY <1>1, <4>1, <4>2, <5>1, <5>2
      <4>3. CASE n # 1
        <5>1. n - 1 \in 1 .. Len(writes') /\ writes'[n - 1] = writes[n]  BY <1>0, <2>2, <4>3
        <5>2. ASSUME NEW j \in (n - 1) + 1 .. Len(writes') PROVE writes'[j].origin # p
          <6>1. j + 1 \in n + 1 .. Len(writes) /\ writes'[j] = writes[j + 1]  BY <1>0, <2>2, <4>3
          <6> QED BY <4>1, <6>1
        <5> QED BY <1>1, <4>1, <5>1, <5>2
      <4> QED BY <4>2, <4>3
    <3> QED BY <1>0, <3>1, <3>2 DEF Lock
  <2>6. \A n \in 1 .. Len(writes') : writes'[n].read => n = 1 /\ writes'[n].snap = permissions'
    BY <1>0, <2>2, <2>4
  <2>7. Lock'  BY ZenonT(30), <2>5, <2>6 DEF Lock
  <2>8. Granted'
    <3>1. permissions' \subseteq approved  BY <1>0, <2>1 DEF IInv, Granted
    <3>2. \A n \in 1 .. Len(writes') : writes'[n].grant => writes'[n].origin \in approved
      BY <2>2 DEF IInv, Granted
    <3> QED BY ZenonT(30), <1>1, <3>1, <3>2 DEF IInv, Granted, history
  <2> QED BY <1>2, <2>3, <2>7, <2>8 DEF IInv
<1> QED BY <1>3, <1>4

-----------------------------------------------------------------------------
(* Messages *)

\* A message that says nothing of accounts, or that they are gone
LEMMA EndsAppend ==
    ASSUME NEW acc \in BOOLEAN, NEW q \in Seq(Messages), NEW m \in Messages,
           m.type \in Forgets \/ (EndsWithout(acc, q) /\ m.type \notin Tells)
    PROVE  EndsWithout(acc, Append(q, m))
<1>1. /\ Len(Append(q, m)) = Len(q) + 1 /\ Len(q) \in Nat /\ Append(q, m)[Len(q) + 1] = m
      /\ \A j \in 1 .. Len(q) : Append(q, m)[j] = q[j]
  OBVIOUS
<1>2. CASE m.type \in Forgets
  <2>1. Len(q) + 1 \in 0 .. Len(Append(q, m))  BY <1>1
  <2>2. \A j \in (Len(q) + 1) + 1 .. Len(Append(q, m)) : Append(q, m)[j].type \notin Tells  BY <1>1
  <2> QED BY <1>1, <1>2, <2>1, <2>2 DEF EndsWithout
<1>3. CASE EndsWithout(acc, q) /\ m.type \notin Tells
  <2>1. PICK i \in 0 .. Len(q) : /\ i = 0 => ~acc
                                 /\ i > 0 => q[i].type \in Forgets
                                 /\ \A j \in i + 1 .. Len(q) : q[j].type \notin Tells
    BY <1>3 DEF EndsWithout
  <2>2. i \in 0 .. Len(Append(q, m)) /\ (i > 0 => Append(q, m)[i] = q[i])  BY <1>1
  <2>3. ASSUME NEW j \in i + 1 .. Len(Append(q, m)) PROVE Append(q, m)[j].type \notin Tells
    BY <1>1, <1>3, <2>1
  <2> QED BY ZenonT(30), <2>1, <2>2, <2>3 DEF EndsWithout
<1> QED BY <1>2, <1>3

\* The first message is read; only an answer may go unheard
LEMMA EndsTail ==
    ASSUME NEW acc \in BOOLEAN, NEW new \in BOOLEAN, NEW q \in Seq(Messages), q # <<>>, EndsWithout(acc, q),
           Head(q).type \in Forgets => ~new, Head(q).type \notin Tells => (new => acc)
    PROVE  EndsWithout(new, Tail(q))
<1>1. /\ Len(q) \in Nat /\ Len(q) > 0 /\ Head(q) = q[1] /\ Len(Tail(q)) = Len(q) - 1
      /\ \A j \in 1 .. Len(q) - 1 : Tail(q)[j] = q[j + 1]
  OBVIOUS
<1>2. PICK i \in 0 .. Len(q) : /\ i = 0 => ~acc
                               /\ i > 0 => q[i].type \in Forgets
                               /\ \A j \in i + 1 .. Len(q) : q[j].type \notin Tells
  BY DEF EndsWithout
<1>3. CASE i \in {0, 1}
  <2>1. ~new  BY <1>1, <1>2, <1>3
  <2>2. ASSUME NEW j \in 0 + 1 .. Len(Tail(q)) PROVE Tail(q)[j].type \notin Tells  BY <1>1, <1>2, <1>3
  <2>3. 0 \in 0 .. Len(Tail(q))  BY <1>1
  <2> QED BY <2>1, <2>2, <2>3 DEF EndsWithout
<1>4. CASE i \notin {0, 1}
  <2>1. i - 1 \in 0 .. Len(Tail(q)) /\ i - 1 > 0 /\ Tail(q)[i - 1] = q[i]  BY <1>1, <1>2, <1>4
  <2>2. ASSUME NEW j \in (i - 1) + 1 .. Len(Tail(q)) PROVE Tail(q)[j].type \notin Tells  BY <1>1, <1>2, <1>4
  <2>3. (i - 1 = 0 => ~new) /\ (i - 1 > 0 => Tail(q)[i - 1].type \in Forgets)  BY <1>2, <2>1
  <2> QED BY ZenonT(30), <2>1, <2>2, <2>3 DEF EndsWithout
<1> QED BY <1>3, <1>4

\* Without messages, what the page has is what counts
LEMMA EndsEmpty == ASSUME NEW acc \in BOOLEAN PROVE EndsWithout(acc, <<>>) <=> ~acc
BY DEF EndsWithout

LEMMA PageTypes ==
    ASSUME IInv, NEW p \in Pages
    PROVE  page[p] \in PageRecords /\ page[p].accounts \in BOOLEAN /\ inbox[p] \in Seq(Messages)
BY DEF IInv, Types, PageRecords

\* The first of some messages, and the rest
LEMMA HeadTail ==
    ASSUME NEW q \in Seq(Messages), q # <<>>
    PROVE  /\ Head(q) \in Messages /\ Head(q) = q[1] /\ Len(q) \in Nat /\ 1 \in 1 .. Len(q)
           /\ Tail(q) \in Seq(Messages) /\ Len(Tail(q)) = Len(q) - 1
           /\ \A j \in 1 .. Len(Tail(q)) : Tail(q)[j] = q[j + 1] /\ j + 1 \in 1 .. Len(q)
OBVIOUS

LEMMA handleMessageStep == ASSUME IInv, NEW p \in Pages, handleMessage(p) PROVE IInv'
<1> DEFINE q == inbox[p]
           m == Head(q)
           heard == m.type # "response" \/ call[m.call].promise = "pending"
           v == IF heard THEN Told(page[p], m.type) ELSE page[p]
<1>1. /\ UNCHANGED <<registered, stale, session, stored, granting, history>> /\ q # <<>>
      /\ inbox' = [inbox EXCEPT ![p] = Tail(q)]
      /\ page' = IF heard THEN [page EXCEPT ![p] = Told(page[p], m.type)] ELSE page
      /\ call' = IF m.type = "response" THEN [call EXCEPT ![m.call] = NoCall] ELSE call
  BY ZenonT(30) DEF handleMessage
<1>2. /\ q \in Seq(Messages) /\ Len(q) <= MaxInbox /\ page[p] \in PageRecords /\ call \in [Calls -> GoodCalls]
      /\ page \in [Pages -> PageRecords] /\ inbox \in [Pages -> Seq(Messages)]
  BY PageTypes DEF IInv, Types
<1>3. m \in Messages /\ m = q[1] /\ Len(q) \in Nat /\ 1 \in 1 .. Len(q)  BY <1>1, <1>2, HeadTail, ZenonT(30)
<1>4. /\ Tail(q) \in Seq(Messages) /\ Len(Tail(q)) = Len(q) - 1
      /\ \A j \in 1 .. Len(Tail(q)) : Tail(q)[j] = q[j + 1] /\ j + 1 \in 1 .. Len(q)
  BY <1>1, <1>2, HeadTail, ZenonT(30)
<1>5. /\ v \in PageRecords /\ (m.type \in Forgets => ~v.accounts)
      /\ (m.type \notin Tells => (v.accounts => page[p].accounts))
      /\ (v.accounts => page[p].accounts \/ m.type \in Tells)
  <2>1. m.type \in Tells \cup Forgets  BY <1>3 DEF Messages
  <2>2. CASE m.type \in Tells /\ heard
    <3>1. v = [page[p] EXCEPT !.accounts = TRUE]  BY <2>2 DEF Told, Tells
    <3> QED BY ZenonT(30), <1>2, <2>2, <3>1 DEF Tells, Forgets, PageRecords
  <2>3. CASE m.type \in Forgets
    <3>1. v = [page[p] EXCEPT !.accounts = FALSE]  BY <2>3 DEF Told, Forgets
    <3> QED BY ZenonT(30), <1>2, <2>3, <3>1 DEF Tells, Forgets, PageRecords
  <2>4. CASE m.type \in Tells /\ ~heard
    <3>1. v = page[p]  BY <2>4
    <3> QED BY <1>2, <2>4, <3>1 DEF Tells, Forgets
  <2> QED BY ZenonT(30), <2>1, <2>2, <2>3, <2>4
<1>6. page' = [page EXCEPT ![p] = v]  BY ZenonT(30), <1>1, <1>2
<1> HIDE DEF v
<1>7. /\ page' \in [Pages -> PageRecords] /\ page'[p] = v /\ inbox' \in [Pages -> Seq(Messages)] /\ inbox'[p] = Tail(q)
      /\ \A r \in Pages : r # p => page'[r] = page[r] /\ inbox'[r] = inbox[r]
  BY ZenonT(30), <1>1, <1>2, <1>4, <1>5, <1>6
<1>8. call' \in [Calls -> GoodCalls]  BY ZenonT(30), <1>1, <1>2, NoCallGood
<1>9. Types'
  <2>1. \A r \in Pages : Len(inbox'[r]) <= MaxInbox
    <3>1. Len(Tail(q)) <= MaxInbox  BY <1>2, <1>3, <1>4, BridgeBounds
    <3> QED BY ZenonT(30), <1>7, <3>1 DEF IInv, Types
  <2> QED BY ZenonT(30), <1>1, <1>7, <1>8, <2>1 DEF IInv, Types, granting
<1>10. Lock'  BY <1>1 DEF IInv, Lock, granting
<1>11. Granted'
  <2>1. \A r \in Pages : \A i \in 1 .. Len(inbox'[r]) : inbox'[r][i].type \in Tells => r \in approved
    <3>1. \A i \in 1 .. Len(Tail(q)) : Tail(q)[i].type \in Tells => p \in approved
      BY ZenonT(30), <1>4 DEF IInv, Granted
    <3> QED BY ZenonT(30), <1>7, <3>1 DEF IInv, Granted
  <2>2. \A r \in Pages : page'[r].accounts => r \in approved
    <3>1. v.accounts => p \in approved  BY ZenonT(30), <1>3, <1>5 DEF IInv, Granted
    <3> QED BY ZenonT(30), <1>7, <3>1 DEF IInv, Granted
  <2> QED BY ZenonT(30), <1>1, <2>1, <2>2 DEF IInv, Granted, granting, history
<1>12. Informed'
  <2> SUFFICES ASSUME ~stored, NEW r \in Pages, r \notin missed PROVE EndsWithout(page'[r].accounts, inbox'[r])
    BY ZenonT(30), <1>1 DEF Informed, history
  <2>1. EndsWithout(page[r].accounts, inbox[r])  BY DEF IInv, Informed
  <2>2. CASE r # p  BY ZenonT(30), <1>7, <2>1, <2>2
  <2>3. CASE r = p
    <3>1. page[p].accounts \in BOOLEAN /\ v.accounts \in BOOLEAN  BY <1>2, <1>5 DEF PageRecords
    <3>2. EndsWithout(v.accounts, Tail(q))  BY ZenonT(30), <1>1, <1>2, <1>5, <2>1, <2>3, <3>1, EndsTail
    <3> QED BY ZenonT(30), <1>7, <2>3, <3>2
  <2> QED BY <2>2, <2>3
<1> QED BY <1>9, <1>10, <1>11, <1>12 DEF IInv

\* A broadcast reaches the permitted pages that are registered
LEMMA Broadcast ==
    ASSUME IInv, NEW e \in {"accounts", "no_accounts", "disconnect"}, broadcastEvent(e)
    PROVE  /\ inbox' \in [Pages -> Seq(Messages)] /\ \A p \in Pages : Len(inbox'[p]) <= MaxInbox
           /\ \A p \in Pages : \A i \in 1 .. Len(inbox'[p]) : inbox'[p][i].type \in Tells => p \in approved
           /\ \A p \in Pages : p \notin Receivers => inbox'[p] = inbox[p]
           /\ e \in Forgets => \A p \in Pages :
                 p \in Receivers \/ EndsWithout(page[p].accounts, inbox[p]) => EndsWithout(page[p].accounts, inbox'[p])
<1> DEFINE m == [type |-> e, call |-> "none"]
<1>1. m \in Messages /\ m.type = e  BY DEF Messages, Tells, Forgets
<1>2. inbox' = [p \in Pages |-> IF p \in Receivers THEN Append(inbox[p], m) ELSE inbox[p]]
  BY DEF broadcastEvent
<1>3. \A p \in Pages : Len(inbox[p]) < MaxInbox  BY DEF broadcastEvent
<1> HIDE DEF m
<1>4. ASSUME NEW p \in Pages
      PROVE  /\ inbox'[p] \in Seq(Messages) /\ Len(inbox'[p]) <= MaxInbox
             /\ \A i \in 1 .. Len(inbox'[p]) : inbox'[p][i].type \in Tells => p \in approved
             /\ p \notin Receivers => inbox'[p] = inbox[p]
             /\ e \in Forgets /\ (p \in Receivers \/ EndsWithout(page[p].accounts, inbox[p]))
                  => EndsWithout(page[p].accounts, inbox'[p])
  <2>1. inbox[p] \in Seq(Messages) /\ page[p].accounts \in BOOLEAN  BY PageTypes
  <2>2. \A i \in 1 .. Len(inbox[p]) : inbox[p][i].type \in Tells => p \in approved  BY DEF IInv, Granted
  <2>3. CASE p \in Receivers
    <3>1. inbox'[p] = Append(inbox[p], m)  BY <1>2, <2>3
    <3>2. p \in approved  BY <2>3 DEF Receivers, IInv, Granted
    <3>3. Append(inbox[p], m) \in Seq(Messages) /\ Len(Append(inbox[p], m)) <= MaxInbox
      BY <1>1, <1>3, <2>1, BridgeBounds
    <3>4. e \in Forgets => EndsWithout(page[p].accounts, Append(inbox[p], m))
      BY ZenonT(30), <1>1, <2>1, EndsAppend
    <3> QED BY ZenonT(30), <2>3, <3>1, <3>2, <3>3, <3>4
  <2>4. CASE p \notin Receivers
    <3>1. inbox'[p] = inbox[p]  BY <1>2, <2>4
    <3>2. Len(inbox[p]) <= MaxInbox  BY DEF IInv, Types
    <3> QED BY ZenonT(30), <2>1, <2>2, <2>4, <3>1, <3>2
  <2> QED BY <2>3, <2>4
<1>5. inbox' \in [Pages -> Seq(Messages)]  BY <1>2, <1>4
<1> QED BY ZenonT(30), <1>4, <1>5

LEMMA handleSessionClosedStep == ASSUME IInv, handleSessionClosed PROVE IInv'
<1>1. /\ session' = FALSE /\ stored' = FALSE /\ broadcastEvent("disconnect") /\ missed' = Pages \ Receivers
      /\ UNCHANGED <<page, registered, stale, granting, approved>>
  BY ZenonT(30) DEF handleSessionClosed
<1>2. call' \in [Calls -> GoodCalls]
  <2>1. \A c \in Calls : call[c] \in GoodCalls /\ (call[c].at = "deferred" => Replied(call[c]) \in GoodCalls)
    BY ZenonT(30), CallType, RepliedGood
  <2> QED BY <2>1 DEF handleSessionClosed
<1>3. "disconnect" \in Forgets  BY DEF Forgets
<1>4. /\ inbox' \in [Pages -> Seq(Messages)] /\ \A p \in Pages : Len(inbox'[p]) <= MaxInbox
      /\ \A p \in Pages : \A i \in 1 .. Len(inbox'[p]) : inbox'[p][i].type \in Tells => p \in approved
      /\ \A p \in Pages : p \in Receivers => EndsWithout(page[p].accounts, inbox'[p])
  BY ZenonT(30), <1>1, <1>3, Broadcast
<1>5. Types'
  <2>1. session' \in BOOLEAN /\ stored' \in BOOLEAN  BY ZenonT(30), <1>1
  <2> QED BY ZenonT(30), <1>1, <1>2, <1>4, <2>1 DEF IInv, Types, granting
<1>6. Lock'  BY <1>1 DEF IInv, Lock, granting
<1>7. Granted'  BY ZenonT(30), <1>1, <1>4 DEF IInv, Granted, granting
<1>8. Informed'  BY ZenonT(30), <1>1, <1>4 DEF Informed
<1> QED BY <1>5, <1>6, <1>7, <1>8 DEF IInv

LEMMA onAccountsChangedStep == ASSUME IInv, NEW some \in BOOLEAN, onAccountsChanged(some) PROVE IInv'
<1> DEFINE e == IF some THEN "accounts" ELSE "no_accounts"
<1>1. /\ stored' = (stored \/ some) /\ broadcastEvent(e)
      /\ UNCHANGED <<page, call, registered, stale, session, granting, history>>
  BY ZenonT(30) DEF onAccountsChanged
<1>2. e \in {"accounts", "no_accounts", "disconnect"} /\ (~some => e \in Forgets)  BY DEF Forgets
<1> HIDE DEF e
<1>3. /\ inbox' \in [Pages -> Seq(Messages)] /\ \A p \in Pages : Len(inbox'[p]) <= MaxInbox
      /\ \A p \in Pages : \A i \in 1 .. Len(inbox'[p]) : inbox'[p][i].type \in Tells => p \in approved
      /\ ~some => \A p \in Pages :
            EndsWithout(page[p].accounts, inbox[p]) => EndsWithout(page[p].accounts, inbox'[p])
  BY ZenonT(30), <1>1, <1>2, Broadcast
<1>4. Types'
  <2>1. stored' \in BOOLEAN  BY <1>1
  <2> QED BY ZenonT(30), <1>1, <1>3, <2>1 DEF IInv, Types, granting
<1>5. Lock'  BY <1>1 DEF IInv, Lock, granting
<1>6. Granted'  BY ZenonT(30), <1>1, <1>3 DEF IInv, Granted, granting, history
<1>7. Informed'  BY ZenonT(30), <1>1, <1>3 DEF IInv, Informed, history
<1> QED BY <1>4, <1>5, <1>6, <1>7 DEF IInv

LEMMA reloadStep == ASSUME IInv, NEW p \in Pages, reload(p) PROVE IInv'
<1>1. /\ page' = [page EXCEPT ![p] = NewPage] /\ inbox' = [inbox EXCEPT ![p] = <<>>]
      /\ stale' = IF page[p].port = "up" THEN stale \cup {p} ELSE stale
      /\ UNCHANGED <<registered, session, stored, granting, history>>
  BY ZenonT(30) DEF reload
<1>2. NewPage \in PageRecords /\ ~NewPage.accounts  BY DEF NewPage, PageRecords
<1>3. <<>> \in Seq(Messages) /\ Len(<<>>) = 0  OBVIOUS
<1>4. /\ page' \in [Pages -> PageRecords] /\ page'[p] = NewPage /\ inbox' \in [Pages -> Seq(Messages)] /\ inbox'[p] = <<>>
      /\ \A r \in Pages : r # p => page'[r] = page[r] /\ inbox'[r] = inbox[r]
  BY ZenonT(30), <1>1, <1>2, <1>3 DEF IInv, Types
<1>5. call' \in [Calls -> GoodCalls]
  <2> DEFINE st(x) == IF x \in {"posted", "answered"} THEN "idle" ELSE x
             r(c) == [call[c] EXCEPT !.promise = "none", !.lost = TRUE, !.at = st(@)]
  <2>1. ASSUME NEW c \in Calls PROVE call[c] \in GoodCalls /\ Tidy(r(c)) \in GoodCalls
    <3>1. call[c] \in GoodCalls  BY CallType
    <3>2. st(call[c].at) \in Stages /\ (st(call[c].at) # "idle" => call[c].at # "idle")
      BY <3>1 DEF GoodCalls, CallRecords, Stages
    <3> HIDE DEF st
    <3>3. r(c) \in GoodCalls  BY ZenonT(30), <3>1, <3>2 DEF GoodCalls, CallRecords
    <3> HIDE DEF r
    <3> QED BY ZenonT(30), <3>1, <3>3, TidyGood
  <2>2. call' = [c \in Calls |-> IF call[c].page = p THEN Tidy(r(c)) ELSE call[c]]  BY ZenonT(30) DEF reload
  <2> HIDE DEF r
  <2> QED BY <2>1, <2>2
<1>6. Types'
  <2>1. \A r \in Pages : Len(inbox'[r]) <= MaxInbox
    <3>1. Len(inbox'[p]) <= MaxInbox  BY <1>4, BridgeBounds
    <3> QED BY ZenonT(30), <1>4, <3>1 DEF IInv, Types
  <2>2. stale' \subseteq Pages  BY <1>1 DEF IInv, Types
  <2> QED BY ZenonT(30), <1>1, <1>4, <1>5, <2>1, <2>2 DEF IInv, Types, granting
<1>7. Lock'  BY <1>1 DEF IInv, Lock, granting
<1>8. Granted'
  <2>1. \A r \in Pages : \A i \in 1 .. Len(inbox'[r]) : inbox'[r][i].type \in Tells => r \in approved
    <3>1. 1 .. Len(inbox'[p]) = {}  BY <1>4
    <3> QED BY ZenonT(30), <1>4, <3>1 DEF IInv, Granted
  <2>2. \A r \in Pages : page'[r].accounts => r \in approved  BY ZenonT(30), <1>2, <1>4 DEF IInv, Granted
  <2> QED BY ZenonT(30), <1>1, <2>1, <2>2 DEF IInv, Granted, granting, history
<1>9. Informed'
  <2>1. EndsWithout(page'[p].accounts, inbox'[p])
    <3>1. NewPage.accounts \in BOOLEAN  BY <1>2 DEF PageRecords
    <3> QED BY ZenonT(30), <1>2, <1>4, <3>1, EndsEmpty
  <2> QED BY ZenonT(30), <1>1, <1>4, <2>1 DEF IInv, Informed, history
<1> QED BY <1>6, <1>7, <1>8, <1>9 DEF IInv

\* The answer of the wallet: posted with its accounts, or not
LEMMA ApprovalPosted ==
    ASSUME IInv, NEW c \in Calls, call[c].at = "forwarded", ReplyAccounts(c) \/ Reply(c),
           ~Reply(c) => call[c].page \in approved', approved \subseteq approved'
    PROVE  /\ call' \in [Calls -> GoodCalls] /\ inbox' \in [Pages -> Seq(Messages)]
           /\ \A p \in Pages : Len(inbox'[p]) <= MaxInbox
           /\ \A p \in Pages : \A i \in 1 .. Len(inbox'[p]) : inbox'[p][i].type \in Tells => p \in approved'
           /\ inbox' = inbox \/ ~Reply(c)
<1>1. CASE Reply(c)
  <2>1. call' \in [Calls -> GoodCalls] /\ inbox' = inbox  BY <1>1, ReplyGood
  <2> QED BY ZenonT(30), <1>1, <2>1 DEF IInv, Types, Granted
<1>2. CASE ReplyAccounts(c) /\ ~Reply(c)
  <2> DEFINE p == call[c].page
             m == [type |-> "response", call |-> c]
             r == [Replied(call[c]) EXCEPT !.at = "posted"]
  <2>1. /\ ~call[c].lost /\ Len(inbox[p]) < MaxInbox
        /\ call' = [call EXCEPT ![c] = r] /\ inbox' = [inbox EXCEPT ![p] = Append(inbox[p], m)]
    BY ZenonT(30), <1>2 DEF ReplyAccounts
  <2>2. call[c] \in GoodCalls /\ p \in Pages  BY CallType DEF GoodCalls
  <2>3. r \in GoodCalls  BY ZenonT(30), <2>1, <2>2, RepliedGood
  <2> HIDE DEF r
  <2>4. call' \in [Calls -> GoodCalls]  BY ZenonT(30), <2>1, <2>3, CallGood DEF IInv, Types
  <2>5. m \in Messages  BY DEF Messages, Tells
  <2> HIDE DEF m
  <2>6. inbox[p] \in Seq(Messages)  BY <2>2, PageTypes
  <2>7. Append(inbox[p], m) \in Seq(Messages) /\ Len(Append(inbox[p], m)) <= MaxInbox
    BY <2>1, <2>5, <2>6, BridgeBounds
  <2> HIDE DEF p
  <2>8. /\ inbox' \in [Pages -> Seq(Messages)] /\ inbox'[p] = Append(inbox[p], m)
        /\ \A q \in Pages : q # p => inbox'[q] = inbox[q]
    BY ZenonT(30), <2>1, <2>2, <2>7 DEF IInv, Types
  <2>9. \A q \in Pages : Len(inbox'[q]) <= MaxInbox  BY ZenonT(30), <2>7, <2>8 DEF IInv, Types
  <2>10. p \in approved'  BY <1>2 DEF p
  <2>11. \A q \in Pages : \A i \in 1 .. Len(inbox'[q]) : inbox'[q][i].type \in Tells => q \in approved'
    BY ZenonT(30), <2>8, <2>10 DEF IInv, Granted
  <2> QED BY ZenonT(30), <1>2, <2>4, <2>8, <2>9, <2>11
<1> QED BY <1>1, <1>2

LEMMA walletApprovesStep == ASSUME IInv, NEW c \in Calls, walletApproves(c) PROVE IInv'
<1> DEFINE p == call[c].page
           m == call[c].method
<1>1. /\ call[c].at = "forwarded" /\ UNCHANGED <<page, registered, stale, session, missed>>
      /\ IF m = "eth_requestAccounts" THEN ReplyAccounts(c) ELSE Reply(c)
      /\ stored' = (stored \/ m = "eth_requestAccounts")
      /\ approved' = IF m \in AccountMethods THEN approved \cup {p} ELSE approved
      /\ IF m = "eth_requestAccounts" \/ call[c].wrapped THEN Enqueue(TRUE, p) ELSE UNCHANGED granting
  BY ZenonT(30) DEF walletApproves
<1>2. call[c] \in GoodCalls /\ p \in Pages /\ (call[c].wrapped => m \in AccountMethods)
      /\ "eth_requestAccounts" \in AccountMethods
  BY <1>1, CallType DEF GoodCalls, AccountMethods
<1> HIDE DEF m, p
<1>3. approved \subseteq approved' /\ (m \in AccountMethods => p \in approved')  BY <1>1
<1>4. /\ call' \in [Calls -> GoodCalls] /\ inbox' \in [Pages -> Seq(Messages)]
      /\ \A q \in Pages : Len(inbox'[q]) <= MaxInbox
      /\ \A q \in Pages : \A i \in 1 .. Len(inbox'[q]) : inbox'[q][i].type \in Tells => q \in approved'
      /\ m # "eth_requestAccounts" => inbox' = inbox
  <2>1. ReplyAccounts(c) \/ Reply(c)  BY <1>1
  <2>2. ~Reply(c) => m = "eth_requestAccounts" /\ call[c].page \in approved'  BY <1>1, <1>2, <1>3 DEF p
  <2> QED BY ZenonT(30), <1>1, <1>3, <2>1, <2>2, ApprovalPosted
<1>5. /\ Lock' /\ writes' \in Seq(Updates) /\ Len(writes') <= MaxWrites
      /\ permissions' = permissions /\ expected' \subseteq Pages
      /\ \A k \in 1 .. Len(writes') : writes'[k].grant => writes'[k].origin \in approved'
  <2>1. CASE Enqueue(TRUE, p) /\ p \in approved'
    <3>1. /\ Lock' /\ writes' \in Seq(Updates) /\ Len(writes') <= MaxWrites
          /\ permissions' = permissions /\ expected' \subseteq Pages
          /\ \A k \in 1 .. Len(writes') :
                 writes'[k].grant => writes'[k].origin = p \/ \E j \in 1 .. Len(writes) : writes'[k] = writes[j]
      BY ZenonT(30), <1>2, <2>1, EnqueueLock
    <3> QED BY ZenonT(30), <1>3, <2>1, <3>1 DEF IInv, Granted
  <2>2. CASE UNCHANGED granting
    <3>1. Lock'  BY <2>2 DEF IInv, Lock, granting
    <3> QED BY ZenonT(30), <1>3, <2>2, <3>1 DEF IInv, Types, Granted, granting
  <2>3. (Enqueue(TRUE, p) /\ p \in approved') \/ UNCHANGED granting  BY ZenonT(30), <1>1, <1>2, <1>3
  <2> QED BY ZenonT(30), <2>1, <2>2, <2>3
<1>6. Types'
  <2>1. stored' \in BOOLEAN  BY <1>1
  <2> QED BY ZenonT(30), <1>1, <1>4, <1>5, <2>1 DEF IInv, Types
<1>7. Granted'  BY ZenonT(30), <1>1, <1>3, <1>4, <1>5 DEF IInv, Granted
<1>8. Informed'  BY ZenonT(30), <1>1, <1>4 DEF IInv, Informed
<1> QED BY <1>5, <1>6, <1>7, <1>8 DEF IInv

-----------------------------------------------------------------------------
(* The theorems *)

LEMMA IInvInit == Init => IInv
<1> SUFFICES ASSUME Init PROVE IInv  OBVIOUS
<1>1. NewPage \in PageRecords /\ NewPage.accounts = FALSE  BY DEF NewPage, PageRecords
<1>2. /\ page \in [Pages -> PageRecords] /\ \A p \in Pages : page[p] = NewPage
      /\ call \in [Calls -> GoodCalls] /\ inbox \in [Pages -> Seq(Messages)] /\ \A p \in Pages : inbox[p] = <<>>
  BY <1>1, NoCallGood DEF Init
<1>3. Types
  <2>1. <<>> \in Seq(Updates) /\ Len(<<>>) = 0 /\ 0 <= MaxInbox /\ 0 <= MaxWrites  BY BridgeBounds
  <2>2. \A p \in Pages : Len(inbox[p]) <= MaxInbox  BY ZenonT(30), <1>2, <2>1
  <2>3. /\ registered = {} /\ stale = {} /\ session = FALSE /\ stored = FALSE
        /\ permissions = {} /\ expected = {} /\ writes = <<>>
    BY DEF Init
  <2> QED BY ZenonT(30), <1>2, <2>1, <2>2, <2>3 DEF Types
<1>4. Lock /\ Granted
  <2>1. writes = <<>> /\ Len(writes) = 0 /\ permissions = {} /\ expected = {}  BY DEF Init
  <2>2. \A p \in Pages : Len(inbox[p]) = 0 /\ page[p].accounts = FALSE
    <3>1. Len(<<>>) = 0  OBVIOUS
    <3> QED BY ZenonT(30), <1>1, <1>2, <3>1
  <2> QED BY <2>1, <2>2 DEF Lock, Granted
<1>5. Informed
  <2>1. \A p \in Pages : EndsWithout(page[p].accounts, inbox[p])  BY ZenonT(30), <1>1, <1>2, EndsEmpty
  <2> QED BY <2>1 DEF Informed
<1> QED BY <1>3, <1>4, <1>5 DEF IInv

LEMMA IInvStep == IInv /\ [Next]_vars => IInv'
<1> SUFFICES ASSUME IInv, [Next]_vars PROVE IInv'  OBVIOUS
<1>1. CASE UNCHANGED vars
  <2>1. /\ UNCHANGED <<page, inbox, stored, granting, history>> /\ UNCHANGED <<call, registered, stale, session>>
    BY ZenonT(30), <1>1 DEF vars, granting, history
  <2>2. call' \in [Calls -> GoodCalls]  BY <2>1 DEF IInv, Types
  <2> QED BY ZenonT(30), <2>1, <2>2, Bystanders, OnlyCalls
<1>2. CASE Next
  <2>1. ASSUME NEW c \in Calls,
               \/ \E p \in Pages, m \in Methods : request(c, p, m)
               \/ timeout(c) \/ deliver(c) \/ WorkerStep(c) \/ walletApproves(c)
        PROVE  IInv'
    BY ZenonT(30), <2>1, requestStep, PlainStep, walletApprovesStep
  <2>2. ASSUME NEW p \in Pages,
               handleMessage(p) \/ revokePermission(p) \/ reload(p) \/ portDisconnected(p) \/ contextInvalidated(p)
        PROVE  IInv'
    BY ZenonT(30), <2>2, handleMessageStep, revokePermissionStep, reloadStep, portDisconnectedStep, contextInvalidatedStep
  <2>3. ASSUME NEW k \in DOMAIN writes, withPermissionLock(k) PROVE IInv'  BY <2>3, withPermissionLockStep
  <2>4. CASE sessionUp \/ sessionDrops \/ handleSessionClosed \/ snapshotExpired \/ stopWorker
    BY ZenonT(30), <2>4, SessionSteps, handleSessionClosedStep, snapshotExpiredStep, stopWorkerStep
  <2>5. ASSUME NEW some \in BOOLEAN, onAccountsChanged(some) PROVE IInv'  BY <2>5, onAccountsChangedStep
  <2> QED BY ZenonT(30), <1>2, <2>1, <2>2, <2>3, <2>4, <2>5 DEF Next
<1> QED BY <1>1, <1>2

LEMMA IInvAlways == Spec => []IInv
BY IInvInit, IInvStep, PTL DEF Spec

\* For any pages, calls and updates waiting for the lock of storage.ts: no
\* update is lost, and only a page whose origin the wallet approved has an account.
THEOREM GrantsAlwaysRespected == Spec => []GrantsRespected
<1>1. IInv => GrantsRespected
  <2> SUFFICES ASSUME IInv PROVE GrantsRespected  OBVIOUS
  <2>1. \A p \in Pages : Len(inbox[p]) \in 0 .. MaxInbox
    <3> TAKE p \in Pages
    <3>1. inbox[p] \in Seq(Messages) /\ Len(inbox[p]) <= MaxInbox  BY PageTypes DEF IInv, Types
    <3> QED BY <3>1, BridgeBounds
  <2>2. Len(writes) \in 0 .. MaxWrites  BY BridgeBounds DEF IInv, Types
  <2>3. \A c \in Calls : call[c].promise \in {"none", "pending"} /\ call[c].at \in Stages
    BY CallType DEF GoodCalls, CallRecords
  <2>4. TypeOK  BY ZenonT(30), <2>1, <2>2, <2>3 DEF IInv, Types, TypeOK, PageRecords
  <2>5. ASSUME writes = <<>> PROVE permissions = expected
    <3>1. Len(writes) = 0  BY <2>5
    <3>2. 1 .. Len(writes) = {}  BY <3>1
    <3>3. \A p \in Pages : p \in expected <=> p \in permissions  BY ZenonT(30), <3>2 DEF IInv, Lock
    <3> QED BY ZenonT(30), <3>3 DEF IInv, Types
  <2> QED BY <2>4, <2>5 DEF IInv, Granted, GrantsRespected
<1> QED BY <1>1, IInvAlways, PTL

\* For the same, a page that still shows an account of a wallet that has been
\* forgotten has a message to come, or the event was not posted to it.
THEOREM PagesAlwaysTold == Spec => []PagesTold
<1>1. IInv => PagesTold
  <2> SUFFICES ASSUME IInv, NEW p \in Pages, page[p].accounts, ~stored, inbox[p] = <<>> PROVE p \in missed
    BY DEF PagesTold
  <2>1. page[p].accounts \in BOOLEAN  BY PageTypes
  <2> QED BY ZenonT(30), <2>1, EndsEmpty DEF IInv, Informed
<1> QED BY <1>1, IInvAlways, PTL

-----------------------------------------------------------------------------
(* The service worker: Background *)

CONSTANTS Requests, MaxSessions
VARIABLES phases, worker, rebuild, tick, rpc, disk

Worker == INSTANCE Background

Uis == {"idle", "pairing", "pending_accept", "connected", "disconnected"}
Workers == [cur : 0..MaxSessions, att : 0..MaxSessions, pairing : BOOLEAN, timer : BOOLEAN, ui : Uis]
Rebuilds == [at : {"no", "reading", "settings", "connecting"}, timer : BOOLEAN]
RpcRecords == [at : Worker!Stages, accounts : BOOLEAN, to : 0..MaxSessions]
Disks == [saved : BOOLEAN, alarm : {"none", "clearing", "set"}]

WorkerTypes ==
    /\ phases \in [Worker!Slots -> Worker!Phases]
    /\ worker \in Workers
    /\ rebuild \in Rebuilds
    /\ tick \in {"no", "expiry"}
    /\ rpc \in [Worker!Callers -> RpcRecords]
    /\ disk \in Disks

\* What the popup shows for a live session in phase p
Shown(p) == CASE p = "waiting" -> "pairing" [] p = "unpaired" -> "disconnected" [] OTHER -> p

Follows(w, ph) == w.att # 0 /\ ph[w.att] \in Worker!Live => w.ui = Shown(ph[w.att])

WorkerInv ==
    /\ WorkerTypes
    /\ worker.cur \in {0, worker.att}
    /\ Follows(worker, phases)
    /\ Worker!RecoveryArmed

\* What the listeners do to the worker in phase p
LEMMA OnWorkerFacts ==
    ASSUME MaxSessions \in Nat \ {0}, NEW w \in Workers, NEW p \in Worker!Live \cup {"closed"}
    PROVE  /\ Worker!OnWorker(w, p) \in Workers
           /\ Worker!OnWorker(w, p).cur = w.cur /\ Worker!OnWorker(w, p).att = w.att
           /\ p \in Worker!Live => Worker!OnWorker(w, p).ui = Shown(p)
<1>1. CASE p = "waiting"  BY <1>1 DEF Worker!OnWorker, Workers, Uis, Shown, Worker!Live
<1>2. CASE p = "pending_accept"  BY <1>2 DEF Worker!OnWorker, Workers, Uis, Shown, Worker!Live
<1>3. CASE p = "connected"  BY ZenonT(30), <1>3 DEF Worker!OnWorker, Workers, Uis, Shown, Worker!Live
<1>4. CASE p = "disconnected"  BY ZenonT(30), <1>4 DEF Worker!OnWorker, Workers, Uis, Shown, Worker!Live
<1>5. CASE p = "unpaired"  BY ZenonT(30), <1>5 DEF Worker!OnWorker, Workers, Uis, Shown, Worker!Live
<1>6. CASE p = "closed"  BY ZenonT(30), <1>6 DEF Worker!OnWorker, Worker!handleSessionClosed, Workers, Uis, Shown, Worker!Live
<1> QED BY <1>1, <1>2, <1>3, <1>4, <1>5, <1>6 DEF Worker!Live

\* What handleSessionClosed and the listeners do to the worker and the disk
LEMMA ClosedFacts ==
    ASSUME MaxSessions \in Nat \ {0}, NEW w \in Workers
    PROVE  /\ Worker!handleSessionClosed(w) \in Workers
           /\ Worker!handleSessionClosed(w).cur = w.cur /\ Worker!handleSessionClosed(w).att = w.att
BY ZenonT(30) DEF Worker!handleSessionClosed, Workers, Uis

Armed(d) == d.saved => d.alarm # "none"

LEMMA ForgetFacts ==
    ASSUME MaxSessions \in Nat \ {0}, NEW d \in Disks
    PROVE  Worker!Forget(d) \in Disks /\ Armed(Worker!Forget(d))
BY DEF Worker!Forget, Worker!ClearAlarm, Disks, Armed

LEMMA OnDiskFacts ==
    ASSUME MaxSessions \in Nat \ {0}, NEW d \in Disks, Armed(d), NEW p
    PROVE  Worker!OnDisk(d, p) \in Disks /\ Armed(Worker!OnDisk(d, p))
<1>1. CASE p = "connected"  BY ZenonT(30), <1>1 DEF Worker!OnDisk, Disks, Armed
<1>2. CASE p = "closed"  BY <1>2, ForgetFacts DEF Worker!OnDisk
<1>3. CASE p # "connected" /\ p # "closed"  BY <1>3 DEF Worker!OnDisk
<1> QED BY <1>1, <1>2, <1>3

Rpcs == [Worker!Callers -> RpcRecords]

\* What the listeners do to the calls
LEMMA RejectFacts ==
    ASSUME MaxSessions \in Nat \ {0}, NEW q \in Rpcs
    PROVE  Worker!rejectAllDeferred(q) \in Rpcs
<1>1. Worker!NoCall \in RpcRecords  BY DEF Worker!NoCall, RpcRecords, Worker!Stages
<1> QED BY <1>1 DEF Worker!rejectAllDeferred, Rpcs

LEMMA FlushFacts ==
    ASSUME MaxSessions \in Nat \ {0}, NEW q \in Rpcs
    PROVE  Worker!flushDeferredRequests(q) \in Rpcs
<1>1. \A r \in RpcRecords : [r EXCEPT !.at = "checking"] \in RpcRecords  BY DEF RpcRecords, Worker!Stages
<1> QED BY <1>1 DEF Worker!flushDeferredRequests, Rpcs

LEMMA OnRpcFacts ==
    ASSUME MaxSessions \in Nat \ {0}, NEW q \in Rpcs, NEW p
    PROVE  Worker!OnRpc(q, p) \in Rpcs
<1>1. CASE p = "connected"  BY <1>1, FlushFacts DEF Worker!OnRpc
<1>2. CASE p = "closed"  BY <1>2, RejectFacts DEF Worker!OnRpc
<1>3. CASE p # "connected" /\ p # "closed"  BY <1>3 DEF Worker!OnRpc
<1> QED BY <1>1, <1>2, <1>3

LEMMA WorkerInvInit == ASSUME MaxSessions \in Nat \ {0} PROVE Worker!Init => WorkerInv
<1> SUFFICES ASSUME Worker!Init PROVE WorkerInv  OBVIOUS
<1>1. phases \in [Worker!Slots -> Worker!Phases] /\ tick \in {"no", "expiry"}  BY DEF Worker!Init, Worker!Phases
<1>2. worker \in Workers /\ worker.cur = 0 /\ worker.att = 0  BY DEF Worker!Init, Worker!NewWorker, Workers, Uis
<1>3. rebuild \in Rebuilds  BY ZenonT(30) DEF Worker!Init, Worker!NoRebuild, Rebuilds
<1>4. rpc \in [Worker!Callers -> RpcRecords]  BY DEF Worker!Init, Worker!NoCall, RpcRecords, Worker!Stages
<1>5. disk \in Disks /\ Worker!RecoveryArmed  BY DEF Worker!Init, Disks, Worker!RecoveryArmed
<1> QED BY <1>1, <1>2, <1>3, <1>4, <1>5 DEF WorkerInv, WorkerTypes, Follows

\* A step that leaves the session objects and the worker's variables, but for the
\* timer and pairingInProgress, alone
LEMMA Quiet ==
    ASSUME MaxSessions \in Nat \ {0}, WorkerInv, phases' = phases, worker' \in Workers, worker'.cur = worker.cur, worker'.att = worker.att,
           worker'.ui = worker.ui, rebuild' \in Rebuilds, tick' \in {"no", "expiry"}, rpc' \in Rpcs,
           disk' \in Disks, Armed(disk')
    PROVE  WorkerInv'
BY DEF WorkerInv, WorkerTypes, Follows, Worker!RecoveryArmed, Armed, Rpcs

\* A session object enters phase p, heard or not
LEMMA EnterStep ==
    ASSUME MaxSessions \in Nat \ {0}, WorkerInv, NEW i \in Worker!Slots, NEW p \in Worker!Live \cup {"closed"}, Worker!Enter(i, p), UNCHANGED <<rebuild, tick>>
    PROVE  WorkerInv'
<1> DEFINE v == IF p = "closed" THEN Worker!Shut(i) ELSE p
<1>1. v \in Worker!Phases /\ (v = p \/ v \notin Worker!Live)  BY DEF Worker!Shut, Worker!Phases, Worker!Live
<1>2. phases' = [phases EXCEPT ![i] = v] /\ phases \in [Worker!Slots -> Worker!Phases]  BY DEF Worker!Enter, WorkerInv, WorkerTypes
<1>3. phases' \in [Worker!Slots -> Worker!Phases] /\ phases'[i] = v /\ \A j \in Worker!Slots : j # i => phases'[j] = phases[j]
  BY <1>1, <1>2
<1>4. Armed(disk) /\ disk \in Disks /\ rpc \in Rpcs /\ worker \in Workers
  BY DEF WorkerInv, WorkerTypes, Worker!RecoveryArmed, Armed, Rpcs
<1>5. CASE i = worker.att /\ phases[i] # p
  <2>1. worker' = Worker!OnWorker(worker, p) /\ disk' = Worker!OnDisk(disk, p) /\ rpc' = Worker!OnRpc(rpc, p)
    BY <1>5 DEF Worker!Enter
  <2>2. disk' \in Disks /\ Armed(disk')  BY <1>4, <2>1, OnDiskFacts
  <2>3. rpc' \in Rpcs  BY <1>4, <2>1, OnRpcFacts
  <2>4. /\ worker' \in Workers /\ worker'.cur = worker.cur /\ worker'.att = worker.att
        /\ p \in Worker!Live => worker'.ui = Shown(p)
    BY <1>4, <2>1, OnWorkerFacts
  <2>5. Follows(worker', phases')  BY <1>1, <1>3, <1>5, <2>4 DEF Follows
  <2> QED BY <1>3, <2>2, <2>3, <2>4, <2>5 DEF WorkerInv, WorkerTypes, Worker!RecoveryArmed, Armed, Rpcs
<1>6. CASE ~(i = worker.att /\ phases[i] # p)
  <2>1. UNCHANGED <<worker, disk, rpc>>  BY <1>6 DEF Worker!Enter
  <2>2. Follows(worker', phases')
    <3>1. CASE i # worker.att
      <4>1. worker.att # 0 => worker.att \in Worker!Slots  BY <1>4 DEF Workers, Worker!Slots
      <4> QED BY <1>3, <2>1, <3>1, <4>1 DEF Follows, WorkerInv
    <3>2. CASE phases[i] = p
      BY <1>1, <1>2, <1>3, <1>6, <2>1, <3>2 DEF Follows, WorkerInv
    <3> QED BY <1>6, <3>1, <3>2
  <2> QED BY <1>3, <2>1, <2>2 DEF WorkerInv, WorkerTypes, Worker!RecoveryArmed
<1> QED BY <1>5, <1>6

LEMMA SessionStepInv == ASSUME MaxSessions \in Nat \ {0}, WorkerInv, NEW i \in Worker!Slots, Worker!SessionStep(i) PROVE WorkerInv'
<1>1. \E p \in Worker!Live \cup {"closed"} : Worker!Enter(i, p)
  BY DEF Worker!SessionStep, Worker!walletJoins, Worker!connects, Worker!readyWaiting, Worker!drops, Worker!closes, Worker!Live
<1> QED BY <1>1, EnterStep DEF Worker!SessionStep

\* A worker that has been replaced or told to forget
LEMMA Settled ==
    ASSUME MaxSessions \in Nat \ {0}, WorkerInv, phases' \in [Worker!Slots -> Worker!Phases], worker' \in Workers, worker'.cur \in {0, worker'.att},
           Follows(worker', phases'), rebuild' \in Rebuilds, tick' \in {"no", "expiry"},
           rpc' \in Rpcs, disk' \in Disks, Armed(disk')
    PROVE  WorkerInv'
BY DEF WorkerInv, WorkerTypes, Worker!RecoveryArmed, Armed, Rpcs

\* The types and the armed alarm of the state before
LEMMA Before ==
    ASSUME MaxSessions \in Nat \ {0}, WorkerInv
    PROVE  /\ phases \in [Worker!Slots -> Worker!Phases] /\ worker \in Workers /\ worker.cur \in {0, worker.att}
           /\ rebuild \in Rebuilds /\ tick \in {"no", "expiry"} /\ rpc \in Rpcs
           /\ disk \in Disks /\ Armed(disk) /\ Follows(worker, phases)
BY DEF WorkerInv, WorkerTypes, Worker!RecoveryArmed, Armed, Rpcs

\* The variables that name the session are set to i
LEMMA Named ==
    ASSUME MaxSessions \in Nat \ {0}, NEW w \in Workers, NEW i \in 0..MaxSessions
    PROVE  /\ [w EXCEPT !.cur = i, !.att = i] \in Workers
           /\ [w EXCEPT !.cur = i, !.att = i].cur = i /\ [w EXCEPT !.cur = i, !.att = i].att = i
           /\ [w EXCEPT !.cur = i, !.att = i].ui = w.ui
BY ZenonT(30) DEF Workers

\* Call c is moved on
LEMMA Moved ==
    ASSUME MaxSessions \in Nat \ {0}, NEW q \in Rpcs, NEW c \in Worker!Callers, NEW r \in RpcRecords
    PROVE  [q EXCEPT ![c] = r] \in Rpcs
BY DEF Rpcs

LEMMA OrphanedPhase ==
    ASSUME MaxSessions \in Nat \ {0}, NEW j \in Worker!Slots, phases[j] \in Worker!Phases
    PROVE  Worker!Orphaned(j) \in Worker!Phases
BY DEF Worker!Orphaned, Worker!Phases, Worker!Live

LEMMA createSessionStep == ASSUME MaxSessions \in Nat \ {0}, WorkerInv, NEW c \in Worker!Callers, Worker!createSession(c) PROVE WorkerInv'
<1>0. /\ phases \in [Worker!Slots -> Worker!Phases] /\ worker \in Workers /\ rpc \in Rpcs
      /\ disk \in Disks /\ Armed(disk) /\ rebuild \in Rebuilds /\ tick \in {"no", "expiry"}
  BY Before
<1> DEFINE old == worker.cur
           heard == old # 0 /\ old = worker.att /\ phases[old] # "closed"
           w == IF heard THEN Worker!handleSessionClosed(worker) ELSE worker
           rest == IF heard THEN Worker!rejectAllDeferred(rpc) ELSE rpc
<1>1. PICK i \in Worker!Slots :
         /\ phases' = [j \in Worker!Slots |-> CASE j = i -> "idle" [] j = old /\ j # i -> "none"
                                          [] j = worker.att /\ j # i -> Worker!Orphaned(j) [] OTHER -> phases[j]]
         /\ worker' = [w EXCEPT !.cur = i, !.att = i]
         /\ disk' = IF heard THEN Worker!Forget(disk) ELSE disk
         /\ rpc' = [rest EXCEPT ![c].at = "connecting", ![c].to = i]
  BY ZenonT(30) DEF Worker!createSession
<1>2. w \in Workers  BY <1>0, ClosedFacts
<1>3. worker' \in Workers /\ worker'.cur = i /\ worker'.att = i
  <2>1. i \in 0..MaxSessions  BY DEF Worker!Slots
  <2> HIDE DEF w
  <2> QED BY ZenonT(30), <1>1, <1>2, <2>1, Named
<1>4. disk' \in Disks /\ Armed(disk')  BY <1>0, <1>1, ForgetFacts
<1>5. rest \in Rpcs  BY <1>0, RejectFacts
<1>6. rpc' \in Rpcs
  <2> DEFINE r == [rest[c] EXCEPT !.at = "connecting", !.to = i]
  <2>1. rest[c] \in RpcRecords /\ i \in 0..MaxSessions  BY <1>5 DEF Rpcs, Worker!Slots
  <2> HIDE DEF rest
  <2>2. r \in RpcRecords  BY ZenonT(30), <2>1 DEF RpcRecords, Worker!Stages
  <2>3. rpc' = [rest EXCEPT ![c] = r]  BY ZenonT(30), <1>1, <1>5 DEF Rpcs
  <2> QED BY ZenonT(30), <1>5, <2>2, <2>3, Moved
<1>7. phases' \in [Worker!Slots -> Worker!Phases]
  <2>1. \A j \in Worker!Slots : Worker!Orphaned(j) \in Worker!Phases /\ phases[j] \in Worker!Phases  BY <1>0, OrphanedPhase
  <2>2. "idle" \in Worker!Phases /\ "none" \in Worker!Phases  BY DEF Worker!Phases
  <2> QED BY <1>1, <2>1, <2>2
<1>8. phases'[i] = "idle"  BY <1>1
<1>9. Follows(worker', phases')  BY <1>3, <1>8 DEF Follows, Worker!Live
<1>10. UNCHANGED <<rebuild, tick>>  BY DEF Worker!createSession
<1> QED BY <1>0, <1>3, <1>4, <1>6, <1>7, <1>9, <1>10, Settled, ZenonT(30)

LEMMA restoreSessionStep == ASSUME MaxSessions \in Nat \ {0}, WorkerInv, Worker!restoreSession PROVE WorkerInv'
<1>0. /\ phases \in [Worker!Slots -> Worker!Phases] /\ worker \in Workers /\ rpc \in Rpcs
      /\ disk \in Disks /\ Armed(disk) /\ rebuild \in Rebuilds /\ tick \in {"no", "expiry"}
  BY Before
<1> DEFINE w == Worker!OnWorker(Worker!OnWorker(worker, "connected"), "disconnected")
<1>1. PICK i \in Worker!Slots :
         /\ phases' = [j \in Worker!Slots |-> CASE j = i -> "disconnected"
                                          [] j \in {worker.cur, worker.att} /\ j # i -> Worker!Orphaned(j)
                                          [] OTHER -> phases[j]]
         /\ worker' = [w EXCEPT !.cur = i, !.att = i]
  BY ZenonT(30) DEF Worker!restoreSession
<1>2. w \in Workers /\ w.ui = "disconnected"
  <2>1. Worker!OnWorker(worker, "connected") \in Workers  BY <1>0, OnWorkerFacts DEF Worker!Live
  <2> QED BY <2>1, OnWorkerFacts DEF Worker!Live, Shown
<1>3. worker' \in Workers /\ worker'.cur = i /\ worker'.att = i /\ worker'.ui = "disconnected"
  <2>1. i \in 0..MaxSessions  BY DEF Worker!Slots
  <2> HIDE DEF w
  <2> QED BY ZenonT(30), <1>1, <1>2, <2>1, Named
<1>4. disk' \in Disks /\ Armed(disk')  BY <1>0, OnDiskFacts DEF Worker!restoreSession
<1>5. rpc' \in Rpcs  BY <1>0, OnRpcFacts DEF Worker!restoreSession
<1>6. phases' \in [Worker!Slots -> Worker!Phases]
  <2>1. \A j \in Worker!Slots : Worker!Orphaned(j) \in Worker!Phases /\ phases[j] \in Worker!Phases  BY <1>0, OrphanedPhase
  <2>2. "disconnected" \in Worker!Phases  BY DEF Worker!Phases
  <2> QED BY <1>1, <2>1, <2>2
<1>7. phases'[i] = "disconnected"  BY <1>1
<1>8. Follows(worker', phases')  BY <1>3, <1>7 DEF Follows, Shown
<1>9. rebuild' \in Rebuilds /\ tick' = tick  BY <1>0 DEF Worker!restoreSession, Rebuilds
<1> QED BY <1>0, <1>3, <1>4, <1>5, <1>6, <1>8, <1>9, Settled, ZenonT(30)

LEMMA pairingConnectedStep == ASSUME MaxSessions \in Nat \ {0}, WorkerInv, NEW c \in Worker!Callers, Worker!pairingConnected(c) PROVE WorkerInv'
<1>0. /\ phases \in [Worker!Slots -> Worker!Phases] /\ worker \in Workers /\ rpc \in Rpcs
      /\ disk \in Disks /\ Armed(disk) /\ rebuild \in Rebuilds /\ tick \in {"no", "expiry"}
  BY Before
<1> DEFINE i == rpc[c].to
           v == IF i \in {worker.cur, worker.att} THEN "waiting" ELSE "orphan"
<1>1. phases' = [phases EXCEPT ![i] = v]  BY DEF Worker!pairingConnected
<1>2. v \in Worker!Phases  BY DEF Worker!Phases
<1>3. phases' \in [Worker!Slots -> Worker!Phases] /\ (i \in Worker!Slots => phases'[i] = v)
      /\ \A j \in Worker!Slots : j # i => phases'[j] = phases[j]
  BY ZenonT(30), <1>0, <1>1, <1>2
<1>4. Worker!NoCall \in RpcRecords  BY DEF Worker!NoCall, RpcRecords, Worker!Stages
<1>5. rpc' \in Rpcs
  <2> DEFINE r == IF c = Worker!Popup THEN Worker!NoCall ELSE [rpc[c] EXCEPT !.at = "deferred", !.to = 0]
  <2>1. rpc[c] \in RpcRecords  BY <1>0 DEF Rpcs
  <2>2. r \in RpcRecords
    <3>1. 0 \in 0..MaxSessions /\ "deferred" \in Worker!Stages  BY DEF Worker!Stages
    <3>2. [rpc[c] EXCEPT !.at = "deferred", !.to = 0] \in RpcRecords  BY <2>1, <3>1, ZenonT(30) DEF RpcRecords
    <3> QED BY <1>4, <3>2, ZenonT(30)
  <2>3. rpc' = [rpc EXCEPT ![c] = r]  BY <1>0 DEF Worker!pairingConnected, Rpcs
  <2> QED BY ZenonT(30), <1>0, <2>2, <2>3, Moved
<1>6. worker.att # 0 => worker.att \in Worker!Slots  BY <1>0 DEF Workers, Worker!Slots
<1>7. worker' \in Workers /\ worker'.cur = worker.cur /\ worker'.att = worker.att
      /\ (i = worker.att => worker'.ui = "pairing") /\ (i # worker.att => worker' = worker)
  <2>1. worker' = IF i = worker.att THEN Worker!OnWorker(worker, "waiting") ELSE worker  BY DEF Worker!pairingConnected
  <2> QED BY <1>0, <2>1, OnWorkerFacts DEF Worker!Live, Shown
<1>8. Follows(worker', phases')
  <2>1. CASE i = worker.att  BY ZenonT(30), <1>3, <1>6, <1>7, <2>1 DEF Follows, Shown
  <2>2. CASE i # worker.att
    <3>1. Follows(worker, phases)  BY Before
    <3> QED BY <1>3, <1>6, <1>7, <2>2, <3>1 DEF Follows
  <2> QED BY <2>1, <2>2
<1>9. worker'.cur \in {0, worker'.att}  BY <1>7, Before
<1>10. UNCHANGED <<rebuild, tick, disk>>  BY DEF Worker!pairingConnected
<1> QED BY <1>0, <1>3, <1>5, <1>7, <1>8, <1>9, <1>10, Settled, ZenonT(30)

LEMMA NoCallType == ASSUME MaxSessions \in Nat \ {0} PROVE Worker!NoCall \in RpcRecords
BY DEF Worker!NoCall, RpcRecords, Worker!Stages

\* A call that ends
LEMMA Ended ==
    ASSUME MaxSessions \in Nat \ {0}, NEW q \in Rpcs, NEW c \in Worker!Callers
    PROVE  [q EXCEPT ![c] = Worker!NoCall] \in Rpcs
BY NoCallType, Moved

\* A step of a call that changes nothing but rpc
LEMMA OnlyRpc ==
    ASSUME MaxSessions \in Nat \ {0}, WorkerInv, UNCHANGED <<phases, worker, rebuild, tick, disk>>, rpc' \in Rpcs
    PROVE  WorkerInv'
<1>0. /\ worker \in Workers /\ disk \in Disks /\ Armed(disk) /\ rebuild \in Rebuilds /\ tick \in {"no", "expiry"}
  BY Before
<1> QED BY <1>0, Quiet, ZenonT(30)

LEMMA Staged ==
    ASSUME MaxSessions \in Nat \ {0}, NEW q \in Rpcs, NEW c \in Worker!Callers, NEW st \in Worker!Stages
    PROVE  [q EXCEPT ![c].at = st] \in Rpcs
<1>1. q[c] \in RpcRecords  BY DEF Rpcs
<1>2. [q[c] EXCEPT !.at = st] \in RpcRecords  BY <1>1, ZenonT(30) DEF RpcRecords
<1>3. [q EXCEPT ![c].at = st] = [q EXCEPT ![c] = [q[c] EXCEPT !.at = st]]  BY DEF Rpcs
<1> QED BY <1>2, <1>3, Moved, ZenonT(30)

LEMMA CallStep ==
    ASSUME MaxSessions \in Nat \ {0}, WorkerInv, NEW c \in Worker!Callers,
           \/ Worker!pairingFails(c) \/ Worker!forwardEnds(c) \/ Worker!deferredTimeout(c) \/ \E a \in BOOLEAN : Worker!arrive(c, a)
    PROVE  WorkerInv'
<1>0. rpc \in Rpcs  BY Before
<1>1. CASE Worker!pairingFails(c) \/ Worker!forwardEnds(c) \/ Worker!deferredTimeout(c)
  <2>1. /\ rpc' = [rpc EXCEPT ![c] = Worker!NoCall]
        /\ UNCHANGED <<phases, worker, rebuild, tick, disk>>
    BY <1>1 DEF Worker!pairingFails, Worker!forwardEnds, Worker!deferredTimeout
  <2> QED BY <1>0, <2>1, Ended, OnlyRpc, ZenonT(30)
<1>2. ASSUME NEW a \in BOOLEAN, Worker!arrive(c, a) PROVE WorkerInv'
  <2> DEFINE r == [Worker!NoCall EXCEPT !.at = "checking", !.accounts = a]
  <2>1. r \in RpcRecords
    <3>1. "checking" \in Worker!Stages  BY ZenonT(30) DEF Worker!Stages
    <3> QED BY NoCallType, <3>1, ZenonT(30) DEF RpcRecords
  <2>2. rpc' = [rpc EXCEPT ![c] = r] /\ UNCHANGED <<phases, worker, rebuild, tick, disk>>  BY ZenonT(30), <1>2 DEF Worker!arrive
  <2> HIDE DEF r
  <2> QED BY <1>0, <2>1, <2>2, Moved, OnlyRpc, ZenonT(30)
<1> QED BY <1>1, <1>2

LEMMA startPairingStep == ASSUME MaxSessions \in Nat \ {0}, WorkerInv, Worker!startPairing PROVE WorkerInv'
<1>1. rpc \in Rpcs  BY Before
<1>2. rpc' = [rpc EXCEPT ![Worker!Popup].at = "creating"] /\ UNCHANGED <<phases, worker, rebuild, tick, disk>>
  BY DEF Worker!startPairing
<1>3. rpc' \in Rpcs  BY ZenonT(30), <1>1, <1>2, Staged DEF Worker!Callers, Worker!Stages
<1> QED BY <1>2, <1>3, OnlyRpc

\* The worker's flags change, but not what it shows
LEMMA Flags ==
    ASSUME MaxSessions \in Nat \ {0}, NEW w \in Workers, NEW b \in BOOLEAN
    PROVE  /\ [w EXCEPT !.timer = b] \in Workers /\ [w EXCEPT !.timer = b].cur = w.cur
           /\ [w EXCEPT !.timer = b].att = w.att /\ [w EXCEPT !.timer = b].ui = w.ui
           /\ [w EXCEPT !.pairing = b] \in Workers /\ [w EXCEPT !.pairing = b].cur = w.cur
           /\ [w EXCEPT !.pairing = b].att = w.att /\ [w EXCEPT !.pairing = b].ui = w.ui
BY DEF Workers

\* worker' has the session and what is shown as before
Same == worker' \in Workers /\ worker'.cur = worker.cur /\ worker'.att = worker.att /\ worker'.ui = worker.ui

LEMMA handleRpcRequestStep == ASSUME MaxSessions \in Nat \ {0}, WorkerInv, NEW r \in Requests, Worker!handleRpcRequest(r) PROVE WorkerInv'
<1>0. /\ worker \in Workers /\ rpc \in Rpcs /\ disk \in Disks /\ Armed(disk)
      /\ rebuild \in Rebuilds /\ tick \in {"no", "expiry"} /\ r \in Worker!Callers
  BY Before DEF Worker!Callers
<1>1. UNCHANGED <<phases, rebuild, tick, disk>>  BY DEF Worker!handleRpcRequest
<1>2. CASE UNCHANGED worker /\ rpc' = [rpc EXCEPT ![r] = [Worker!NoCall EXCEPT !.at = "forwarded"]]
  <2>1. [Worker!NoCall EXCEPT !.at = "forwarded"] \in RpcRecords
    <3>1. "forwarded" \in Worker!Stages  BY DEF Worker!Stages
    <3> QED BY NoCallType, <3>1, ZenonT(30) DEF RpcRecords
  <2>2. rpc' \in Rpcs  BY <1>0, <1>2, <2>1, Moved, ZenonT(30)
  <2> QED BY <1>1, <1>2, <2>2, OnlyRpc, ZenonT(30)
<1>3. CASE UNCHANGED worker /\ rpc' = [rpc EXCEPT ![r] = Worker!NoCall]
  BY <1>0, <1>1, <1>3, Ended, OnlyRpc, ZenonT(30)
<1>4. CASE UNCHANGED worker /\ rpc' = [rpc EXCEPT ![r].at = "deferred"]
  <2>1. "deferred" \in Worker!Stages  BY DEF Worker!Stages
  <2> QED BY <1>0, <1>1, <1>4, <2>1, Staged, OnlyRpc, ZenonT(30)
<1>5. CASE worker' = [worker EXCEPT !.pairing = TRUE] /\ rpc' = [rpc EXCEPT ![r].at = "creating"]
  <2>1. "creating" \in Worker!Stages  BY DEF Worker!Stages
  <2>2. rpc' \in Rpcs  BY <1>0, <1>5, <2>1, Staged, ZenonT(30)
  <2>3. Same  BY ZenonT(30), <1>0, <1>5, Flags DEF Same
  <2> QED BY <1>0, <1>1, <2>2, <2>3, Quiet, ZenonT(30) DEF Same
<1> QED BY <1>2, <1>3, <1>4, <1>5 DEF Worker!handleRpcRequest, Worker!NotConnected

LEMMA tryReconnectFacts ==
    ASSUME MaxSessions \in Nat \ {0}, WorkerInv, NEW timer \in BOOLEAN, Worker!tryReconnect(timer)
    PROVE  Same /\ rebuild' \in Rebuilds
<1>0. worker \in Workers /\ rebuild \in Rebuilds  BY Before
<1>1. worker.timer \in BOOLEAN  BY <1>0 DEF Workers
<1>2. CASE rebuild.at # "no"
  <2>1. worker' = [worker EXCEPT !.timer = timer \/ @] /\ rebuild' = rebuild  BY <1>2 DEF Worker!tryReconnect
  <2>2. (timer \/ worker.timer) \in BOOLEAN  BY <1>1
  <2>3. worker' = [worker EXCEPT !.timer = timer \/ worker.timer]  BY <1>0, <2>1 DEF Workers
  <2> QED BY ZenonT(30), <1>0, <2>1, <2>2, <2>3, Flags DEF Same
<1>3. CASE rebuild.at = "no"
  <2>1. rebuild' = [at |-> "reading", timer |-> timer]  BY <1>3 DEF Worker!tryReconnect
  <2>2. rebuild' \in Rebuilds  BY <2>1 DEF Rebuilds
  <2>3. worker' = IF timer THEN [worker EXCEPT !.timer = FALSE] ELSE worker  BY <1>3 DEF Worker!tryReconnect
  <2> QED BY ZenonT(30), <1>0, <2>2, <2>3, Flags DEF Same
<1> QED BY <1>2, <1>3

LEMMA GiveUpFacts == ASSUME MaxSessions \in Nat \ {0}, WorkerInv, Worker!GiveUp PROVE Same /\ rebuild' \in Rebuilds
<1>0. worker \in Workers /\ rebuild \in Rebuilds  BY Before
<1>1. (rebuild.timer \/ worker.timer) \in BOOLEAN  OBVIOUS
<1>2. worker' = [worker EXCEPT !.timer = rebuild.timer \/ worker.timer]  BY <1>0 DEF Worker!GiveUp, Workers
<1>3. rebuild' \in Rebuilds  BY DEF Worker!GiveUp, Worker!NoRebuild, Rebuilds
<1> QED BY ZenonT(30), <1>0, <1>1, <1>2, <1>3, Flags DEF Same

\* The steps of doTryReconnect and of the alarm that only move on
LEMMA RebuildStep ==
    ASSUME MaxSessions \in Nat \ {0}, WorkerInv, Worker!reconnectTimer \/ Worker!readSnapshot \/ Worker!snapshotExpired \/ Worker!rebuilt \/ Worker!alarmCreated \/ Worker!keepalive
    PROVE  WorkerInv'
<1>0. /\ worker \in Workers /\ rpc \in Rpcs /\ disk \in Disks /\ Armed(disk)
      /\ rebuild \in Rebuilds /\ tick \in {"no", "expiry"}
  BY Before
<1>1. Same /\ rebuild' \in Rebuilds
  <2>1. CASE UNCHANGED worker /\ (UNCHANGED rebuild \/ \E x \in {"no", "settings"} : rebuild' \in {Worker!NoRebuild, [rebuild EXCEPT !.at = x]})
    <3>1. Worker!NoRebuild \in Rebuilds /\ \A x \in {"no", "settings"} : [rebuild EXCEPT !.at = x] \in Rebuilds
      BY <1>0 DEF Worker!NoRebuild, Rebuilds
    <3> QED BY ZenonT(30), <1>0, <2>1, <3>1 DEF Same
  <2>2. CASE Worker!GiveUp  BY <2>2, GiveUpFacts
  <2>3. CASE \E t \in BOOLEAN : Worker!tryReconnect(t)  BY <2>3, tryReconnectFacts
  <2> QED BY ZenonT(30), <2>1, <2>2, <2>3 DEF Worker!reconnectTimer, Worker!readSnapshot, Worker!snapshotExpired, Worker!rebuilt, Worker!alarmCreated, Worker!keepalive
<1>2. disk' \in Disks /\ Armed(disk')
  <2>1. CASE UNCHANGED disk  BY <1>0, <2>1
  <2>2. CASE disk' = [disk EXCEPT !.saved = FALSE]  BY ZenonT(30), <1>0, <2>2 DEF Disks, Armed
  <2>3. CASE disk' = [disk EXCEPT !.alarm = "set"]  BY <1>0, <2>3 DEF Disks, Armed
  <2> QED BY ZenonT(30), <2>1, <2>2, <2>3 DEF Worker!reconnectTimer, Worker!readSnapshot, Worker!snapshotExpired, Worker!rebuilt, Worker!alarmCreated, Worker!keepalive
<1>3. UNCHANGED <<phases, rpc>> /\ tick' \in {"no", "expiry"}
  BY ZenonT(30), <1>0 DEF Worker!reconnectTimer, Worker!readSnapshot, Worker!snapshotExpired, Worker!rebuilt, Worker!alarmCreated, Worker!keepalive
<1> QED BY ZenonT(30), <1>0, <1>1, <1>2, <1>3, Quiet DEF Same

\* The session is closed from outside: by the alarm, or by the popup
LEMMA keepaliveExpiryStep == ASSUME MaxSessions \in Nat \ {0}, WorkerInv, Worker!keepaliveExpiry PROVE WorkerInv'
<1>0. /\ phases \in [Worker!Slots -> Worker!Phases] /\ worker \in Workers /\ worker.cur \in {0, worker.att}
      /\ rpc \in Rpcs /\ disk \in Disks /\ Armed(disk) /\ rebuild \in Rebuilds
  BY Before
<1>1. rebuild' = rebuild /\ tick' = "no"  BY DEF Worker!keepaliveExpiry
<1>2. CASE UNCHANGED <<phases, worker, disk, rpc>>
  <2>1. Same  BY <1>0, <1>2 DEF Same
  <2> QED BY ZenonT(30), <1>0, <1>1, <1>2, <2>1, Quiet DEF Same
<1>3. CASE ~UNCHANGED <<phases, worker, disk, rpc>>
  <2> DEFINE i == worker.cur
             mute == i = worker.att /\ ~Worker!Connecting(i)
             w == Worker!handleSessionClosed(worker)
             a == IF mute THEN 0 ELSE w.att
  <2>1. /\ i # 0 /\ phases' = [phases EXCEPT ![i] = IF mute \/ i # worker.att THEN "none" ELSE "closed"]
        /\ worker' = [w EXCEPT !.cur = 0, !.att = IF mute THEN 0 ELSE @]
        /\ disk' = Worker!Forget(disk) /\ rpc' = Worker!rejectAllDeferred(rpc)
    BY <1>3 DEF Worker!keepaliveExpiry
  <2>2. i \in Worker!Slots /\ i = worker.att  BY <1>0, <2>1 DEF Workers, Worker!Slots
  <2>3. disk' \in Disks /\ Armed(disk') /\ rpc' \in Rpcs  BY <1>0, <2>1, ForgetFacts, RejectFacts
  <2>4. phases' \in [Worker!Slots -> Worker!Phases] /\ phases'[i] \notin Worker!Live
    <3>1. "none" \in Worker!Phases /\ "closed" \in Worker!Phases /\ "none" \notin Worker!Live /\ "closed" \notin Worker!Live
      BY DEF Worker!Phases, Worker!Live
    <3> QED BY <1>0, <2>1, <2>2, <3>1
  <2>5. w \in Workers /\ w.att = i  BY <1>0, <2>2, ClosedFacts
  <2>6. worker' \in Workers /\ worker'.cur = 0 /\ worker'.att \in {0, i}
    <3>1. w.att \in 0..MaxSessions /\ 0 \in 0..MaxSessions  BY <2>5 DEF Workers
    <3> HIDE DEF w, mute
    <3> QED BY ZenonT(30), <2>1, <2>5, <3>1 DEF Workers
  <2>7. Follows(worker', phases')  BY <2>4, <2>6 DEF Follows
  <2> QED BY ZenonT(30), <1>0, <1>1, <2>3, <2>4, <2>6, <2>7, Settled
<1> QED BY <1>2, <1>3

LEMMA rejectWalletStep == ASSUME MaxSessions \in Nat \ {0}, WorkerInv, Worker!rejectWallet PROVE WorkerInv'
<1>0. /\ phases \in [Worker!Slots -> Worker!Phases] /\ worker \in Workers /\ worker.cur \in {0, worker.att}
      /\ rpc \in Rpcs /\ disk \in Disks /\ Armed(disk) /\ rebuild \in Rebuilds /\ tick \in {"no", "expiry"}
  BY ZenonT(30), Before
<1> DEFINE i == worker.cur
           shut == Worker!At(i) \in {"pending_accept", "connected", "disconnected"}
<1>1. /\ phases' = IF shut THEN [phases EXCEPT ![i] = "closed"] ELSE phases
      /\ worker' = IF shut /\ i = worker.att THEN Worker!handleSessionClosed(worker) ELSE worker
      /\ disk' = IF shut /\ i = worker.att THEN Worker!Forget(disk) ELSE disk
      /\ rpc' = Worker!rejectAllDeferred(rpc) /\ UNCHANGED <<rebuild, tick>>
  BY DEF Worker!rejectWallet
<1>2. disk' \in Disks /\ Armed(disk') /\ rpc' \in Rpcs  BY <1>0, <1>1, ForgetFacts, RejectFacts
<1>3. shut => i \in Worker!Slots /\ i = worker.att
  BY <1>0 DEF Worker!At, Workers, Worker!Slots
<1>4. phases' \in [Worker!Slots -> Worker!Phases] /\ (shut => phases'[i] = "closed")
  <2>1. "closed" \in Worker!Phases  BY DEF Worker!Phases
  <2> QED BY <1>0, <1>1, <1>3, <2>1
<1>5. worker' \in Workers /\ worker'.cur = i /\ worker'.att = worker.att /\ (~shut => worker' = worker)
  BY <1>0, <1>1, ClosedFacts
<1>6. Follows(worker', phases')
  <2>1. CASE shut  BY <1>3, <1>4, <1>5, <2>1 DEF Follows, Worker!Live
  <2>2. CASE ~shut  BY <1>1, <1>5, <2>2, Before
  <2> QED BY <2>1, <2>2
<1> QED BY ZenonT(30), <1>0, <1>1, <1>2, <1>4, <1>5, <1>6, Settled

LEMMA disconnectStep == ASSUME MaxSessions \in Nat \ {0}, WorkerInv, Worker!disconnect \/ Worker!stopWorker PROVE WorkerInv'
<1>0. /\ phases \in [Worker!Slots -> Worker!Phases] /\ worker \in Workers /\ rpc \in Rpcs
      /\ disk \in Disks /\ Armed(disk) /\ rebuild \in Rebuilds /\ tick \in {"no", "expiry"}
  BY Before
<1>1. tick' = tick /\ rebuild' \in Rebuilds
  BY ZenonT(30), <1>0 DEF Worker!disconnect, Worker!stopWorker, Worker!NoRebuild, Rebuilds
<1>2. phases' \in [Worker!Slots -> Worker!Phases]
  <2>1. "none" \in Worker!Phases  BY DEF Worker!Phases
  <2> QED BY <1>0, <2>1 DEF Worker!disconnect, Worker!stopWorker
<1>3. worker' \in Workers /\ worker'.cur = 0 /\ worker'.att = 0
  <2>1. CASE Worker!disconnect
    <3>1. Worker!handleSessionClosed(worker) \in Workers  BY <1>0, ClosedFacts
    <3>2. worker' = [Worker!handleSessionClosed(worker) EXCEPT !.att = 0, !.cur = 0, !.timer = FALSE]  BY <2>1 DEF Worker!disconnect
    <3>3. 0 \in 0..MaxSessions  OBVIOUS
    <3> DEFINE w == Worker!handleSessionClosed(worker)
    <3> HIDE DEF w
    <3>4. worker' = [w EXCEPT !.att = 0, !.cur = 0, !.timer = FALSE] /\ w \in Workers  BY <3>1, <3>2 DEF w
    <3> QED BY <3>3, <3>4, ZenonT(30) DEF Workers
  <2>2. CASE Worker!stopWorker  BY <2>2 DEF Worker!stopWorker, Worker!NewWorker, Workers, Uis
  <2> QED BY <2>1, <2>2
<1>4. disk' \in Disks /\ Armed(disk')  BY <1>0, ForgetFacts DEF Worker!disconnect, Worker!stopWorker
<1>5. rpc' \in Rpcs  BY <1>0, RejectFacts, NoCallType DEF Worker!disconnect, Worker!stopWorker, Rpcs
<1>6. Follows(worker', phases')  BY <1>3 DEF Follows
<1> QED BY ZenonT(30), <1>0, <1>1, <1>2, <1>3, <1>4, <1>5, <1>6, Settled

LEMMA WorkerInvStep == ASSUME MaxSessions \in Nat \ {0} PROVE WorkerInv /\ [Worker!Next]_(Worker!vars) => WorkerInv'
<1> SUFFICES ASSUME WorkerInv, [Worker!Next]_(Worker!vars) PROVE WorkerInv'  OBVIOUS
<1>1. CASE UNCHANGED Worker!vars  BY <1>1 DEF Worker!vars, WorkerInv, WorkerTypes, Follows, Worker!RecoveryArmed
<1>2. CASE Worker!Next
  <2>1. ASSUME NEW i \in Worker!Slots, Worker!SessionStep(i) PROVE WorkerInv'  BY <2>1, SessionStepInv
  <2>2. ASSUME NEW c \in Worker!Callers, Worker!createSession(c) \/ Worker!pairingConnected(c) \/ Worker!pairingFails(c) PROVE WorkerInv'
    BY <2>2, createSessionStep, pairingConnectedStep, CallStep
  <2>3. CASE Worker!restoreSession \/ Worker!keepaliveExpiry \/ Worker!startPairing \/ Worker!rejectWallet
    BY <2>3, restoreSessionStep, keepaliveExpiryStep, startPairingStep, rejectWalletStep
  <2>4. CASE Worker!reconnectTimer \/ Worker!readSnapshot \/ Worker!snapshotExpired \/ Worker!rebuilt \/ Worker!alarmCreated \/ Worker!keepalive
    BY <2>4, RebuildStep
  <2>5. ASSUME NEW r \in Requests,
               \/ \E accounts \in BOOLEAN : Worker!arrive(r, accounts)
               \/ Worker!handleRpcRequest(r) \/ Worker!forwardEnds(r) \/ Worker!deferredTimeout(r)
        PROVE  WorkerInv'
    <3>1. r \in Worker!Callers  BY DEF Worker!Callers
    <3> QED BY <2>5, <3>1, CallStep, handleRpcRequestStep
  <2>6. CASE Worker!disconnect \/ Worker!stopWorker  BY <2>6, disconnectStep
  <2> QED BY <1>2, <2>1, <2>2, <2>3, <2>4, <2>5, <2>6, ZenonT(30) DEF Worker!Next
<1> QED BY <1>1, <1>2

LEMMA WorkerInvAlways == ASSUME MaxSessions \in Nat \ {0} PROVE Worker!Spec => []WorkerInv
<1>1. Worker!Init => WorkerInv  BY WorkerInvInit
<1>2. WorkerInv /\ [Worker!Next]_(Worker!vars) => WorkerInv'  BY WorkerInvStep
<1> QED BY <1>1, <1>2, PTL DEF Worker!Spec

\* For any number of calls and session objects, a stored snapshot has the
\* keepalive alarm beside it, over rebuilds, closes, expiries and worker stops.
THEOREM RecoveryAlwaysArmed ==
    ASSUME MaxSessions \in Nat \ {0}
    PROVE  Worker!Spec => []Worker!RecoveryArmed
<1>1. WorkerInv => Worker!RecoveryArmed  BY DEF WorkerInv
<1>2. Worker!Spec => []WorkerInv  BY WorkerInvAlways
<1> QED BY <1>1, <1>2, PTL

\* For any number of calls and session objects, the popup shows the phase of the
\* session whose listeners are attached.
THEOREM UiAlwaysFollows ==
    ASSUME MaxSessions \in Nat \ {0}
    PROVE  Worker!Spec => []Worker!UiFollows
<1>1. WorkerInv => Worker!UiFollows
  <2> SUFFICES ASSUME WorkerInv PROVE Worker!UiFollows  OBVIOUS
  <2>1. \A c \in Worker!Callers : rpc[c].at \in Worker!Stages /\ rpc[c].to \in 0..MaxSessions
    BY DEF WorkerInv, WorkerTypes, RpcRecords
  <2>2. Worker!TypeOK  BY <2>1 DEF WorkerInv, WorkerTypes, Worker!TypeOK, Workers, Uis, Rebuilds, Disks
  <2> QED BY <2>2 DEF WorkerInv, Worker!UiFollows, Follows, Shown
<1>2. Worker!Spec => []WorkerInv  BY WorkerInvAlways
<1> QED BY <1>1, <1>2, PTL
=============================================================================
