------------------------ MODULE WalletRequestsProofs ------------------------
(***************************************************************************)
(* Proofs about WalletRequests, for every set of ids and payloads, every   *)
(* dApp and every limit: a pending record can always still be removed, a   *)
(* cache replays what the application answered, and what the user approved *)
(* is not put before them again.                                           *)
(***************************************************************************)
EXTENDS WalletRequests, FiniteSetTheorems, TLAPS

\* Time for the slower leaves
USE SMTT(30), ZenonT(30)

-----------------------------------------------------------------------------
(* The caches *)

\* x is an entry of the cache
In(x, cache) == \E i \in 1 .. Len(cache) : cache[i] = x

Cache(c) == c \in Seq(Entries) /\ Distinct(c)

\* d has no entries but those of c and e
From(d, c, e) == \A i \in 1 .. Len(d) : d[i] = e \/ In(d[i], c)

\* d has an entry for every id of c
Covers(d, c) == \A id : Has(c, id) => Has(d, id)

\* Map.get returns an entry of that id.
LEMMA GetIn ==
    ASSUME NEW c, NEW id, Has(c, id)
    PROVE  In(Get(c, id), c) /\ Get(c, id).id = id
<1>1. PlaceOf(c, id) \in 1 .. Len(c) /\ c[PlaceOf(c, id)].id = id
  BY DEF Has, PlaceOf
<1> QED BY <1>1 DEF In, Get

\* Map.set: the entry is there, and no id twice.
LEMMA PutCache ==
    ASSUME NEW c, Cache(c), NEW e \in Entries
    PROVE  /\ Cache(Put(c, e)) /\ From(Put(c, e), c, e) /\ Covers(Put(c, e), c)
           /\ Has(Put(c, e), e.id)
<1>0. c \in Seq(Entries) /\ Len(c) \in Nat /\ \A i \in 1 .. Len(c) : c[i] \in Entries
  BY DEF Cache
<1>1. CASE Has(c, e.id)
  <2> DEFINE d == [i \in 1 .. Len(c) |-> IF c[i].id = e.id THEN e ELSE c[i]]
  <2>1. Put(c, e) = d  BY <1>1 DEF Put
  <2>2. d \in Seq(Entries) /\ Len(d) = Len(c)
    <3>1. \A i \in 1 .. Len(c) : d[i] \in Entries  BY <1>0
    <3>2. d \in [1 .. Len(c) -> Entries]  BY <3>1
    <3> QED BY <1>0, <3>2
  <2>3. \A i \in 1 .. Len(c) : d[i].id = c[i].id /\ d[i] = IF c[i].id = e.id THEN e ELSE c[i]
    OBVIOUS
  <2> HIDE DEF d
  <2>4. Distinct(d)  BY <2>2, <2>3 DEF Cache, Distinct
  <2>5. From(d, c, e)  BY <2>2, <2>3 DEF From, In
  <2>6. Covers(d, c) /\ Has(d, e.id)  BY <1>1, <2>2, <2>3 DEF Covers, Has
  <2> QED BY <2>1, <2>2, <2>4, <2>5, <2>6 DEF Cache
<1>2. CASE ~Has(c, e.id)
  <2> DEFINE d == Append(c, e)
  <2>1. Put(c, e) = d  BY <1>2 DEF Put
  <2>2. /\ d \in Seq(Entries) /\ Len(d) = Len(c) + 1
        /\ \A i \in 1 .. Len(c) : d[i] = c[i]
        /\ d[Len(c) + 1] = e
    BY <1>0
  <2> HIDE DEF d
  <2>3. \A i \in 1 .. Len(d) : i \in 1 .. Len(c) \/ i = Len(c) + 1  BY <1>0, <2>2
  <2>4. \A i \in 1 .. Len(c) : c[i].id # e.id  BY <1>2 DEF Has
  <2>5. Distinct(d)  BY <2>2, <2>3, <2>4 DEF Cache, Distinct
  <2>6. From(d, c, e)  BY <2>2, <2>3 DEF From, In
  <2>7. Covers(d, c) /\ Has(d, e.id)  BY <1>0, <2>2 DEF Covers, Has
  <2> QED BY <2>1, <2>2, <2>5, <2>6, <2>7 DEF Cache
<1> QED BY <1>1, <1>2

\* Eviction keeps the newest entries, within the limit.
LEMMA EvictCache ==
    ASSUME NEW c, Cache(c), NEW limit \in Nat
    PROVE  /\ Cache(Evict(c, limit)) /\ Len(Evict(c, limit)) <= limit
           /\ \A i \in 1 .. Len(Evict(c, limit)) : In(Evict(c, limit)[i], c)
           /\ Len(c) <= limit => Evict(c, limit) = c
<1>0. c \in Seq(Entries) /\ Len(c) \in Nat /\ \A i \in 1 .. Len(c) : c[i] \in Entries
  BY DEF Cache
<1>1. CASE Len(c) <= limit
  BY <1>0, <1>1 DEF Evict, In
<1>2. CASE Len(c) > limit
  <2> DEFINE k == Len(c) - limit
             d == SubSeq(c, k + 1, Len(c))
  <2>1. Evict(c, limit) = d  BY <1>2 DEF Evict
  <2>2. k \in Nat /\ k + 1 \in 1 .. Len(c) + 1 /\ Len(c) \in k .. Len(c)
    BY <1>0, <1>2
  <2>3. d \in Seq(Entries) /\ Len(d) = limit /\ \A i \in 1 .. limit : d[i] = c[i + k]
    BY <1>0, <1>2, <2>2
  <2>4. \A i \in 1 .. limit : i + k \in 1 .. Len(c)  BY <1>0, <1>2
  <2> HIDE DEF d
  <2> HIDE DEF k
  <2>5. Distinct(d)
    <3> SUFFICES ASSUME NEW i \in 1 .. limit, NEW j \in 1 .. limit, d[i].id = d[j].id PROVE i = j
      BY <2>3 DEF Distinct
    <3>1. i + k = j + k  BY <2>3, <2>4 DEF Cache, Distinct
    <3> QED BY <2>2, <3>1
  <2>6. \A i \in 1 .. Len(d) : In(d[i], c)  BY <2>3, <2>4 DEF In
  <2>7. ~(Len(c) <= limit)  BY <1>0, <1>2
  <2> QED BY <2>1, <2>3, <2>5, <2>6, <2>7 DEF Cache
<1> QED BY <1>0, <1>1, <1>2

\* Moving an entry to the end loses none.
LEMMA TouchCache ==
    ASSUME Cache(idem), NEW id
    PROVE  /\ Cache(touch(id)) /\ Len(touch(id)) = Len(idem)
           /\ \A i \in 1 .. Len(touch(id)) : In(touch(id)[i], idem)
           /\ Covers(touch(id), idem)
<1>0. idem \in Seq(Entries) /\ Len(idem) \in Nat /\ \A i \in 1 .. Len(idem) : idem[i] \in Entries
  BY DEF Cache
<1>1. CASE ~Has(idem, id)
  BY <1>0, <1>1 DEF touch, In, Covers
<1>2. CASE Has(idem, id)
  <2> DEFINE k == PlaceOf(idem, id)
             n == Len(idem)
             d == touch(id)
  <2>1. k \in 1 .. n  BY <1>2 DEF Has, PlaceOf
  <2> DEFINE src(i) == IF i < k THEN i ELSE IF i < n THEN i + 1 ELSE k
  <2>2. d = [i \in 1 .. n |-> IF i < k THEN idem[i] ELSE IF i < n THEN idem[i + 1] ELSE idem[k]]
    BY <1>2 DEF touch
  <2> HIDE DEF k, d
  <2>3. d \in Seq(Entries) /\ Len(d) = n
    <3>1. \A i \in 1 .. n : (IF i < k THEN idem[i] ELSE IF i < n THEN idem[i + 1] ELSE idem[k]) \in Entries
      BY <1>0, <2>1
    <3>2. d \in [1 .. n -> Entries]  BY <2>2, <3>1
    <3> QED BY <1>0, <3>2
  <2>4. \A i \in 1 .. n : src(i) \in 1 .. n /\ d[i] = idem[src(i)]
    BY <1>0, <2>1, <2>2
  <2>5. \A i, j \in 1 .. n : src(i) = src(j) => i = j
    BY <1>0, <2>1
  <2>6. \A j \in 1 .. n : \E i \in 1 .. n : src(i) = j
    <3> SUFFICES ASSUME NEW j \in 1 .. n PROVE \E i \in 1 .. n : src(i) = j  OBVIOUS
    <3>1. CASE j < k  BY <1>0, <2>1, <3>1
    <3>2. CASE j = k  BY <1>0, <2>1, <3>2
    <3>3. CASE j > k
      <4>1. j - 1 \in 1 .. n /\ src(j - 1) = j  BY <1>0, <2>1, <3>3
      <4> QED BY <4>1
    <3> QED BY <1>0, <2>1, <3>1, <3>2, <3>3
  <2> HIDE DEF src
  <2>7. Distinct(d)  BY <2>3, <2>4, <2>5 DEF Cache, Distinct
  <2>8. \A i \in 1 .. Len(d) : In(d[i], idem)  BY <2>3, <2>4 DEF In
  <2>9. Covers(d, idem)
    <3> SUFFICES ASSUME NEW x, NEW j \in 1 .. n, idem[j].id = x PROVE Has(d, x)
      BY DEF Covers, Has
    <3>1. PICK i \in 1 .. n : src(i) = j  BY <2>6
    <3> QED BY <2>3, <2>4, <3>1 DEF Has
  <2> QED BY <2>3, <2>7, <2>8, <2>9 DEF Cache, d
<1> QED BY <1>1, <1>2

\* A cache is no longer than the set its ids come from.
LEMMA CacheFits ==
    ASSUME NEW c, Cache(c), NEW S, IsFiniteSet(S), \A i \in 1 .. Len(c) : c[i].id \in S
    PROVE  Len(c) <= Cardinality(S)
<1>0. c \in Seq(Entries) /\ Len(c) \in Nat  BY DEF Cache
<1> DEFINE f == [i \in 1 .. Len(c) |-> c[i].id]
<1>1. f \in Injection(1 .. Len(c), S)
  BY DEF Cache, Distinct, Injection, IsInjective
<1>2. IsFiniteSet(1 .. Len(c)) /\ Cardinality(1 .. Len(c)) = Len(c)
  <2>1. 1 \in Int /\ Len(c) \in Int  BY <1>0
  <2>2. /\ IsFiniteSet(1 .. Len(c))
        /\ Cardinality(1 .. Len(c)) = IF 1 > Len(c) THEN 0 ELSE Len(c) - 1 + 1
    BY <2>1, FS_Interval
  <2> QED BY <1>0, <2>2
<1>3. Cardinality(1 .. Len(c)) <= Cardinality(S)
  BY <1>1, FS_Injection DEF ExistsInjection
<1> QED BY <1>2, <1>3

-----------------------------------------------------------------------------
(* The inductive invariant *)

\* The dApp the last two properties are about
Proper == OnePayloadPerId /\ NeverRateLimited

\* What records, responses and caches hold is what the dApp asked and the
\* application answered; the session's own refusals are for requests that
\* never get a record.
Sourced ==
    /\ \A id \in Ids : records[id] # None =>
           <<id, records[id]>> \in Frames /\ MethodOf[records[id]] # None
    /\ \A i \in 1 .. Len(sending) :
           /\ <<sending[i].id, sending[i].params>> \in Frames
           /\ sending[i].kind = "error" => MethodOf[sending[i].params] = None
           /\ sending[i].kind # "error" =>
                  Entry(sending[i].id, sending[i].params, sending[i].ans) \in answered
    /\ \A a \in answered : <<a.id, a.params>> \in Frames
    /\ \A i \in 1 .. Len(idem) : idem[i] \in answered
    /\ \A i \in 1 .. Len(bcast) : bcast[i] \in answered /\ MethodOf[bcast[i].params] = SendTx

\* A request before the user has its record; an answer on its way has the
\* record still, alone.
Handover ==
    /\ \A x \in asked : records[x[1]] = x[2]
    /\ \A i \in 1 .. Len(sending) : sending[i].kind = "app" =>
           /\ records[sending[i].id] # None
           /\ \A x \in asked : x[1] # sending[i].id
    /\ \A i, j \in 1 .. Len(sending) :
           sending[i].kind = "app" /\ sending[j].kind = "app" /\ sending[i].id = sending[j].id => i = j

\* An approval of id is being sent
Coming(id) == \E i \in 1 .. Len(sending) :
                  sending[i].kind = "app" /\ sending[i].id = id /\ sending[i].ans.ok

\* An approved request is being answered or in the caches it belongs in.
Guarded ==
    \A a \in answered : a.ans.ok =>
        /\ BroadcastFits /\ MethodOf[a.params] = SendTx => Coming(a.id) \/ Has(bcast, a.id)
        /\ IdemFits => Coming(a.id) \/ Has(idem, a.id)

IInv ==
    /\ setup \in Setups
    /\ RecordsAnswerable
    /\ Proper => Sourced
    /\ Proper /\ phase # "closed" => Handover /\ Guarded
    /\ NeverRebroadcast

Phases == {"connected", "disconnected", "closed"}

\* The idempotency cache after a touch, or after nothing
Moved(d, c) == /\ Cache(d) /\ Len(d) = Len(c) /\ Covers(d, c)
               /\ \A i \in 1 .. Len(d) : In(d[i], c)

-----------------------------------------------------------------------------
(* What every step uses *)

\* The types before a step.
LEMMA Before ==
    ASSUME IInv
    PROVE  /\ setup \in Setups /\ Frames \subseteq Ids \X Params
           /\ MaxPending \in Nat /\ CacheLimit \in Nat /\ MaxInFlight \in Nat
           /\ phase \in Phases /\ accepted \in Seq(Frames)
           /\ records \in [Ids -> Params \cup {None}]
           /\ Cache(idem) /\ Len(idem) <= CacheLimit
           /\ Cache(bcast) /\ Len(bcast) <= BroadcastLimit
           /\ sending \in Seq(Responses) /\ asked \subseteq Frames /\ reasked \subseteq Frames
           /\ answered \subseteq Entries
BY WalletAssumption DEF IInv, RecordsAnswerable, TypeOK, Cache, Phases, Frames, MaxPending, CacheLimit, MaxInFlight

\* The setup, and so what is assumed of the dApp, does not change.
LEMMA Static ==
    ASSUME setup' = setup
    PROVE  /\ Frames' = Frames /\ CacheLimit' = CacheLimit /\ MaxPending' = MaxPending
           /\ Proper' <=> Proper
           /\ BroadcastFits' <=> BroadcastFits
           /\ IdemFits' <=> IdemFits
BY DEF Frames, CacheLimit, MaxPending, Proper, OnePayloadPerId, NeverRateLimited, BroadcastFits, IdemFits,
       FrameIds, BroadcastIds

\* A response joins the queue.
LEMMA Appended ==
    ASSUME sending \in Seq(Responses), NEW r \in Responses, sending' = Append(sending, r)
    PROVE  /\ sending' \in Seq(Responses)
           /\ \A i \in 1 .. Len(sending) : i \in 1 .. Len(sending') /\ sending'[i] = sending[i]
           /\ Len(sending') \in 1 .. Len(sending') /\ sending'[Len(sending')] = r
           /\ \A i \in 1 .. Len(sending') : i \in 1 .. Len(sending) \/ i = Len(sending')
<1>1. /\ sending' \in Seq(Responses) /\ Len(sending) \in Nat /\ Len(sending') = Len(sending) + 1
      /\ \A i \in 1 .. Len(sending) : sending'[i] = sending[i]
      /\ sending'[Len(sending) + 1] = r
  OBVIOUS
<1> QED BY <1>1

\* A response leaves it.
LEMMA Dequeued ==
    ASSUME sending \in Seq(Responses), sending # <<>>, sending' = Tail(sending)
    PROVE  /\ sending' \in Seq(Responses) /\ Head(sending) = sending[1] /\ 1 \in 1 .. Len(sending)
           /\ sending[1] \in Responses
           /\ \A i \in 1 .. Len(sending') :
                  i \in Int /\ i + 1 # 1 /\ i + 1 \in 1 .. Len(sending) /\ sending'[i] = sending[i + 1]
           /\ \A i \in 1 .. Len(sending) :
                  i # 1 => i - 1 \in 1 .. Len(sending') /\ sending'[i - 1] = sending[i]
<1>1. /\ sending' \in Seq(Responses) /\ Len(sending) \in Nat /\ Len(sending) > 0
      /\ Len(sending') = Len(sending) - 1 /\ Head(sending) = sending[1]
      /\ \A i \in 1 .. Len(sending') : sending'[i] = sending[i + 1]
      /\ \A i \in 1 .. Len(sending) : sending[i] \in Responses
  OBVIOUS
<1>2. ASSUME NEW i \in 1 .. Len(sending), i # 1
      PROVE  i - 1 \in 1 .. Len(sending') /\ sending'[i - 1] = sending[i]
  <2>1. i - 1 \in 1 .. Len(sending') /\ (i - 1) + 1 = i  BY <1>1, <1>2
  <2> QED BY <1>1, <2>1
<1> QED BY <1>1, <1>2

\* Without a touch the idempotency cache is as it was; with one it has moved.
LEMMA Touched ==
    ASSUME IInv, NEW id, idem' = idem \/ idem' = touch(id)
    PROVE  Moved(idem', idem)
<1>1. Cache(idem)  BY Before
<1>2. CASE idem' = idem  BY <1>1, <1>2 DEF Moved, Covers, In
<1>3. CASE idem' = touch(id)  BY <1>1, <1>3, TouchCache DEF Moved
<1> QED BY <1>2, <1>3

\* A pending request that can be removed: the second half of RecordsAnswerable
Answerable ==
    \A id \in Ids : records[id] # None =>
        \/ <<id, records[id]>> \in asked
        \/ \E i \in 1 .. Len(sending) : sending[i].id = id /\ sending[i].kind # "replay"

\* RecordsAnswerable is the types and that.
LEMMA IsAnswerable == RecordsAnswerable <=> TypeOK /\ Answerable
BY DEF RecordsAnswerable, Answerable, Pending

-----------------------------------------------------------------------------
(* Effects of the steps *)

\* Nothing but the phase, the frames in flight and the order of a cache.
LEMMA QuietStep ==
    ASSUME IInv, setup' = setup, Moved(idem', idem), accepted' \in Seq(Frames), phase' \in Phases,
           phase = "closed" => phase' = "closed",
           UNCHANGED <<records, bcast, sending, asked, answered, reasked>>
    PROVE  IInv'
<1>1. TypeOK'  BY Static, Before DEF TypeOK, Cache, Moved, Phases
<1>2. Answerable'  BY IsAnswerable DEF Answerable, IInv
<1>3. RecordsAnswerable'  BY <1>1, <1>2 DEF RecordsAnswerable, Answerable, Pending
<1>4. Proper => Sourced'  BY Static DEF IInv, Sourced, Moved, In
<1>5. Proper /\ phase' # "closed" => Handover' /\ Guarded'
  <2> SUFFICES ASSUME Proper, phase # "closed", Handover, Guarded PROVE Handover' /\ Guarded'  BY DEF IInv
  <2>1. Handover'  BY DEF Handover
  <2>2. \A x : Coming(x)' <=> Coming(x)  BY DEF Coming
  <2>3. \A x : Has(idem, x) => Has(idem', x)  BY DEF Moved, Covers
  <2>4. Guarded'  BY Static, <2>2, <2>3, ZenonT(15) DEF Guarded
  <2> QED BY <2>1, <2>4
<1>6. NeverRebroadcast'  BY Static DEF IInv, NeverRebroadcast, Proper
<1> QED BY Static, <1>3, <1>4, <1>5, <1>6 DEF IInv

\* A refusal or a replay joins the queue.
LEMMA RespondStep ==
    ASSUME IInv, setup' = setup, Moved(idem', idem), accepted' \in Seq(Frames), phase' = phase,
           UNCHANGED <<records, bcast, asked, answered, reasked>>,
           NEW r \in Responses, sending' = Append(sending, r), r.kind # "app",
           Proper => /\ <<r.id, r.params>> \in Frames
                     /\ r.kind = "error" => MethodOf[r.params] = None
                     /\ r.kind # "error" => Entry(r.id, r.params, r.ans) \in answered
    PROVE  IInv'
<1>0. /\ sending' \in Seq(Responses)
      /\ \A i \in 1 .. Len(sending) : i \in 1 .. Len(sending') /\ sending'[i] = sending[i]
      /\ \A i \in 1 .. Len(sending') : sending'[i] = r \/ (i \in 1 .. Len(sending) /\ sending'[i] = sending[i])
  BY Before, Appended
<1>1. TypeOK'  BY Static, Before, <1>0 DEF TypeOK, Cache, Moved, Phases
<1>2. Answerable'
  <2> SUFFICES ASSUME NEW id \in Ids, records[id] # None, <<id, records[id]>> \notin asked
               PROVE  \E i \in 1 .. Len(sending') : sending'[i].id = id /\ sending'[i].kind # "replay"
    BY DEF Answerable
  <2>1. PICK i \in 1 .. Len(sending) : sending[i].id = id /\ sending[i].kind # "replay"
    BY IsAnswerable DEF Answerable, IInv
  <2> QED BY <1>0, <2>1
<1>3. RecordsAnswerable'  BY <1>1, <1>2 DEF RecordsAnswerable, Answerable, Pending
<1>4. Proper => Sourced'
  <2> SUFFICES ASSUME Proper PROVE Sourced'  OBVIOUS
  <2>1. Sourced  BY DEF IInv
  <2>2. \A i \in 1 .. Len(idem') : idem'[i] \in answered  BY <2>1 DEF Sourced, Moved, In
  <2>3. \A i \in 1 .. Len(sending') :
           /\ <<sending'[i].id, sending'[i].params>> \in Frames
           /\ sending'[i].kind = "error" => MethodOf[sending'[i].params] = None
           /\ sending'[i].kind # "error" =>
                  Entry(sending'[i].id, sending'[i].params, sending'[i].ans) \in answered
    BY <1>0, <2>1 DEF Sourced
  <2> QED BY Static, <2>1, <2>2, <2>3 DEF Sourced
<1>5. Proper /\ phase' # "closed" => Handover' /\ Guarded'
  <2> SUFFICES ASSUME Proper, phase # "closed" PROVE Handover' /\ Guarded'  OBVIOUS
  <2>1. Handover /\ Guarded  BY DEF IInv
  <2>2. Handover'
    <3>1. \A i \in 1 .. Len(sending') : sending'[i].kind = "app" =>
             i \in 1 .. Len(sending) /\ sending'[i] = sending[i]
      BY <1>0
    <3> QED BY <2>1, <3>1 DEF Handover
  <2>3. \A id : Coming(id) => Coming(id)'  BY <1>0 DEF Coming
  <2>4. \A id : Has(idem, id) => Has(idem', id)  BY DEF Moved, Covers
  <2>5. Guarded'
    <3> SUFFICES ASSUME NEW a \in answered, a.ans.ok
                 PROVE  /\ BroadcastFits /\ MethodOf[a.params] = SendTx => Coming(a.id)' \/ Has(bcast, a.id)
                        /\ IdemFits => Coming(a.id)' \/ Has(idem', a.id)
      BY Static DEF Guarded
    <3> QED BY <2>1, <2>3, <2>4 DEF Guarded
  <2> QED BY <2>2, <2>5
<1>6. NeverRebroadcast'  BY Static DEF IInv, NeverRebroadcast, Proper
<1> QED BY Static, <1>3, <1>4, <1>5, <1>6 DEF IInv

\* The request of a new record goes to the application.  It has not been
\* approved before, unless a cache could not keep the result.
LEMMA EmitStep ==
    ASSUME IInv, setup' = setup, Moved(idem', idem), accepted' \in Seq(Frames),
           UNCHANGED <<phase, bcast>>,
           NEW id, NEW p, <<id, p>> \in Frames, MethodOf[p] # None, ~Has(bcast, id),
           Has(idem, id) => Get(idem, id).params = p /\ TooLarge(Get(idem, id)),
           records[id] = None, emit_request(id, p)
    PROVE  IInv'
<1>0. /\ id \in Ids /\ p \in Params /\ p # None
      /\ records' = [records EXCEPT ![id] = p] /\ asked' = asked \cup {<<id, p>>}
      /\ UNCHANGED <<sending, answered>>
  BY Before, WalletAssumption DEF emit_request
<1>1. TypeOK'
  <2>1. records' \in [Ids -> Params \cup {None}] /\ asked' \subseteq Frames /\ reasked' \subseteq Frames
    BY ZenonT(30), Before, <1>0 DEF emit_request
  <2> QED BY ZenonT(30), Static, Before, <1>0, <2>1 DEF TypeOK, Cache, Moved, Phases
<1>2. Answerable'
  <2> SUFFICES ASSUME NEW x \in Ids, records'[x] # None, <<x, records'[x]>> \notin asked'
               PROVE  \E i \in 1 .. Len(sending') : sending'[i].id = x /\ sending'[i].kind # "replay"
    BY DEF Answerable
  <2>1. x # id /\ records'[x] = records[x]  BY <1>0
  <2> QED BY <1>0, <2>1, IsAnswerable DEF Answerable, IInv
<1>3. RecordsAnswerable'  BY ZenonT(30), <1>1, <1>2 DEF RecordsAnswerable, Answerable, Pending
<1>4. Proper => Sourced'
  <2> SUFFICES ASSUME Proper PROVE Sourced'  OBVIOUS
  <2>1. Sourced  BY DEF IInv
  <2>2. \A i \in 1 .. Len(idem') : idem'[i] \in answered  BY <2>1 DEF Sourced, Moved, In
  <2>3. \A x \in Ids : records'[x] # None => <<x, records'[x]>> \in Frames /\ MethodOf[records'[x]] # None
    <3> TAKE x \in Ids
    <3>1. CASE x = id  BY <1>0, <3>1, Before
    <3>2. CASE x # id
      <4>1. records'[x] = records[x]  BY <1>0, <3>2, Before
      <4> QED BY <2>1, <4>1 DEF Sourced
    <3> QED BY <3>1, <3>2
  <2> QED BY Static, <1>0, <2>1, <2>2, <2>3 DEF Sourced
<1>5. Proper /\ phase' # "closed" => Handover' /\ Guarded'
  <2> SUFFICES ASSUME Proper, phase # "closed" PROVE Handover' /\ Guarded'  OBVIOUS
  <2>1. Handover /\ Guarded  BY DEF IInv
  <2>2. \A x \in asked' : records'[x[1]] = x[2]
    <3> SUFFICES ASSUME NEW x \in asked, x \in Frames, x # <<id, p>> PROVE records'[x[1]] = x[2]
      BY Before, <1>0
    <3>1. records[x[1]] = x[2] /\ x[2] # None /\ x[1] \in Ids  BY ZenonT(30), Before, <2>1, WalletAssumption DEF Handover
    <3> QED BY <1>0, <3>1
  <2>3. \A i \in 1 .. Len(sending) : sending[i].kind = "app" => sending[i].id # id /\ sending[i].id \in Ids
    <3> TAKE i \in 1 .. Len(sending)
    <3>1. sending[i].id \in Ids
      <4>1. sending[i] \in Responses  BY Before
      <4> QED BY <4>1 DEF Responses
    <3> QED BY ZenonT(30), <2>1, <3>1 DEF Handover
  <2>4. Handover'  BY <1>0, <2>1, <2>2, <2>3 DEF Handover
  <2>5. \A x : Has(idem, x) => Has(idem', x)  BY DEF Moved, Covers
  <2>6. Guarded'  BY Static, <1>0, <2>1, <2>5, ZenonT(15) DEF Guarded, Coming, Has
  <2> QED BY <2>4, <2>6
<1>6. NeverRebroadcast'
  <2> SUFFICES ASSUME Proper, phase # "closed"
               PROVE  /\ BroadcastFits => \A x \in reasked' : MethodOf[x[2]] # SendTx
                      /\ IdemFits => \A x \in reasked' : Entry(x[1], x[2], Large) \in answered'
    BY Static DEF NeverRebroadcast, Proper
  <2>1. /\ BroadcastFits => \A x \in reasked : MethodOf[x[2]] # SendTx
        /\ IdemFits => \A x \in reasked : Entry(x[1], x[2], Large) \in answered
    BY DEF IInv, NeverRebroadcast, Proper
  <2>2. CASE reasked' = reasked  BY <1>0, <2>1, <2>2
  <2>3. CASE /\ reasked' = reasked \cup {<<id, p>>}
             /\ \E a \in answered : a.id = id /\ a.params = p /\ a.ans.ok
    <3>1. PICK a \in answered : a.id = id /\ a.params = p /\ a.ans.ok  BY <2>3
    <3>2. ~Coming(id)
      <4> SUFFICES ASSUME NEW i \in 1 .. Len(sending), sending[i].kind = "app", sending[i].id = id PROVE FALSE
        BY DEF Coming
      <4> QED BY DEF IInv, Handover
    <3>3. BroadcastFits => MethodOf[p] # SendTx  BY <3>1, <3>2 DEF IInv, Guarded
    <3>4. IdemFits => Entry(id, p, Large) \in answered
      <4> SUFFICES ASSUME IdemFits PROVE Entry(id, p, Large) \in answered  OBVIOUS
      <4>1. Has(idem, id)  BY <3>1, <3>2 DEF IInv, Guarded
      <4>2. In(Get(idem, id), idem) /\ Get(idem, id).id = id  BY <4>1, GetIn
      <4>3. Get(idem, id) \in answered /\ Get(idem, id) \in Entries  BY Before, <4>2, ZenonT(15) DEF IInv, Sourced, In
      <4>4. Get(idem, id).params = p /\ Get(idem, id).ans = Large  BY <4>1 DEF TooLarge
      <4>5. Get(idem, id) = Entry(id, p, Large)  BY <4>2, <4>3, <4>4 DEF Entries, Entry
      <4> QED BY <4>3, <4>5
    <3> QED BY <1>0, <2>1, <2>3, <3>3, <3>4
  <2> QED BY ZenonT(30), <2>2, <2>3 DEF emit_request
<1> QED BY Static, <1>3, <1>4, <1>5, <1>6 DEF IInv

\* The application answers: the record waits for the response.
LEMMA AnswerStep ==
    ASSUME IInv, setup' = setup, NEW id, NEW p, NEW ans \in Answers, answer(id, p, ans)
    PROVE  IInv'
<1> DEFINE r == Response(id, p, ans, "app")
<1>0. /\ <<id, p>> \in asked /\ <<id, p>> \in Frames /\ id \in Ids /\ p \in Params
      /\ sending' = Append(sending, r) /\ asked' = asked \ {<<id, p>>}
      /\ answered' = answered \cup {Entry(id, p, ans)}
      /\ UNCHANGED <<phase, accepted, records, idem, bcast, reasked>>
  BY Before DEF answer, respond
<1>1. r \in Responses /\ Entry(id, p, ans) \in Entries
  BY <1>0 DEF Response, Responses, Entry, Entries
<1>2. r.id = id /\ r.params = p /\ r.ans = ans /\ r.kind = "app"  BY DEF Response
<1>3. Entry(id, p, ans).id = id /\ Entry(id, p, ans).params = p /\ Entry(id, p, ans).ans = ans  BY DEF Entry
<1> HIDE DEF r
<1>4. /\ sending' \in Seq(Responses)
      /\ \A i \in 1 .. Len(sending) : i \in 1 .. Len(sending') /\ sending'[i] = sending[i]
      /\ Len(sending') \in 1 .. Len(sending') /\ sending'[Len(sending')] = r
      /\ \A i \in 1 .. Len(sending') : i \in 1 .. Len(sending) \/ i = Len(sending')
  BY Before, <1>0, <1>1, Appended
<1>5. TypeOK'  BY Static, Before, <1>0, <1>1, <1>4 DEF TypeOK, Cache, Phases
<1>6. Answerable'
  <2> SUFFICES ASSUME NEW x \in Ids, records[x] # None, <<x, records[x]>> \notin asked'
               PROVE  \E i \in 1 .. Len(sending') : sending'[i].id = x /\ sending'[i].kind # "replay"
    BY ZenonT(30), <1>0 DEF Answerable
  <2>1. CASE <<x, records[x]>> \in asked
    <3>1. x = id  BY <1>0, <2>1
    <3> QED BY <1>2, <1>4, <3>1
  <2>2. CASE <<x, records[x]>> \notin asked
    <3>1. PICK i \in 1 .. Len(sending) : sending[i].id = x /\ sending[i].kind # "replay"
      BY <2>2, IsAnswerable DEF Answerable, IInv
    <3> QED BY <1>4, <3>1
  <2> QED BY <2>1, <2>2
<1>7. RecordsAnswerable'  BY <1>5, <1>6 DEF RecordsAnswerable, Answerable, Pending
<1>8. Proper => Sourced'
  <2> SUFFICES ASSUME Proper PROVE Sourced'  OBVIOUS
  <2>1. Sourced  BY DEF IInv
  <2>2. \A i \in 1 .. Len(sending') :
           /\ <<sending'[i].id, sending'[i].params>> \in Frames
           /\ sending'[i].kind = "error" => MethodOf[sending'[i].params] = None
           /\ sending'[i].kind # "error" =>
                  Entry(sending'[i].id, sending'[i].params, sending'[i].ans) \in answered'
    <3> TAKE i \in 1 .. Len(sending')
    <3>1. CASE i = Len(sending')  BY ZenonT(30), <1>0, <1>2, <1>4, <3>1
    <3>2. CASE i \in 1 .. Len(sending)  BY <1>0, <1>4, <2>1, <3>2 DEF Sourced
    <3> QED BY <1>4, <3>1, <3>2
  <2>3. \A a \in answered' : <<a.id, a.params>> \in Frames  BY <1>0, <1>3, <2>1 DEF Sourced
  <2> QED BY ZenonT(30), Static, <1>0, <2>1, <2>2, <2>3 DEF Sourced
<1>9. Proper /\ phase' # "closed" => Handover' /\ Guarded'
  <2> SUFFICES ASSUME Proper, phase # "closed" PROVE Handover' /\ Guarded'  BY <1>0
  <2>1. Handover /\ Guarded  BY DEF IInv
  <2>2. records[id] = p /\ p # None  BY <1>0, <2>1, WalletAssumption DEF Handover
  <2>3. \A x \in asked' : records'[x[1]] = x[2] /\ x[1] # id
    <3> TAKE x \in asked'
    <3>1. x \in asked /\ x # <<id, p>> /\ x \in Ids \X Params  BY Before, <1>0
    <3>2. records[x[1]] = x[2]  BY <2>1, <3>1 DEF Handover
    <3>3. x = <<x[1], x[2]>>  BY <3>1
    <3> QED BY <1>0, <2>2, <3>1, <3>2, <3>3
  <2>4. \A i \in 1 .. Len(sending) : sending[i].kind = "app" => sending[i].id # id
    BY <1>0, <2>1 DEF Handover
  <2>5. \A i \in 1 .. Len(sending') : sending'[i].kind = "app" =>
           records'[sending'[i].id] # None /\ \A x \in asked' : x[1] # sending'[i].id
    <3> TAKE i \in 1 .. Len(sending')
    <3>1. CASE i = Len(sending')  BY <1>0, <1>2, <1>4, <2>2, <2>3, <3>1
    <3>2. CASE i \in 1 .. Len(sending)  BY <1>0, <1>4, <2>1, <3>2 DEF Handover
    <3> QED BY <1>4, <3>1, <3>2
  <2>6. \A i, j \in 1 .. Len(sending') :
           sending'[i].kind = "app" /\ sending'[j].kind = "app" /\ sending'[i].id = sending'[j].id => i = j
    BY <1>2, <1>4, <2>1, <2>4 DEF Handover
  <2>7. \A x : Coming(x) => Coming(x)'  BY <1>4 DEF Coming
  <2>8. ans.ok => Coming(id)'  BY <1>2, <1>4 DEF Coming
  <2>9. Guarded'
    <3> SUFFICES ASSUME NEW a \in answered', a.ans.ok
                 PROVE  /\ BroadcastFits /\ MethodOf[a.params] = SendTx => Coming(a.id)' \/ Has(bcast, a.id)
                        /\ IdemFits => Coming(a.id)' \/ Has(idem, a.id)
      BY ZenonT(30), Static, <1>0 DEF Guarded
    <3>1. CASE a \in answered  BY <2>1, <2>7, <3>1 DEF Guarded
    <3>2. CASE a = Entry(id, p, ans)  BY <1>3, <2>8, <3>2
    <3> QED BY <1>0, <3>1, <3>2
  <2> QED BY <2>3, <2>5, <2>6, <2>9 DEF Handover
<1>10. NeverRebroadcast'  BY Static, <1>0 DEF IInv, NeverRebroadcast, Proper
<1> QED BY Static, <1>0, <1>7, <1>8, <1>9, <1>10 DEF IInv

\* What cacheProcessedResponse makes of a cache.
LEMMA Cached ==
    ASSUME NEW c, Cache(c), NEW e \in Entries, NEW limit \in Nat, NEW d, d = Evict(Put(c, e), limit)
    PROVE  Cache(d) /\ Len(d) <= limit /\ From(d, c, e)
<1>1. Cache(Put(c, e)) /\ From(Put(c, e), c, e)  BY PutCache
<1>2. Cache(d) /\ Len(d) <= limit /\ \A i \in 1 .. Len(d) : In(d[i], Put(c, e))
  BY <1>1, EvictCache
<1> QED BY <1>1, <1>2 DEF From, In

\* A cache that has room for every id evicts nothing.
LEMMA CachedFits ==
    ASSUME NEW c, Cache(c), NEW e \in Entries, NEW limit \in Nat, NEW d, d = Evict(Put(c, e), limit),
           NEW S, IsFiniteSet(S), Cardinality(S) <= limit, e.id \in S,
           \A i \in 1 .. Len(c) : c[i].id \in S
    PROVE  Covers(d, c) /\ Has(d, e.id)
<1>1. Cache(Put(c, e)) /\ From(Put(c, e), c, e) /\ Covers(Put(c, e), c) /\ Has(Put(c, e), e.id)
  BY PutCache
<1>2. \A i \in 1 .. Len(Put(c, e)) : Put(c, e)[i].id \in S  BY <1>1 DEF From, In
<1>3. Len(Put(c, e)) <= Cardinality(S)  BY ZenonT(30), <1>1, <1>2, CacheFits
<1>4. Len(Put(c, e)) \in Nat /\ Cardinality(S) \in Nat  BY <1>1, FS_CardinalityType DEF Cache
<1>5. Len(Put(c, e)) <= limit  BY <1>3, <1>4
<1> QED BY <1>1, <1>5, EvictCache

\* A response that finds no record, or is a replay, leaves the queue.
LEMMA SentStep ==
    ASSUME IInv, setup' = setup, sending # <<>>, sending' = Tail(sending),
           UNCHANGED <<phase, accepted, records, idem, bcast, asked, answered, reasked>>,
           sending[1].kind = "replay" \/ records[sending[1].id] = None
    PROVE  IInv'
<1>0. /\ sending' \in Seq(Responses)
      /\ \A i \in 1 .. Len(sending') :
                  i \in Int /\ i + 1 # 1 /\ i + 1 \in 1 .. Len(sending) /\ sending'[i] = sending[i + 1]
      /\ \A i \in 1 .. Len(sending) :
             i # 1 => i - 1 \in 1 .. Len(sending') /\ sending'[i - 1] = sending[i]
  BY Before, Dequeued
<1>1. TypeOK'  BY Static, Before, <1>0 DEF TypeOK, Cache, Phases
<1>2. Answerable'
  <2> SUFFICES ASSUME NEW x \in Ids, records[x] # None, <<x, records[x]>> \notin asked
               PROVE  \E i \in 1 .. Len(sending') : sending'[i].id = x /\ sending'[i].kind # "replay"
    BY ZenonT(15) DEF Answerable
  <2>1. PICK i \in 1 .. Len(sending) : sending[i].id = x /\ sending[i].kind # "replay"
    BY IsAnswerable DEF Answerable, IInv
  <2>2. i - 1 \in 1 .. Len(sending') /\ sending'[i - 1] = sending[i]  BY <1>0, <2>1
  <2> QED BY <2>1, <2>2
<1>3. RecordsAnswerable'  BY ZenonT(30), <1>1, <1>2 DEF RecordsAnswerable, Answerable, Pending
<1>4. Proper => Sourced'
  <2> SUFFICES ASSUME Proper, Sourced PROVE Sourced'  BY ZenonT(30) DEF IInv
  <2>1. \A i \in 1 .. Len(sending') :
           /\ <<sending'[i].id, sending'[i].params>> \in Frames
           /\ sending'[i].kind = "error" => MethodOf[sending'[i].params] = None
           /\ sending'[i].kind # "error" =>
                  Entry(sending'[i].id, sending'[i].params, sending'[i].ans) \in answered
    <3> TAKE i \in 1 .. Len(sending')
    <3>1. i + 1 \in 1 .. Len(sending) /\ sending'[i] = sending[i + 1]  BY <1>0
    <3> QED BY ZenonT(30), <3>1 DEF Sourced
  <2> QED BY Static, <2>1 DEF Sourced
<1>5. Proper /\ phase' # "closed" => Handover' /\ Guarded'
  <2> SUFFICES ASSUME Proper, phase # "closed", Handover, Guarded PROVE Handover' /\ Guarded'  BY DEF IInv
  <2>1. \A i \in 1 .. Len(sending') : sending'[i].kind = "app" =>
           records[sending'[i].id] # None /\ \A x \in asked : x[1] # sending'[i].id
    <3> TAKE i \in 1 .. Len(sending')
    <3>1. i + 1 \in 1 .. Len(sending) /\ sending'[i] = sending[i + 1]  BY <1>0
    <3> QED BY <3>1 DEF Handover
  <2>2. \A i, j \in 1 .. Len(sending') :
           sending'[i].kind = "app" /\ sending'[j].kind = "app" /\ sending'[i].id = sending'[j].id => i = j
    <3> TAKE i, j \in 1 .. Len(sending')
    <3> HAVE sending'[i].kind = "app" /\ sending'[j].kind = "app" /\ sending'[i].id = sending'[j].id
    <3>1. i + 1 = j + 1  BY <1>0 DEF Handover
    <3> QED BY <1>0, <3>1
  <2>3. Handover'  BY <2>1, <2>2 DEF Handover
  <2>4. ASSUME NEW x, Coming(x) PROVE Coming(x)'
    <3>1. PICK i \in 1 .. Len(sending) : sending[i].kind = "app" /\ sending[i].id = x /\ sending[i].ans.ok
      BY <2>4 DEF Coming
    <3>2. i # 1  BY <3>1 DEF Handover
    <3>3. i - 1 \in 1 .. Len(sending') /\ sending'[i - 1] = sending[i]  BY ZenonT(30), <1>0, <3>2
    <3> QED BY <3>1, <3>3 DEF Coming
  <2>5. Guarded'
    <3> SUFFICES ASSUME NEW a \in answered, a.ans.ok
                 PROVE  /\ BroadcastFits /\ MethodOf[a.params] = SendTx => Coming(a.id)' \/ Has(bcast, a.id)
                        /\ IdemFits => Coming(a.id)' \/ Has(idem, a.id)
      BY Static DEF Guarded
    <3> QED BY ZenonT(30), <2>4 DEF Guarded
  <2> QED BY <2>3, <2>5
<1>6. NeverRebroadcast'  BY Static DEF IInv, NeverRebroadcast, Proper
<1> QED BY Static, <1>3, <1>4, <1>5, <1>6 DEF IInv

\* A response finds a record: it is cached under the record's payload.
LEMMA CacheStep ==
    ASSUME IInv, setup' = setup, sending # <<>>, sending' = Tail(sending),
           UNCHANGED <<phase, accepted, asked, answered, reasked>>,
           sending[1].kind # "replay", records[sending[1].id] # None,
           cacheProcessedResponse(sending[1])
    PROVE  IInv'
<1> DEFINE r == sending[1]
           q == records[r.id]
           e == Entry(r.id, q, r.ans)
<1>0. /\ sending' \in Seq(Responses) /\ 1 \in 1 .. Len(sending) /\ r \in Responses
      /\ \A i \in 1 .. Len(sending') :
                  i \in Int /\ i + 1 # 1 /\ i + 1 \in 1 .. Len(sending) /\ sending'[i] = sending[i + 1]
      /\ \A i \in 1 .. Len(sending) :
             i # 1 => i - 1 \in 1 .. Len(sending') /\ sending'[i - 1] = sending[i]
  BY ZenonT(30), Before, Dequeued
<1>1. r.id \in Ids /\ r.ans \in Answers /\ q \in Params /\ q # None  BY ZenonT(30), Before, <1>0 DEF Responses
<1>2. e \in Entries /\ e.id = r.id /\ e.params = q /\ e.ans = r.ans  BY <1>1 DEF Entry, Entries
<1>3. /\ idem' = Evict(Put(idem, e), CacheLimit)
      /\ bcast' = IF MethodOf[q] = SendTx /\ r.ans.ok THEN Evict(Put(bcast, e), BroadcastLimit) ELSE bcast
      /\ records' = [records EXCEPT ![r.id] = None]
  BY ZenonT(30), <1>2 DEF cacheProcessedResponse
<1> HIDE DEF e
<1>4. Cache(idem') /\ Len(idem') <= CacheLimit /\ From(idem', idem, e)  BY Before, <1>2, <1>3, Cached, ZenonT(15)
<1>5. /\ Cache(bcast') /\ Len(bcast') <= BroadcastLimit
      /\ From(bcast', bcast, e)
      /\ \A i \in 1 .. Len(bcast') : In(bcast'[i], bcast) \/ (bcast'[i] = e /\ MethodOf[q] = SendTx)
  <2>1. CASE MethodOf[q] = SendTx /\ r.ans.ok
    <3>1. bcast' = Evict(Put(bcast, e), BroadcastLimit)  BY <1>3, <2>1
    <3>2. Cache(bcast') /\ Len(bcast') <= BroadcastLimit /\ From(bcast', bcast, e)
      BY Before, <1>2, <3>1, Cached, WalletAssumption, ZenonT(15)
    <3> QED BY ZenonT(30), <2>1, <3>2 DEF From
  <2>2. CASE bcast' = bcast  BY ZenonT(30), Before, <2>2 DEF From, In
  <2> QED BY ZenonT(30), <1>3, <2>1, <2>2
<1>6. /\ records' \in [Ids -> Params \cup {None}] /\ records'[r.id] = None
      /\ \A x \in Ids : x # r.id => records'[x] = records[x]
  BY ZenonT(30), Before, <1>1, <1>3
<1>7. TypeOK'  BY ZenonT(30), Static, Before, <1>0, <1>4, <1>5, <1>6 DEF TypeOK, Cache, Phases
<1>8. Answerable'
  <2> SUFFICES ASSUME NEW x \in Ids, x # r.id, records[x] # None, <<x, records[x]>> \notin asked
               PROVE  \E i \in 1 .. Len(sending') : sending'[i].id = x /\ sending'[i].kind # "replay"
    <3>1. \A x \in Ids : records'[x] # None => x # r.id /\ records'[x] = records[x]  BY <1>6
    <3> QED BY <3>1, ZenonT(15) DEF Answerable
  <2>1. PICK i \in 1 .. Len(sending) : sending[i].id = x /\ sending[i].kind # "replay"
    BY IsAnswerable DEF Answerable, IInv
  <2>2. i - 1 \in 1 .. Len(sending') /\ sending'[i - 1] = sending[i]  BY <1>0, <2>1
  <2> QED BY ZenonT(30), <2>1, <2>2
<1>9. RecordsAnswerable'  BY <1>7, <1>8, ZenonT(15) DEF RecordsAnswerable, Answerable, Pending
<1>10. Proper => /\ r.kind = "app" /\ e \in answered /\ <<r.id, q>> \in Frames
  <2> SUFFICES ASSUME Proper, Sourced
               PROVE  r.kind = "app" /\ e \in answered /\ <<r.id, q>> \in Frames
    BY ZenonT(30) DEF IInv
  <2>1. <<r.id, q>> \in Frames /\ MethodOf[q] # None  BY ZenonT(30), <1>1 DEF Sourced
  <2>2. <<r.id, r.params>> \in Frames  BY <1>0 DEF Sourced
  <2>3. r.params = q
    <3>1. <<r.id, r.params>>[1] = <<r.id, q>>[1]  BY ZenonT(30)
    <3>2. <<r.id, r.params>> = <<r.id, q>>  BY ZenonT(30), <2>1, <2>2, <3>1 DEF Proper, OnePayloadPerId
    <3> QED BY <3>2
  <2>4. r.kind # "error"  BY <1>0, <2>1, <2>3 DEF Sourced
  <2>5. e = Entry(r.id, r.params, r.ans)  BY <2>3 DEF e
  <2>6. Entry(r.id, r.params, r.ans) \in answered  BY <1>0, <2>4, ZenonT(15) DEF Sourced
  <2>7. r.kind \in {"app", "error", "replay"}  BY ZenonT(30), <1>0 DEF Responses
  <2> QED BY <2>1, <2>4, <2>5, <2>6, <2>7
<1>11. Proper => Sourced'
  <2> SUFFICES ASSUME Proper, Sourced PROVE Sourced'  BY ZenonT(30) DEF IInv
  <2>1. \A i \in 1 .. Len(sending') :
           /\ <<sending'[i].id, sending'[i].params>> \in Frames
           /\ sending'[i].kind = "error" => MethodOf[sending'[i].params] = None
           /\ sending'[i].kind # "error" =>
                  Entry(sending'[i].id, sending'[i].params, sending'[i].ans) \in answered
    <3> TAKE i \in 1 .. Len(sending')
    <3>1. i + 1 \in 1 .. Len(sending) /\ sending'[i] = sending[i + 1]  BY ZenonT(30), <1>0
    <3> QED BY ZenonT(30), <3>1 DEF Sourced
  <2>2. \A x \in Ids : records'[x] # None => <<x, records'[x]>> \in Frames /\ MethodOf[records'[x]] # None
    BY ZenonT(30), <1>6 DEF Sourced
  <2>3. \A i \in 1 .. Len(idem') : idem'[i] \in answered  BY ZenonT(30), <1>4, <1>10 DEF Sourced, From, In
  <2>4. \A i \in 1 .. Len(bcast') : bcast'[i] \in answered /\ MethodOf[bcast'[i].params] = SendTx
    BY ZenonT(30), <1>2, <1>5, <1>10 DEF Sourced, In
  <2> QED BY ZenonT(30), Static, <2>1, <2>2, <2>3, <2>4 DEF Sourced
<1>12. Proper /\ phase' # "closed" => Handover' /\ Guarded'
  <2> SUFFICES ASSUME Proper, phase # "closed", Sourced, Handover, Guarded PROVE Handover' /\ Guarded'
    BY DEF IInv
  <2>1. r.kind = "app" /\ e \in answered /\ <<r.id, q>> \in Frames  BY ZenonT(30), <1>10
  <2>2. \A x \in asked : x[1] # r.id /\ x[1] \in Ids  BY ZenonT(30), Before, <1>0, <2>1 DEF Handover
  <2>3. \A i \in 1 .. Len(sending') : sending'[i].kind = "app" => sending'[i].id # r.id
    <3> TAKE i \in 1 .. Len(sending')
    <3>1. i + 1 # 1 /\ i + 1 \in 1 .. Len(sending) /\ sending'[i] = sending[i + 1]  BY ZenonT(30), <1>0
    <3>2. r = sending[1] /\ 1 \in 1 .. Len(sending)  BY ZenonT(30), <1>0
    <3> QED BY ZenonT(30), <2>1, <3>1, <3>2 DEF Handover
  <2>4. \A x \in asked : records'[x[1]] = x[2]  BY ZenonT(30), <1>6, <2>2 DEF Handover
  <2>5. \A i \in 1 .. Len(sending') : sending'[i].kind = "app" =>
           records'[sending'[i].id] # None /\ \A x \in asked : x[1] # sending'[i].id
    <3> TAKE i \in 1 .. Len(sending')
    <3>1. sending'[i] \in Responses  BY <1>0
    <3>2. sending'[i].id \in Ids  BY <3>1 DEF Responses
    <3>3. i + 1 \in 1 .. Len(sending) /\ sending'[i] = sending[i + 1]  BY ZenonT(30), <1>0
    <3>4. sending'[i].kind = "app" =>
             records[sending'[i].id] # None /\ \A x \in asked : x[1] # sending'[i].id
      BY ZenonT(30), <3>3 DEF Handover
    <3> QED BY ZenonT(30), <1>6, <2>3, <3>2, <3>4
  <2>6. \A i, j \in 1 .. Len(sending') :
           sending'[i].kind = "app" /\ sending'[j].kind = "app" /\ sending'[i].id = sending'[j].id => i = j
    <3> TAKE i, j \in 1 .. Len(sending')
    <3> HAVE sending'[i].kind = "app" /\ sending'[j].kind = "app" /\ sending'[i].id = sending'[j].id
    <3>1. i + 1 = j + 1  BY <1>0 DEF Handover
    <3> QED BY <1>0, <3>1
  <2>7. Handover'  BY ZenonT(30), <2>4, <2>5, <2>6 DEF Handover
  <2>8. ASSUME NEW x, Coming(x) PROVE Coming(x)' \/ (x = r.id /\ r.ans.ok)
    <3>1. PICK i \in 1 .. Len(sending) : sending[i].kind = "app" /\ sending[i].id = x /\ sending[i].ans.ok
      BY <2>8 DEF Coming
    <3>2. CASE i = 1  BY <3>1, <3>2
    <3>3. CASE i # 1
      <4>1. i - 1 \in 1 .. Len(sending') /\ sending'[i - 1] = sending[i]  BY <1>0, <3>3
      <4> QED BY <3>1, <4>1 DEF Coming
    <3> QED BY <3>2, <3>3
  <2>9. IdemFits => Covers(idem', idem) /\ Has(idem', r.id)
    <3> SUFFICES ASSUME IdemFits PROVE Covers(idem', idem) /\ Has(idem', e.id)  BY <1>2
    <3>1. r.id \in FrameIds  BY <2>1 DEF FrameIds
    <3>2. \A i \in 1 .. Len(idem) : idem[i].id \in FrameIds
      <4> TAKE i \in 1 .. Len(idem)
      <4>1. <<idem[i].id, idem[i].params>> \in Frames  BY ZenonT(30) DEF Sourced
      <4> QED BY <4>1 DEF FrameIds
    <3> QED BY ZenonT(30), Before, <1>2, <1>3, <3>1, <3>2, CachedFits DEF IdemFits
  <2>10. BroadcastFits => /\ Covers(bcast', bcast)
                          /\ MethodOf[q] = SendTx /\ r.ans.ok => Has(bcast', r.id)
    <3> SUFFICES ASSUME BroadcastFits, MethodOf[q] = SendTx /\ r.ans.ok
                 PROVE  Covers(bcast', bcast) /\ Has(bcast', e.id)
      BY ZenonT(30), <1>2, <1>3 DEF Covers
    <3>1. r.id \in BroadcastIds  BY <2>1 DEF BroadcastIds
    <3>2. \A i \in 1 .. Len(bcast) : bcast[i].id \in BroadcastIds
      <4> TAKE i \in 1 .. Len(bcast)
      <4>1. <<bcast[i].id, bcast[i].params>> \in Frames /\ MethodOf[bcast[i].params] = SendTx
        BY DEF Sourced
      <4> DEFINE f == <<bcast[i].id, bcast[i].params>>
      <4>2. f \in {g \in Frames : MethodOf[g[2]] = SendTx} /\ f[1] = bcast[i].id  BY <4>1
      <4> QED BY ZenonT(30), <4>2 DEF BroadcastIds
    <3>3. bcast' = Evict(Put(bcast, e), BroadcastLimit)  BY <1>3
    <3> QED BY ZenonT(30), Before, <1>2, <3>1, <3>2, <3>3, CachedFits, WalletAssumption DEF BroadcastFits
  <2>11. Guarded'
    <3> SUFFICES ASSUME NEW a \in answered, a.ans.ok
                 PROVE  /\ BroadcastFits /\ MethodOf[a.params] = SendTx => Coming(a.id)' \/ Has(bcast', a.id)
                        /\ IdemFits => Coming(a.id)' \/ Has(idem', a.id)
      BY Static DEF Guarded
    <3>1. a.id = r.id => a.params = q
      <4> HAVE a.id = r.id
      <4>1. <<r.id, a.params>> \in Frames  BY DEF Sourced
      <4>2. <<r.id, a.params>>[1] = <<r.id, q>>[1]  OBVIOUS
      <4>3. <<r.id, a.params>> = <<r.id, q>>  BY <2>1, <4>1, <4>2 DEF Proper, OnePayloadPerId
      <4> QED BY <4>3
    <3>2. BroadcastFits /\ MethodOf[a.params] = SendTx => Coming(a.id)' \/ Has(bcast', a.id)
      BY ZenonT(30), <2>8, <2>10, <3>1 DEF Guarded, Covers
    <3>3. IdemFits => Coming(a.id)' \/ Has(idem', a.id)
      BY <2>8, <2>9 DEF Guarded, Covers
    <3> QED BY ZenonT(30), <3>2, <3>3
  <2> QED BY ZenonT(30), <2>7, <2>11
<1>13. NeverRebroadcast'  BY Static DEF IInv, NeverRebroadcast, Proper
<1> QED BY ZenonT(30), Static, <1>9, <1>11, <1>12, <1>13 DEF IInv

\* The caches and records are cleared, in memory or with the process.
LEMMA ClearStep ==
    ASSUME IInv, setup' = setup, close \/ restore
    PROVE  IInv'
<1>0. /\ records' = NoRecords /\ idem' = <<>> /\ bcast' = <<>>
      /\ phase' \in Phases /\ Len(idem') = 0 /\ Len(bcast') = 0
      /\ \A id \in Ids : records'[id] = None
  BY DEF close, restore, Phases, NoRecords
<1>1. /\ accepted' \in Seq(Frames) /\ sending' \in Seq(Responses) /\ asked' \subseteq Frames
      /\ reasked' \subseteq Frames /\ answered' \subseteq Entries
  <2>1. CASE close  BY Before, <2>1 DEF close, appVars
  <2>2. CASE restore  BY <2>2 DEF restore
  <2> QED BY <2>1, <2>2
<1>2. Cache(<<>>) /\ Len(<<>>) = 0  BY DEF Cache, Distinct
<1>3. TypeOK'  BY Static, Before, <1>0, <1>1, <1>2, WalletAssumption DEF TypeOK, Cache, Phases, NoRecords
<1>4. RecordsAnswerable'  BY <1>0, <1>3 DEF RecordsAnswerable, Pending
<1>5. CASE close
  <2>1. phase' = "closed" /\ UNCHANGED <<sending, asked, answered, reasked>>  BY <1>5 DEF close, appVars
  <2>2. Proper => Sourced'
    <3> SUFFICES ASSUME Proper, Sourced PROVE Sourced'  BY DEF IInv
    <3>1. /\ \A i \in 1 .. Len(idem') : idem'[i] \in answered'
          /\ \A i \in 1 .. Len(bcast') : bcast'[i] \in answered' /\ MethodOf[bcast'[i].params] = SendTx
      BY <1>0
    <3> QED BY ZenonT(30), Static, <1>0, <2>1, <3>1 DEF Sourced
  <2>3. NeverRebroadcast'  BY Static, <2>1 DEF NeverRebroadcast
  <2> QED BY Static, <1>4, <2>1, <2>2, <2>3 DEF IInv
<1>6. CASE restore
  <2>1. sending' = <<>> /\ Len(sending') = 0 /\ asked' = {} /\ answered' = {} /\ reasked' = {}
    BY <1>6 DEF restore
  <2>2. Sourced'  BY Static, <1>0, <2>1 DEF Sourced
  <2>3. Handover' /\ Guarded'  BY <2>1 DEF Handover, Guarded
  <2>4. NeverRebroadcast'  BY Static, <2>1 DEF NeverRebroadcast
  <2> QED BY <1>4, <2>2, <2>3, <2>4 DEF IInv
<1> QED BY <1>5, <1>6

-----------------------------------------------------------------------------
(* processRequest *)

\* For a dApp that stays below it, the limit on pending requests is not met:
\* a request without a record is one more than those that have one.
LEMMA BelowLimit ==
    ASSUME IInv, Proper, NEW id, NEW p, <<id, p>> \in Frames, records[id] = None
    PROVE  Cardinality(Pending) \in Nat /\ Cardinality(Pending) < MaxPending
<1>1. id \in FrameIds /\ IsFiniteSet(FrameIds) /\ Cardinality(FrameIds) <= MaxPending
  <2>1. <<id, p>>[1] = id  OBVIOUS
  <2> QED BY <2>1 DEF FrameIds, Proper, NeverRateLimited
<1>2. Pending \subseteq FrameIds \ {id}
  <2> SUFFICES ASSUME NEW x \in Pending PROVE x \in FrameIds /\ x # id  OBVIOUS
  <2>1. x \in Ids /\ records[x] # None  BY DEF Pending
  <2>2. <<x, records[x]>> \in Frames  BY <2>1 DEF IInv, Sourced
  <2>3. <<x, records[x]>>[1] = x  OBVIOUS
  <2> QED BY <2>1, <2>2, <2>3 DEF FrameIds
<1>3. IsFiniteSet(FrameIds \ {id}) /\ Cardinality(FrameIds \ {id}) = Cardinality(FrameIds) - 1
  BY <1>1, FS_RemoveElement
<1>4. Cardinality(Pending) <= Cardinality(FrameIds \ {id}) /\ IsFiniteSet(Pending)
  BY <1>2, <1>3, FS_Subset
<1>5. Cardinality(Pending) \in Nat /\ Cardinality(FrameIds) \in Nat
  BY <1>1, <1>4, FS_CardinalityType
<1> QED BY Before, <1>1, <1>3, <1>4, <1>5

\* An id of a proper dApp is answered, cached and recorded under its payload.
LEMMA SamePayload ==
    ASSUME Proper, NEW id, NEW p, NEW q, <<id, p>> \in Frames, <<id, q>> \in Frames
    PROVE  p = q
<1>1. <<id, p>>[1] = <<id, q>>[1]  OBVIOUS
<1>2. <<id, p>> = <<id, q>>  BY <1>1 DEF Proper, OnePayloadPerId
<1> QED BY <1>2

\* What a cache holds for a frame's id was answered to that frame.
LEMMA CachedAnswer ==
    ASSUME IInv, Proper, NEW id, NEW p, <<id, p>> \in Frames, NEW c, c = idem \/ c = bcast, Has(c, id)
    PROVE  Get(c, id).params = p /\ Entry(id, p, Get(c, id).ans) \in answered
<1>1. In(Get(c, id), c) /\ Get(c, id).id = id  BY GetIn
<1>2. Get(c, id) \in answered  BY ZenonT(30), <1>1 DEF IInv, Sourced, In
<1>3. <<id, Get(c, id).params>> \in Frames  BY ZenonT(30), <1>1, <1>2 DEF IInv, Sourced
<1>4. Get(c, id).params = p  BY <1>3, SamePayload
<1>5. Get(c, id) \in Entries  BY Before, <1>2
<1>6. Get(c, id) = Entry(id, p, Get(c, id).ans)  BY <1>1, <1>4, <1>5 DEF Entries, Entry
<1> QED BY <1>2, <1>4, <1>6

\* The answer of a cached entry is an answer.
LEMMA CachedType ==
    ASSUME IInv, NEW id, NEW c, c = idem \/ c = bcast, Has(c, id)
    PROVE  Get(c, id).ans \in Answers
<1>1. In(Get(c, id), c)  BY GetIn
<1>2. c \in Seq(Entries)  BY Before DEF Cache
<1>3. Get(c, id) \in Entries  BY <1>1, <1>2 DEF In
<1> QED BY <1>3 DEF Entries

\* processRequest preserves the invariant: it refuses, replays, drops a
\* duplicate or asks the application.
LEMMA ProcessStep ==
    ASSUME IInv, setup' = setup, processRequest
    PROVE  IInv'
<1> DEFINE id == Head(accepted)[1]
           p  == Head(accepted)[2]
<1>0. /\ accepted # <<>> /\ accepted' = Tail(accepted) /\ UNCHANGED <<phase, bcast>>
      /\ accepted' \in Seq(Frames) /\ Head(accepted) \in Frames
  <2>1. accepted # <<>> /\ accepted' = Tail(accepted) /\ UNCHANGED <<phase, bcast>>  BY ZenonT(30) DEF processRequest
  <2>2. accepted \in Seq(Frames)  BY Before
  <2> QED BY <2>1, <2>2
<1>1. <<id, p>> \in Frames /\ id \in Ids /\ p \in Params
  <2>1. \A f \in Ids \X Params : f = <<f[1], f[2]>> /\ f[1] \in Ids /\ f[2] \in Params  OBVIOUS
  <2> QED BY Before, <1>0, <2>1, ZenonT(15)
<1> HIDE DEF id, p
<1>2. ASSUME NEW code \in {"invalid_params", "unsupported_method", "rate_limited"},
             Moved(idem', idem), respond(Response(id, p, Error(code), "error")),
             UNCHANGED <<records, appVars>>,
             Proper => MethodOf[p] = None
      PROVE  IInv'
  <2> DEFINE r == Response(id, p, Error(code), "error")
  <2>1. Error(code) \in Answers  BY DEF Answers
  <2>2. r \in Responses /\ r.kind = "error" /\ r.id = id /\ r.params = p
    BY <1>1, <2>1 DEF Response, Responses
  <2>3. sending' = Append(sending, r) /\ UNCHANGED <<asked, answered, reasked>>
    BY <1>2 DEF respond, appVars
  <2> HIDE DEF r
  <2> QED BY ZenonT(30), <1>0, <1>1, <1>2, <2>2, <2>3, RespondStep
<1>3. ASSUME NEW c, c = idem \/ c = bcast, Has(c, id), Get(c, id).params = p,
             Moved(idem', idem), respond(Response(id, p, Get(c, id).ans, "replay")),
             UNCHANGED <<records, appVars>>
      PROVE  IInv'
  <2> DEFINE ans == Get(c, id).ans
             r   == Response(id, p, ans, "replay")
  <2>1. ans \in Answers  BY <1>3, CachedType
  <2>2. Proper => Entry(id, p, ans) \in answered  BY <1>1, <1>3, CachedAnswer
  <2> HIDE DEF ans
  <2>3. r \in Responses /\ r.kind = "replay" /\ r.id = id /\ r.params = p /\ r.ans = ans
    BY <1>1, <2>1 DEF Response, Responses
  <2>4. sending' = Append(sending, r) /\ UNCHANGED <<asked, answered, reasked>>
    BY <1>3 DEF respond, appVars, ans
  <2> HIDE DEF r
  <2> QED BY ZenonT(30), <1>0, <1>1, <1>3, <2>2, <2>3, <2>4, RespondStep
<1>4. Moved(idem, idem)  BY Before DEF Moved, Covers, In
<1>5. CASE MethodOf[p] = None /\ refuse(id, p, "unsupported_method")
  BY <1>2, <1>4, <1>5 DEF refuse
<1>6. CASE MethodOf[p] # None /\ Has(bcast, id) /\ Get(bcast, id).params # p /\ refuse(id, p, "invalid_params")
  <2>1. ~Proper  BY ZenonT(30), <1>1, <1>6, CachedAnswer
  <2> QED BY ZenonT(30), <1>2, <1>4, <1>6, <2>1 DEF refuse
<1>7. CASE /\ MethodOf[p] # None /\ Has(bcast, id) /\ Get(bcast, id).params = p
           /\ respond(Response(id, p, Get(bcast, id).ans, "replay")) /\ UNCHANGED <<records, idem, appVars>>
  BY ZenonT(30), <1>3, <1>4, <1>7
<1>8. CASE /\ MethodOf[p] # None /\ Has(idem, id) /\ Get(idem, id).params # p
           /\ refuse(id, p, "invalid_params")
  <2>1. ~Proper  BY ZenonT(30), <1>1, <1>8, CachedAnswer
  <2> QED BY <1>2, <1>4, <1>8, <2>1 DEF refuse
<1>9. CASE /\ Has(idem, id) /\ Get(idem, id).params = p /\ idem' = touch(id)
           /\ respond(Response(id, p, Get(idem, id).ans, "replay")) /\ UNCHANGED <<records, appVars>>
  <2>1. Moved(idem', idem)  BY <1>9, Touched
  <2> QED BY <1>3, <1>9, <2>1
<1>10. CASE /\ MethodOf[p] # None /\ ~Has(bcast, id)
            /\ Has(idem, id) => Get(idem, id).params = p /\ TooLarge(Get(idem, id))
            /\ idem' = touch(id) /\ process_uncached(id, p)
  <2>1. Moved(idem', idem)  BY ZenonT(30), <1>10, Touched
  <2>2. CASE /\ records[id] # None /\ records[id] # p
             /\ respond(Response(id, p, Error("invalid_params"), "error")) /\ UNCHANGED <<records, appVars>>
    <3>1. ~Proper
      <4> SUFFICES ASSUME Proper PROVE FALSE  OBVIOUS
      <4>1. <<id, records[id]>> \in Frames  BY ZenonT(30), <1>1, <2>2 DEF IInv, Sourced
      <4> QED BY <1>1, <2>2, <4>1, SamePayload
    <3> QED BY ZenonT(30), <1>2, <2>1, <2>2, <3>1
  <2>3. CASE UNCHANGED <<records, sending, appVars>>
    BY ZenonT(30), Before, <1>0, <2>1, <2>3, QuietStep DEF appVars
  <2>4. CASE /\ records[id] = None /\ Cardinality(Pending) >= MaxPending
             /\ respond(Response(id, p, Error("rate_limited"), "error")) /\ UNCHANGED <<records, appVars>>
    <3>1. ~Proper
      <4> SUFFICES ASSUME Proper PROVE FALSE  OBVIOUS
      <4>1. Cardinality(Pending) \in Nat /\ Cardinality(Pending) < MaxPending  BY <1>1, <2>4, BelowLimit
      <4> QED BY Before, <2>4, <4>1
    <3> QED BY <1>2, <2>1, <2>4, <3>1
  <2>5. CASE records[id] = None /\ emit_request(id, p)
    BY ZenonT(30), <1>0, <1>1, <1>10, <2>1, <2>5, EmitStep
  <2> QED BY ZenonT(30), <1>10, <2>2, <2>3, <2>4, <2>5 DEF process_uncached
<1> QED BY ZenonT(30), <1>5, <1>6, <1>7, <1>8, <1>9, <1>10 DEF processRequest, id, p

-----------------------------------------------------------------------------
(* The theorems *)

\* A new session has no requests.
LEMMA IInvInit == WalletInit => IInv
<1> SUFFICES ASSUME WalletInit PROVE IInv  OBVIOUS
<1>1. /\ setup \in Setups /\ CacheLimit \in Nat /\ BroadcastLimit \in Nat
      /\ Len(idem) = 0 /\ Len(bcast) = 0 /\ Len(sending) = 0
      /\ idem = <<>> /\ bcast = <<>> /\ sending = <<>> /\ accepted = <<>>
      /\ asked = {} /\ answered = {} /\ reasked = {} /\ phase = "connected"
      /\ records \in [Ids -> Params \cup {None}] /\ \A id \in Ids : records[id] = None
  BY WalletAssumption DEF WalletInit, CacheLimit, NoRecords
<1>2. TypeOK  BY <1>1 DEF TypeOK, Distinct
<1>3. RecordsAnswerable  BY <1>1, <1>2 DEF RecordsAnswerable, Pending
<1>4. Sourced /\ Handover /\ Guarded /\ NeverRebroadcast
  <2>1. Sourced
    <3>1. \A id \in Ids : records[id] # None =>
             <<id, records[id]>> \in Frames /\ MethodOf[records[id]] # None
      BY <1>1
    <3>2. 1 .. Len(sending) = {} /\ 1 .. Len(idem) = {} /\ 1 .. Len(bcast) = {}  BY <1>1
    <3> QED BY <1>1, <3>1, <3>2 DEF Sourced
  <2>2. Handover  BY <1>1 DEF Handover
  <2>3. Guarded /\ NeverRebroadcast  BY <1>1 DEF Guarded, NeverRebroadcast
  <2> QED BY ZenonT(30), <2>1, <2>2, <2>3
<1> QED BY Static, <1>1, <1>3, <1>4 DEF IInv

\* One case for each action.
LEMMA IInvStep == IInv /\ [WalletNext /\ UNCHANGED setup]_walletVars => IInv'
<1> SUFFICES ASSUME IInv, [WalletNext /\ UNCHANGED setup]_walletVars PROVE IInv'  OBVIOUS
<1>0. Moved(idem, idem)  BY Before DEF Moved, Covers, In
<1>1. CASE UNCHANGED walletVars
  BY Before, <1>0, <1>1, QuietStep DEF walletVars, sessionVars, appVars
<1>2. CASE WalletNext /\ setup' = setup
  <2>1. CASE \E f \in Frames : req(f[1], f[2])
    <3>1. PICK f \in Frames : req(f[1], f[2])  BY <2>1
    <3>2. f = <<f[1], f[2]>>  BY Before
    <3>3. accepted' = Append(accepted, f) /\ UNCHANGED <<phase, records, idem, bcast, sending, asked, answered, reasked>>
      BY <3>1, <3>2 DEF req, appVars
    <3>4. accepted' \in Seq(Frames)  BY Before, <3>3
    <3> QED BY Before, <1>0, <1>2, <3>3, <3>4, QuietStep
  <2>2. CASE processRequest  BY <1>2, <2>2, ProcessStep
  <2>3. CASE \E f \in Frames, a \in {Small, Large, Error("user_rejected")} : answer(f[1], f[2], a)
    <3>1. PICK f \in Frames, a \in {Small, Large, Error("user_rejected")} : answer(f[1], f[2], a)  BY <2>3
    <3>2. a \in Answers  BY DEF Answers
    <3> QED BY <1>2, <3>1, <3>2, AnswerStep
  <2>4. CASE send_response
    <3>1. /\ sending # <<>> /\ sending' = Tail(sending) /\ Head(sending) = sending[1]
          /\ UNCHANGED <<phase, accepted, asked, answered, reasked>>
      BY <2>4, Dequeued DEF send_response, appVars
    <3>2. CASE sending[1].kind = "replay" /\ UNCHANGED <<records, idem, bcast>>
      BY ZenonT(30), <1>2, <3>1, <3>2, SentStep
    <3>3. CASE sending[1].kind # "replay" /\ cacheProcessedResponse(sending[1]) /\ records[sending[1].id] = None
      BY <1>2, <3>1, <3>3, SentStep DEF cacheProcessedResponse
    <3>4. CASE sending[1].kind # "replay" /\ cacheProcessedResponse(sending[1]) /\ records[sending[1].id] # None
      BY ZenonT(30), <1>2, <3>1, <3>4, CacheStep
    <3> QED BY <2>4, <3>1, <3>2, <3>3, <3>4 DEF send_response
  <2>5. CASE handleTransportClose \/ ready_connected
    BY Before, <1>0, <1>2, <2>5, QuietStep DEF handleTransportClose, ready_connected, appVars, Phases
  <2>6. CASE close \/ restore  BY <1>2, <2>6, ClearStep
  <2> QED BY ZenonT(30), <1>2, <2>1, <2>2, <2>3, <2>4, <2>5, <2>6 DEF WalletNext
<1> QED BY <1>1, <1>2

\* RecordsAnswerable, for every dApp, limit and number of saves in flight: no
\* order of frames, refusals, answers, saves, closes and restarts leaves a
\* record in pendingRequestRecords that nothing will remove, and neither cache
\* outgrows its limit or holds an id twice.
THEOREM RecordsAlwaysAnswerable == WalletSpec => []RecordsAnswerable
<1>1. IInv => RecordsAnswerable  BY DEF IInv
<1> QED BY IInvInit, IInvStep, <1>1, PTL DEF WalletSpec

\* ReplaysFaithful: what processRequest replays from a cache is the
\* application's answer to the request that is retried.
THEOREM ReplaysAlwaysFaithful == WalletSpec => []ReplaysFaithful
<1>1. IInv => ReplaysFaithful
  <2> SUFFICES ASSUME IInv, Proper, NEW i \in 1 .. Len(sending), sending[i].kind = "replay"
               PROVE  Entry(sending[i].id, sending[i].params, sending[i].ans) \in answered
    BY DEF ReplaysFaithful, Proper
  <2> QED BY ZenonT(15) DEF IInv, Sourced
<1> QED BY IInvInit, IInvStep, <1>1, PTL DEF WalletSpec

\* NeverRebroadcast: while the session is open a retry never puts an approved
\* transaction before the user again, nor anything else the caches could keep.
THEOREM NeverAskedTwice == WalletSpec => []NeverRebroadcast
<1>1. IInv => NeverRebroadcast  BY DEF IInv
<1> QED BY IInvInit, IInvStep, <1>1, PTL DEF WalletSpec
=============================================================================
