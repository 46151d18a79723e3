--------------------------- MODULE WalletRequests ---------------------------
(***************************************************************************)
(* How a WalletSession handles requests (wallet-session.ts): the pending   *)
(* records, the idempotency cache and the broadcast cache that make a      *)
(* retried request safe.  A frame that passed decryption and the replay    *)
(* test (Counters) is processed when the snapshot save it triggered        *)
(* resolves; a response is sealed, sent and cached when the save of its    *)
(* sequence number resolves.  Frames of the peer, answers of the wallet    *)
(* application, closes and drops come in between.  Without a persistence   *)
(* adapter the two steps of each pair happen at once, which is one of the  *)
(* interleavings.                                                          *)
(***************************************************************************)
EXTENDS Naturals, FiniteSets, Sequences

CONSTANTS
    Ids,                \* request ids
    Params,             \* request payloads: method and parameters, by their hash
    MethodOf,           \* the method of a payload; None: missing or not granted
    Setups,             \* what the dApp sends, and the limits it meets
    BroadcastLimit,     \* BROADCAST_CACHE_LIMIT
    None

SendTx == "wallet_sendTransaction"

ASSUME WalletAssumption ==
    /\ Setups \subseteq [frames : SUBSET (Ids \X Params), maxPending : Nat,
                          cacheLimit : Nat, maxInFlight : Nat]
    /\ MethodOf \in [Params -> {SendTx, "wallet_signMessage", None}]
    /\ BroadcastLimit \in Nat
    /\ None \notin Params

VARIABLES
    setup,      \* the setup of this behaviour
    phase,      \* connected, disconnected, closed
    accepted,   \* frames whose snapshot save is in flight
    records,    \* pendingRequestRecords: payload by id, or None
    idem,       \* idempotencyCache in insertion order
    bcast,      \* broadcastResponseCache in insertion order
    sending,    \* responses whose sequence number's save is in flight
    asked,      \* requests emitted to the application and not answered yet
    answered,   \* history: what the application answered in this process life
    reasked     \* history: requests emitted again after a positive answer

sessionVars == <<phase, accepted, records, idem, bcast, sending>>
appVars     == <<asked, answered, reasked>>
walletVars  == <<setup, sessionVars, appVars>>

Frames      == setup.frames         \* the <<id, payload>> pairs the dApp sends
MaxPending  == setup.maxPending     \* MAX_PENDING_REQUESTS
CacheLimit  == setup.cacheLimit     \* IDEMPOTENCY_CACHE_LIMIT
MaxInFlight == setup.maxInFlight    \* bound on saves in flight, of each kind
\* A dApp that keeps the protocol: an id stands for one payload
OnePayloadPerId == \A f, g \in Frames : f[1] = g[1] => f = g
\* Its ids, and those it broadcasts under, against the limits they may meet
FrameIds     == {f[1] : f \in Frames}
BroadcastIds == {f[1] : f \in {g \in Frames : MethodOf[g[2]] = SendTx}}
NeverRateLimited == IsFiniteSet(FrameIds) /\ Cardinality(FrameIds) <= MaxPending
IdemFits         == IsFiniteSet(FrameIds) /\ Cardinality(FrameIds) <= CacheLimit
BroadcastFits    == IsFiniteSet(BroadcastIds) /\ Cardinality(BroadcastIds) <= BroadcastLimit

\* Answers.  Only the size of a result matters to the caches.
Small    == [ok |-> TRUE, data |-> "small"]
Large    == [ok |-> TRUE, data |-> "large"]
Error(c) == [ok |-> FALSE, data |-> c]

Answers == {Small, Large} \cup {Error(c) : c \in {"user_rejected", "invalid_params",
                                                   "unsupported_method", "rate_limited"}}

\* A cached entry; an idempotency entry that was too large has lost its data
Entry(id, p, ans) == [id |-> id, params |-> p, ans |-> ans]
TooLarge(e)       == e.ans = Large

\* A response: of the application, an error of the session, or a replay from a
\* cache.  The first two run cacheProcessedResponse once they are sent.
Response(id, p, ans, kind) == [id |-> id, params |-> p, ans |-> ans, kind |-> kind]

\* Map.has and Map.get: the entry of an id, which no cache holds twice
Has(cache, id)     == \E i \in 1 .. Len(cache) : cache[i].id = id
PlaceOf(cache, id) == CHOOSE i \in 1 .. Len(cache) : cache[i].id = id
Get(cache, id)     == cache[PlaceOf(cache, id)]
\* Map.set: a key that is there keeps its place
Put(cache, e) == IF Has(cache, e.id)
                 THEN [i \in 1 .. Len(cache) |-> IF cache[i].id = e.id THEN e ELSE cache[i]]
                 ELSE Append(cache, e)
\* touchIdempotencyEntry, if there is one: delete and set put it last
touch(id) == LET k == PlaceOf(idem, id)
             IN  IF Has(idem, id)
                 THEN [i \in 1 .. Len(idem) |-> IF i < k THEN idem[i]
                                                ELSE IF i < Len(idem) THEN idem[i + 1] ELSE idem[k]]
                 ELSE idem
\* evictIdempotencyCache, evictBroadcastCache
Evict(cache, limit) == IF Len(cache) > limit
                       THEN SubSeq(cache, Len(cache) - limit + 1, Len(cache)) ELSE cache

NoRecords == [id \in Ids |-> None]
Pending   == {id \in Ids : records[id] # None}

-----------------------------------------------------------------------------
(* Requests *)

\* case 'req': the frame is new and decrypts; its processing waits for the save
req(id, p) ==
    /\ phase = "connected"
    /\ Len(accepted) < MaxInFlight
    /\ accepted' = Append(accepted, <<id, p>>)
    /\ UNCHANGED <<phase, records, idem, bcast, sending, appVars>>

\* sendResponse up to its nextSendSeq
respond(r) ==
    /\ Len(sending) < MaxInFlight
    /\ sending' = Append(sending, r)

refuse(id, p, code) ==
    /\ respond(Response(id, p, Error(code), "error"))
    /\ UNCHANGED <<records, idem, appVars>>

emit_request(id, p) ==
    /\ records' = [records EXCEPT ![id] = p]
    /\ asked' = asked \cup {<<id, p>>}
    /\ reasked' = IF \E a \in answered : a.id = id /\ a.params = p /\ a.ans.ok
                  THEN reasked \cup {<<id, p>>} ELSE reasked
    /\ UNCHANGED <<sending, answered>>

\* Mutant: the limit is tested before the duplicate
process_uncached_limit_first(id, p) ==
    \/ /\ Cardinality(Pending) >= MaxPending
       /\ respond(Response(id, p, Error("rate_limited"), "error"))
       /\ UNCHANGED <<records, appVars>>
    \/ /\ Cardinality(Pending) < MaxPending
       /\ records[id] = p
       /\ UNCHANGED <<records, sending, appVars>>
    \/ /\ Cardinality(Pending) < MaxPending
       /\ records[id] = None
       /\ emit_request(id, p)

\* The part of processRequest after the two caches
process_uncached(id, p) ==
    \/ /\ records[id] # None /\ records[id] # p
       /\ respond(Response(id, p, Error("invalid_params"), "error"))
       /\ UNCHANGED <<records, appVars>>
    \/ /\ records[id] = p
       /\ UNCHANGED <<records, sending, appVars>>
    \/ /\ records[id] = None /\ Cardinality(Pending) >= MaxPending
       /\ respond(Response(id, p, Error("rate_limited"), "error"))
       /\ UNCHANGED <<records, appVars>>
    \/ /\ records[id] = None /\ Cardinality(Pending) < MaxPending
       /\ emit_request(id, p)

\* afterPersist: processRequest, whatever became of the session meanwhile
processRequest ==
    /\ accepted # <<>>
    /\ accepted' = Tail(accepted)
    /\ UNCHANGED <<phase, bcast>>
    /\ LET id == Head(accepted)[1]
           p  == Head(accepted)[2]
       IN  \/ /\ MethodOf[p] = None
              /\ refuse(id, p, "unsupported_method")
           \/ /\ MethodOf[p] # None /\ Has(bcast, id)
              /\ LET e == Get(bcast, id)
                 IN  \/ /\ e.params # p
                        /\ refuse(id, p, "invalid_params")
                     \/ /\ e.params = p
                        /\ respond(Response(id, p, e.ans, "replay"))
                        /\ UNCHANGED <<records, idem, appVars>>
           \/ /\ MethodOf[p] # None /\ ~Has(bcast, id) /\ Has(idem, id)
              /\ Get(idem, id).params # p
              /\ refuse(id, p, "invalid_params")
           \/ /\ MethodOf[p] # None /\ ~Has(bcast, id) /\ Has(idem, id)
              /\ Get(idem, id).params = p /\ ~TooLarge(Get(idem, id))
              /\ idem' = touch(id)
              /\ respond(Response(id, p, Get(idem, id).ans, "replay"))
              /\ UNCHANGED <<records, appVars>>
           \/ /\ MethodOf[p] # None /\ ~Has(bcast, id)
              /\ Has(idem, id) => /\ Get(idem, id).params = p
                                 /\ TooLarge(Get(idem, id))
              /\ idem' = touch(id)
              /\ process_uncached(id, p)

-----------------------------------------------------------------------------
(* Answers *)

\* approve and reject, called once for each request the application was asked
answer(id, p, ans) ==
    /\ <<id, p>> \in asked
    /\ respond(Response(id, p, ans, "app"))
    /\ asked' = asked \ {<<id, p>>}
    /\ answered' = answered \cup {Entry(id, p, ans)}
    /\ UNCHANGED <<phase, accepted, records, idem, bcast, reasked>>

\* Mutant: the record stays
cacheProcessedResponse_keeps(r) ==
    /\ idem' = IF records[r.id] = None THEN idem
               ELSE Evict(Put(idem, Entry(r.id, records[r.id], r.ans)), CacheLimit)
    /\ UNCHANGED <<records, bcast>>
\* Mutant: broadcasts are only kept in the idempotency cache
cacheProcessedResponse_idem(r) ==
    /\ idem' = IF records[r.id] = None THEN idem
               ELSE Evict(Put(idem, Entry(r.id, records[r.id], r.ans)), CacheLimit)
    /\ records' = [records EXCEPT ![r.id] = None]
    /\ UNCHANGED <<bcast>>

\* cacheProcessedResponse, under the record's payload and not the response's
cacheProcessedResponse(r) ==
    \/ /\ records[r.id] = None
       /\ UNCHANGED <<records, idem, bcast>>
    \/ /\ records[r.id] # None
       /\ LET e == Entry(r.id, records[r.id], r.ans)
          IN  /\ idem' = Evict(Put(idem, e), CacheLimit)
              /\ bcast' = IF MethodOf[e.params] = SendTx /\ r.ans.ok
                          THEN Evict(Put(bcast, e), BroadcastLimit) ELSE bcast
       /\ records' = [records EXCEPT ![r.id] = None]

\* The save of a response's number resolves: seal, send, afterSend
send_response ==
    /\ sending # <<>>
    /\ sending' = Tail(sending)
    /\ \/ /\ Head(sending).kind = "replay"
          /\ UNCHANGED <<records, idem, bcast>>
       \/ /\ Head(sending).kind # "replay"
          /\ cacheProcessedResponse(Head(sending))
    /\ UNCHANGED <<phase, accepted, appVars>>

-----------------------------------------------------------------------------
(* The session around them *)

\* The channel drops and is connected again
handleTransportClose ==
    /\ phase = "connected"
    /\ phase' = "disconnected"
    /\ UNCHANGED <<accepted, records, idem, bcast, sending, appVars>>

ready_connected ==
    /\ phase = "disconnected"
    /\ phase' = "connected"
    /\ UNCHANGED <<accepted, records, idem, bcast, sending, appVars>>

\* close(), a close or permanent terminate of the peer, giveUpReconnect
close ==
    /\ phase # "closed"
    /\ phase' = "closed"
    /\ records' = NoRecords /\ idem' = <<>> /\ bcast' = <<>>
    /\ UNCHANGED <<accepted, sending, appVars>>

\* The process dies and a new one is restored: the snapshot has no caches
restore ==
    /\ phase # "closed"
    /\ phase' = "disconnected"
    /\ records' = NoRecords /\ idem' = <<>> /\ bcast' = <<>>
    /\ accepted' = <<>> /\ sending' = <<>>
    /\ asked' = {} /\ answered' = {} /\ reasked' = {}

-----------------------------------------------------------------------------
WalletInit ==
    /\ setup \in Setups
    /\ phase = "connected"
    /\ accepted = <<>> /\ sending = <<>>
    /\ records = NoRecords
    /\ idem = <<>> /\ bcast = <<>>
    /\ asked = {} /\ answered = {} /\ reasked = {}

WalletNext ==
    \/ \E f \in Frames : req(f[1], f[2])
    \/ processRequest
    \/ \E f \in Frames, a \in {Small, Large, Error("user_rejected")} : answer(f[1], f[2], a)
    \/ send_response
    \/ handleTransportClose
    \/ ready_connected
    \/ close
    \/ restore

WalletSpec == WalletInit /\ [][WalletNext /\ UNCHANGED setup]_walletVars

-----------------------------------------------------------------------------
(* Properties *)

Entries   == [id : Ids, params : Params, ans : Answers]
Responses == [id : Ids, params : Params, ans : Answers, kind : {"app", "error", "replay"}]

Distinct(cache) == \A i, j \in 1 .. Len(cache) : cache[i].id = cache[j].id => i = j

\* Records, caches and continuations have their types; neither cache holds an
\* id twice or outgrows its limit
TypeOK ==
    /\ phase \in {"connected", "disconnected", "closed"}
    /\ accepted \in Seq(Frames)
    /\ records \in [Ids -> Params \cup {None}]
    /\ idem \in Seq(Entries) /\ Len(idem) <= CacheLimit
    /\ bcast \in Seq(Entries) /\ Len(bcast) <= BroadcastLimit
    /\ Distinct(idem) /\ Distinct(bcast)
    /\ sending \in Seq(Responses)
    /\ asked \subseteq Frames /\ reasked \subseteq Frames
    /\ answered \subseteq Entries

\* A pending record can still be removed: its request is before the user or its
\* answer is on the way.  A record without either would swallow every retry of
\* the request for ever.  And neither cache outgrows its limit.
RecordsAnswerable ==
    /\ TypeOK
    /\ \A id \in Pending : \/ <<id, records[id]>> \in asked
                           \/ \E i \in 1 .. Len(sending) :
                                 sending[i].id = id /\ sending[i].kind # "replay"

\* What a cache replays for a retried request is what the application
\* answered to that very request, never the answer to another payload.  A
\* refusal for too many pending requests may take the record of a retry
\* (BroadcastsKept), so this is about a dApp that stays below that limit.
ReplaysFaithful ==
    OnePayloadPerId /\ NeverRateLimited => \A i \in 1 .. Len(sending) :
        sending[i].kind = "replay" =>
            Entry(sending[i].id, sending[i].params, sending[i].ans) \in answered

\* Protocol, section 9.1: "Never re-broadcast for a cached req.id".  While the
\* session is open a transaction the user has approved is not put before them
\* again as long as the broadcast cache holds all of them, and nothing else is
\* as long as the idempotency cache holds all of it, unless its result was too
\* large for the cache: however retries, drops, reconnects and unfinished saves
\* interleave and although record and cache entry change hands between two saves.
NeverRebroadcast ==
    OnePayloadPerId /\ NeverRateLimited /\ phase # "closed" =>
        /\ BroadcastFits => \A x \in reasked : MethodOf[x[2]] # SendTx
        /\ IdemFits => \A x \in reasked : Entry(x[1], x[2], Large) \in answered

\* Protocol, section 9.1: "Persist broadcast tx hashes separately (keyed by
\* req.id ...)".  An approved transaction is in the broadcast cache once its
\* response is sent.  Not so in the code for a dApp that was rate limited: the
\* refusal, still waiting for its save, may find the record of a retry, and the
\* approval of that retry is then not cached at all.
BroadcastsKept ==
    OnePayloadPerId /\ BroadcastFits /\ phase # "closed" =>
        \A a \in answered :
            a.ans.ok /\ MethodOf[a.params] = SendTx =>
                \/ Has(bcast, a.id)
                \/ \E i \in 1 .. Len(sending) : sending[i].id = a.id /\ sending[i].kind = "app"
=============================================================================
