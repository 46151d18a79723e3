------------------------------- MODULE Panels -------------------------------
(***************************************************************************)
(* The four playground panels of the web site (EVM and protocol, dApp and  *)
(* wallet): a page that shows one session, buttons that depend on the      *)
(* phase it shows, listeners of every session object it ever made, and a   *)
(* snapshot in localStorage.  An object of the SDK is reduced to what the  *)
(* page can tell apart; its own behaviour is the subject of Session.       *)
(***************************************************************************)
EXTENDS Naturals

CONSTANTS
    Kinds,      \* the panels that are opened: evm_dapp, evm_wallet, dapp, wallet
    Objs,       \* slots (numbers) for session objects that are referenced or still run
    Reqs,       \* request ids; every pairing starts again from req-1
    None

VARIABLES
    kind,       \* which panel this is
    session,    \* the object the page refers to
    phase, shown, prompt, cards,    \* phase, fingerprint, reconnect prompt, pendingReqs
    watch,      \* the effect depends on phase and session: it read them when it last ran
    key,        \* ethAddr is not '--'
    crypto,     \* the curve code is loaded
    approving,  \* approvals that wait for it
    stored,     \* localStorage: no snapshot, a good one, or one without keys
    obj,        \* obj[o]: the session objects
    mixed       \* since the page was loaded an object other than `session' has been running

page == <<shown, cards, key, crypto, approving>>
vars == <<kind, session, phase, prompt, watch, page, stored, obj, mixed>>

EvmWallet == kind = "evm_wallet"
Wallet == kind \in {"evm_wallet", "wallet"}

NoRecords == [r \in Reqs |-> "no"]
Free == [phase |-> "none", busy |-> FALSE, on |-> FALSE, keyed |-> FALSE, over |-> FALSE, recs |-> NoRecords]
\* A new object with the page's listeners
New == [Free EXCEPT !.phase = "idle", !.on = TRUE, !.keyed = TRUE]

Running(x) == x.busy \/ x.phase \in {"waiting", "connected", "disconnected"}
\* A slot for a new object: which one makes no difference
Slots == LET free == {o \in Objs : obj[o] = Free} IN {o \in free : \A p \in free : o <= p}
\* Objects nobody refers to and nothing can wake are collected.
Collected(objs, ses) == [o \in Objs |-> IF o # ses /\ ~Running(objs[o]) THEN Free ELSE objs[o]]

\* A panel is opened for the first time, or on what an earlier visit left.
Init ==
    /\ kind \in Kinds
    /\ session = None /\ phase = "idle" /\ shown = FALSE /\ cards = {}
    /\ key = FALSE /\ crypto = FALSE /\ approving = {}
    /\ stored \in {"none", "good"}
    /\ prompt = (stored # "none") /\ watch = (stored # "none")
    /\ obj = [o \in Objs |-> Free] /\ mixed = FALSE

\* The effect runs again when what it read has changed; it reads phase and
\* session only after it has found a snapshot.
effect(ses, ph, dismissed) ==
    LET runs == watch /\ (ph # phase \/ (phase = "idle" /\ ses # session))
    IN  /\ prompt' = ((prompt /\ ~dismissed)
                      \/ (runs /\ stored' # "none" /\ ph = "idle" /\ ses = None))
        /\ watch' = IF runs THEN stored' # "none" ELSE watch

\* The end of every handler and callback: what the page then refers to and shows
Page(objs, ses, ph, dismissed) ==
    /\ obj' = Collected(objs, ses) /\ session' = ses /\ phase' = ph
    /\ mixed' = (mixed \/ \E o \in Objs \ {ses} : Running(objs[o]))
    /\ effect(ses, ph, dismissed)
    /\ UNCHANGED kind

\* setPhase of object o: the listener, while it is attached, writes the page's phase.
setupSessionEvents(o, x) ==
    Page([obj EXCEPT ![o] = x], session,
         IF x.on /\ x.phase # obj[o].phase THEN x.phase ELSE phase, FALSE)

-----------------------------------------------------------------------------
(* The session objects, as the page sees them. *)

\* transport.connect succeeds: the first one of createPairing or confirmJoin, a
\* reconnect, or one that was in flight when the session was closed.
opens(o) ==
    /\ obj[o].busy
    /\ UNCHANGED <<page, stored>>
    /\ setupSessionEvents(o, [obj[o] EXCEPT !.busy = FALSE, !.phase = "waiting"])

\* It fails: only a session that reconnects tries again.
fails(o) ==
    /\ obj[o].busy /\ obj[o].phase # "disconnected"
    /\ UNCHANGED <<page, stored>>
    /\ setupSessionEvents(o, [obj[o] EXCEPT !.busy = FALSE])

Saved(x) == IF x.keyed THEN "good" ELSE "keyless"

\* The channel is connected; a destroyed wallet object follows the relay's ready too.
connected(o) ==
    /\ obj[o].phase = "waiting" /\ (obj[o].keyed \/ Wallet)
    /\ stored' = Saved(obj[o])
    /\ setupSessionEvents(o, [obj[o] EXCEPT !.phase = "connected"])
    /\ UNCHANGED page

\* The transport is lost: the session reconnects unless it was closed.
lost(o) ==
    /\ obj[o].phase \in {"waiting", "connected"} /\ ~obj[o].over
    /\ UNCHANGED <<page, stored>>
    /\ setupSessionEvents(o, [obj[o] EXCEPT !.phase = "disconnected", !.busy = TRUE])

\* The peer or the relay ends the session.
ended(o) ==
    /\ obj[o].phase \in {"waiting", "connected"}
    /\ stored' = "none"
    /\ setupSessionEvents(o, [obj[o] EXCEPT !.phase = "closed", !.over = TRUE, !.recs = NoRecords])
    /\ UNCHANGED page

\* session.close: an attempt in flight is not cancelled, one that waits for its
\* timer is.
Closed(x) == {[x EXCEPT !.phase = "closed", !.over = TRUE, !.recs = NoRecords, !.busy = b] : b \in {x.busy, FALSE}}

\* A request reaches the wallet: a card, unless the id is known to the object.
createWalletSession(o, r) ==
    /\ Wallet /\ obj[o].phase = "connected" /\ obj[o].keyed /\ obj[o].recs[r] = "no"
    /\ stored' = "good"
    /\ cards' = IF obj[o].on THEN cards \cup {r} ELSE cards
    /\ setupSessionEvents(o, [obj[o] EXCEPT !.recs[r] = "open"])
    /\ UNCHANGED <<shown, key, crypto, approving>>

-----------------------------------------------------------------------------
(* The dApp panels. *)

\* Connect: the button stays while the transport connects.
connecting ==
    /\ phase = "idle"
    /\ UNCHANGED <<page, stored>>
    /\ \E o \in Slots : Page([obj EXCEPT ![o] = [New EXCEPT !.busy = TRUE]], o, phase, TRUE)

connect == kind = "evm_dapp" /\ connecting

connectProtocol == kind = "dapp" /\ connecting

\* A request is sealed, and its number saved, while the session is connected.
sendRequest ==
    /\ ~Wallet /\ phase = "connected" /\ session # None /\ obj[session].phase = "connected"
    /\ stored' = "good"
    /\ Page(obj, session, phase, FALSE)
    /\ UNCHANGED page

\* destroy: close, no listeners any more, no keys; then the page starts again
destroyed(view, kept, dismissed) ==
    /\ stored' = "none"
    /\ shown' = FALSE /\ cards' = kept
    /\ IF session = None THEN Page(obj, None, "idle", dismissed)
       ELSE \E x \in Closed(obj[session]) :
                Page([obj EXCEPT ![session] = [x EXCEPT !.on = FALSE, !.keyed = FALSE]],
                     None, view, dismissed)
    /\ UNCHANGED <<key, crypto, approving>>

resetDApp == kind = "evm_dapp" /\ phase # "idle" /\ destroyed("idle", {}, TRUE)

\* The protocol panel's reset leaves showReconnectPrompt alone.
resetProtocolDApp == kind = "dapp" /\ phase # "idle" /\ destroyed("idle", {}, FALSE)

\* Reconnect: the object emits connected, then disconnected, and tries at once; a
\* snapshot that cannot be restored is dropped.
restored(ok) ==
    /\ prompt /\ phase = "idle"
    /\ \/ /\ ok /\ stored = "good"
          /\ UNCHANGED stored
          /\ \E o \in Slots :
                Page([obj EXCEPT ![o] = [New EXCEPT !.phase = "disconnected", !.busy = TRUE]], o,
                     "disconnected", TRUE)
       \/ /\ ~(ok /\ stored = "good")
          /\ stored' = "none"
          /\ Page(obj, None, phase, TRUE)

reconnectDApp == kind = "evm_dapp" /\ restored(TRUE) /\ UNCHANGED page

reconnectProtocolDApp == kind = "dapp" /\ restored(TRUE) /\ UNCHANGED page

\* New Session, in every panel
dismissReconnect ==
    /\ prompt /\ phase = "idle"
    /\ stored' = "none"
    /\ Page(obj, session, phase, TRUE)
    /\ UNCHANGED page

-----------------------------------------------------------------------------
(* The wallet panels. *)

\* A key that is no key still gets an ethAddr, and needs no curve code.
updateEthKey ==
    /\ EvmWallet /\ ~key /\ key' = TRUE
    /\ UNCHANGED <<shown, cards, crypto, approving, stored>>
    /\ Page(obj, session, phase, FALSE)

\* A new session, and its fingerprint unless the pairing URI is refused
prepared(ok) ==
    /\ phase = "idle" /\ ~shown /\ shown' = ok
    /\ UNCHANGED <<cards, key, crypto, approving, stored>>
    /\ \E o \in Slots : Page([obj EXCEPT ![o] = [New EXCEPT !.keyed = ok]], o, phase, FALSE)

prepareJoinChannel(ok) == EvmWallet /\ key /\ prepared(ok)

prepareProtocol(ok) == kind = "wallet" /\ prepared(ok)

\* A second click while the transport connects is not told apart from the first.
confirmJoinChannel ==
    /\ Wallet /\ phase = "idle" /\ shown
    /\ session # None /\ obj[session].keyed
    /\ UNCHANGED <<page, stored>>
    /\ setupSessionEvents(session, [obj[session] EXCEPT !.busy = TRUE])

\* The wallet's restore also fails when its name or capabilities were edited, and
\* it has no fingerprint to show.
reconnectWallet(ok) ==
    /\ EvmWallet /\ restored(ok)
    /\ shown' = (shown /\ ~(ok /\ stored = "good"))
    /\ UNCHANGED <<cards, key, crypto, approving>>

reconnectProtocolWallet(ok) ==
    /\ kind = "wallet" /\ restored(ok)
    /\ shown' = (shown /\ ~(ok /\ stored = "good"))
    /\ UNCHANGED <<cards, key, crypto, approving>>

\* session.approve or session.reject of the ids R on whatever session is now: the
\* number of a response is saved even when the session is closed.
respond(R) ==
    /\ stored' = IF obj[session].keyed THEN "good" ELSE stored
    /\ cards' = cards \ R
    /\ setupSessionEvents(session,
           [obj[session] EXCEPT !.recs = [r \in Reqs |-> IF r \in R /\ @[r] = "open" THEN "done" ELSE @[r]]])

Asked(r) == Wallet /\ phase = "connected" /\ session # None /\ r \in cards

\* The EVM wallet signs when the curve code is there.
approveRequest(r) ==
    /\ EvmWallet /\ Asked(r)
    /\ \/ /\ crypto /\ respond({r})
          /\ UNCHANGED approving
       \/ /\ ~crypto /\ approving' = approving \cup {r}
          /\ UNCHANGED <<cards, stored>>
          /\ Page(obj, session, phase, FALSE)
    /\ UNCHANGED <<shown, key, crypto>>

\* It is loaded: the approvals, and a key that was being generated, go on, with the
\* session the page has by then.
ensureCrypto ==
    /\ EvmWallet /\ ~crypto /\ (approving # {} \/ ~key)
    /\ crypto' = TRUE /\ approving' = {} /\ key' \in {key, TRUE}
    /\ \/ /\ approving # {} /\ session # None /\ respond(approving)
       \/ /\ approving = {} \/ session = None
          /\ UNCHANGED <<cards, stored>>
          /\ Page(obj, session, phase, FALSE)
    /\ UNCHANGED shown

approveProtocol(r) ==
    /\ kind = "wallet" /\ Asked(r) /\ respond({r})
    /\ UNCHANGED <<shown, key, crypto, approving>>

rejectRequest(r) ==
    /\ Asked(r) /\ respond({r})
    /\ UNCHANGED <<shown, key, crypto, approving>>

pushEvent ==
    /\ Wallet /\ phase = "connected" /\ session # None
    /\ obj[session].phase = "connected" /\ obj[session].keyed
    /\ stored' = "good"
    /\ Page(obj, session, phase, FALSE)
    /\ UNCHANGED page

\* Mutant: the cards are left
reset_keeps_cards == Wallet /\ (phase # "idle" \/ shown) /\ destroyed("idle", cards, TRUE)

\* Reset, or Reject of a fingerprint
reset == Wallet /\ (phase # "idle" \/ shown) /\ destroyed("idle", {}, TRUE)

\* Close, in every panel: the listeners stay.
closeSession ==
    /\ phase = "connected" /\ session # None
    /\ stored' = "none"
    /\ \E x \in Closed(obj[session]) : setupSessionEvents(session, x)
    /\ UNCHANGED page

\* The page is loaded again.
reload ==
    /\ session' = None /\ phase' = "idle" /\ shown' = FALSE /\ cards' = {}
    /\ key' = FALSE /\ crypto' = FALSE /\ approving' = {}
    /\ obj' = [o \in Objs |-> Free] /\ mixed' = FALSE
    /\ prompt' = (stored # "none") /\ watch' = (stored # "none")
    /\ UNCHANGED <<kind, stored>>

-----------------------------------------------------------------------------
Object(o) ==
    \/ opens(o) \/ fails(o) \/ connected(o) \/ lost(o) \/ ended(o)
    \/ \E r \in Reqs : createWalletSession(o, r)

DAppPanel ==
    \/ connect \/ connectProtocol \/ sendRequest \/ resetDApp \/ resetProtocolDApp
    \/ reconnectDApp \/ reconnectProtocolDApp

WalletPanel ==
    \/ updateEthKey \/ ensureCrypto \/ confirmJoinChannel \/ pushEvent \/ reset
    \/ \E ok \in BOOLEAN : prepareJoinChannel(ok) \/ prepareProtocol(ok)
                           \/ reconnectWallet(ok) \/ reconnectProtocolWallet(ok)
    \/ \E r \in Reqs : approveRequest(r) \/ approveProtocol(r) \/ rejectRequest(r)

Next ==
    \/ \E o \in Objs : Object(o)
    \/ DAppPanel \/ WalletPanel \/ dismissReconnect \/ closeSession \/ reload

Spec == Init /\ [][Next]_vars

-----------------------------------------------------------------------------
\* Every variable has its type, and no approval waits for code that is loaded
TypeOK ==
    /\ kind \in Kinds /\ session \in Objs \cup {None}
    /\ phase \in {"idle", "waiting", "connected", "disconnected", "closed"}
    /\ {shown, prompt, watch, key, crypto, mixed} \subseteq BOOLEAN
    /\ cards \subseteq Reqs /\ approving \subseteq (IF crypto THEN {} ELSE Reqs)
    /\ stored \in {"none", "good", "keyless"}
    /\ obj \in [Objs -> [phase : {"none", "idle", "waiting", "connected", "disconnected", "closed"},
                         busy : BOOLEAN, on : BOOLEAN, keyed : BOOLEAN, over : BOOLEAN,
                         recs : [Reqs -> {"no", "open", "done"}]]]

\* As long as one object runs at a time, the page shows the phase its session is in,
\* and idle when it has none: close, destroy and restore emit while the handlers of
\* PlaygroundDApp and PlaygroundWallet rewrite the same variables around them.
ViewFollows ==
    ~mixed => phase = IF session = None THEN "idle" ELSE obj[session].phase

\* As long as one object runs at a time, every card on a connected wallet panel is a
\* request its session still has to answer, whatever was reset, restored or approved
\* late: ids start again from req-1 in every pairing, so a card that outlives its
\* session would answer another request.
CardsAnswerable ==
    ~mixed /\ phase = "connected" => \A r \in cards : obj[session].recs[r] = "open"

\* As long as one object runs at a time, the page offers to reconnect only while
\* localStorage holds a snapshot to reconnect with.
OfferBacked == ~mixed /\ prompt /\ phase = "idle" => stored # "none"
=============================================================================
