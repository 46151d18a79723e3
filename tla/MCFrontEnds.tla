---------------------------- MODULE MCFrontEnds ----------------------------
(***************************************************************************)
(* The requests of a wallet session and the two kinds of front end side by *)
(* side: a behaviour is one of the session's request handling, one of the  *)
(* mobile wallet's screen or one of a playground panel.                    *)
(***************************************************************************)
EXTENDS MCWalletRequests

CONSTANTS Sessions, Sockets, MaxSeq, NoWrite, Kinds, Objs, Reqs

VARIABLES
    part,       \* which of the three this behaviour is about
    view,       \* what the front end shows
    intentionalClose, ses, cnt, ws, wsRef, timer, stray, requests, uri, disk, saves,
    kind, session, shown, prompt, watch, cards, key, crypto, approving, stored, obj, mixed

appOnly == <<intentionalClose, ses, cnt, ws, wsRef, timer, stray, requests, uri, disk, saves>>
panelOnly == <<kind, session, shown, prompt, watch, cards, key, crypto, approving, stored, obj, mixed>>
vars == <<part, view, appOnly, panelOnly, walletVars>>

App == INSTANCE MobileWallet WITH phase <- view
Panel == INSTANCE Panels WITH phase <- view

NoApp ==
    /\ intentionalClose = None /\ ses = None /\ cnt = None /\ ws = None /\ wsRef = None /\ timer = None
    /\ stray = None /\ requests = None /\ uri = None /\ disk = None /\ saves = None

NoPanel ==
    /\ kind = None /\ session = None /\ shown = None /\ prompt = None /\ watch = None /\ cards = None
    /\ key = None /\ crypto = None /\ approving = None /\ stored = None /\ obj = None /\ mixed = None

NoRequests == WalletInit /\ setup = CHOOSE s \in Setups : TRUE

Init ==
    \/ part = "requests" /\ WalletInit /\ view = None /\ NoApp /\ NoPanel
    \/ part = "app" /\ App!Init /\ NoPanel /\ NoRequests
    \/ part = "panel" /\ Panel!Init /\ NoApp /\ NoRequests

Next ==
    \/ part = "requests" /\ WalletNext /\ UNCHANGED <<part, setup, view, appOnly, panelOnly>>
    \/ part = "app" /\ App!Next /\ UNCHANGED <<part, panelOnly, walletVars>>
    \/ part = "panel" /\ Panel!Next /\ UNCHANGED <<part, appOnly, walletVars>>

Spec == Init /\ [][Next]_vars

PartView == <<part, view, appOnly, panelOnly, SessionView>>

\* MobileWallet!NumbersSaved: sendResponse and pushEvent hand every number they use to
\* saveSessionData, so a restart can only lose writes that were under way.
AppNumbersSaved == part = "app" => App!NumbersSaved

\* What the mobile wallet shows is backed: a screen that says it is reconnecting has a
\* timer or a socket that will take it further (MobileWallet!ReconnectArmed), and the
\* prompts were asked by the session that the answer goes to (RequestsCurrent), whatever
\* order the sockets' callbacks run in.
AppScreenBacked == part = "app" => App!TypeOK /\ App!ReconnectArmed /\ App!RequestsCurrent

\* What a playground panel shows is backed, while one session object runs at a time: it
\* shows the phase its session is in (Panels!ViewFollows), every card is a request that
\* session still has to answer (CardsAnswerable), and it offers to reconnect only with a
\* snapshot in localStorage (OfferBacked).
PanelBacked ==
    part = "panel" => Panel!TypeOK /\ Panel!ViewFollows /\ Panel!CardsAnswerable /\ Panel!OfferBacked
=============================================================================
