------------------------------ MODULE MCPairing ------------------------------
EXTENDS Pairing, TLC

CONSTANTS w1, w2

\* On the Rust relay w1 is a wallet of the SDK and w2 the mobile app; the worker
\* turns the app away, whose URL has no channel, and both are wallets of the SDK.
Setup(auto, relay, requires, c2) ==
    [auto |-> auto, relay |-> relay, requires |-> requires,
     apps |-> IF relay = "rust" THEN {w2} ELSE {},
     caps |-> (w1 :> "wide" @@ w2 :> c2)]

AllSetups == {Setup(TRUE, "rust", FALSE, "narrow"), Setup(FALSE, "rust", TRUE, "narrow"),
              Setup(FALSE, "cf", FALSE, "wide"), Setup(TRUE, "cf", FALSE, "narrow")}
=============================================================================
