-------------------------- MODULE MCWalletRequests --------------------------
(* Instances of WalletRequests for TLC. *)
EXTENDS WalletRequests, TLC

CONSTANTS tx, sig, bad

Methods == [p \in Params |-> ((tx :> SendTx) @@ (sig :> "wallet_signMessage") @@ (bad :> None))[p]]

\* A dApp that retries: every id has one payload
Retries == {<<1, tx>>, <<2, sig>>}
\* A dApp that also reuses an id for another payload
Reuses == {<<1, tx>>, <<1, sig>>, <<2, bad>>, <<2, sig>>}

Setup(frames, pending, cache, saves) ==
    [frames |-> frames, maxPending |-> pending, cacheLimit |-> cache, maxInFlight |-> saves]
RetriesAndReuses == {Setup(Retries, 2, 2, 2), Setup(Retries, 2, 1, 2), Setup(Reuses, 1, 1, 1)}
\* A dApp that meets the limit on pending requests
Limited == {Setup(Retries, 1, 2, 2)}

\* Only the properties of a dApp that keeps to one payload per id read the
\* histories, and no action does
SessionView == <<setup, sessionVars, asked, IF OnePayloadPerId THEN <<answered, reasked>> ELSE <<>>>>
=============================================================================
