------------------------------ MODULE MCRelay ------------------------------
(***************************************************************************)
(* The Rust relay for TLC: a behaviour is one of a channel and its clients *)
(* (RelayChannel) or one of the global channel counter (RelayCapacity).    *)
(***************************************************************************)
EXTENDS RelayChannel, RelayCapacity, TLC

CONSTANTS d1, d2, w1, w2, D, W, V                                   \* clients
CONSTANTS c1, c2, c3                                                \* channels

VARIABLE part       \* what this behaviour is about

-----------------------------------------------------------------------------
(* Which client opens which connection, and what the clients send *)

\* a dApp that reconnects, and two wallets
TwoWallets == [c \in Conns |-> ((d1 :> D) @@ (d2 :> D) @@ (w1 :> W) @@ (w2 :> V))[c]]

Setup(conns, types, stateFile, mayStop) ==
    [conns |-> conns, types |-> types, stateFile |-> stateFile, mayStop |-> mayStop]
Entering  == {"create", "join", "accept"}
\* A second wallet and a dApp that reconnects, in a process that stays up
Handshake == Setup(Conns, Entering, TRUE, FALSE)
\* One wallet, and a process that stops, crashes and loads its state file
Restarts  == Setup(Conns \ {w2}, Entering, TRUE, TRUE)
\* Two clients that use the channel until it ends, without a state file
Traffic   == Setup({d1, w1}, Entering \cup {"req", "res", "ping", "close"}, FALSE, TRUE)
AllSetups == {Handshake, Restarts, Traffic}

\* c1 and c2 share a shard, c3 has its own
TwoShards == [ch \in Channels |-> IF ch = c3 THEN 2 ELSE 1]

-----------------------------------------------------------------------------
RelayInit ==
    /\ Init /\ CapacityInit
    /\ part \in {"channel", "counter"}
    /\ part = "counter" => setup = Traffic

RelayNext ==
    /\ \/ part = "channel" /\ Next /\ UNCHANGED capacityVars
       \/ part = "counter" /\ CapacityNext /\ UNCHANGED vars
    /\ UNCHANGED <<part, setup>>

RelaySpec == RelayInit /\ [][RelayNext]_<<vars, setup, capacityVars, part>>

\* The relay never looks into a queue: only the lengths count
View == <<part, capacityVars, setup, chan, task, deaf, notices, file, stage,
          [c \in Conns |-> Len(outq[c])]>>

=============================================================================
