------------------------------ MODULE Counters ------------------------------
(***************************************************************************)
(* The sequence counters of one session object (dapp-session.ts and        *)
(* wallet-session.ts are alike here) within one pairing.  sendSeq is the   *)
(* AEAD nonce of the next sealed frame, recvSeq the highest one accepted.  *)
(* Both are written ahead: nextSendSeq and the receive handlers advance    *)
(* the counter, hand a snapshot to the SessionPersistence adapter and only *)
(* seal or process when the save has resolved.  Several saves may be in    *)
(* flight; the process may die at any point and be restored from the       *)
(* snapshot that is durable by then.                                       *)
(***************************************************************************)
EXTENDS Integers, Sequences

CONSTANTS
    MaxSendSeq,     \* MAX_SEND_SEQ
    RecvSeqs,       \* sequence numbers the peer's frames carry
    MaxInFlight,    \* bound on saves in flight
    FifoSaves,      \* whether the adapter completes saves in the order issued
    None

ASSUME CountersAssumption ==
    /\ MaxSendSeq \in Nat /\ MaxInFlight \in Nat
    /\ RecvSeqs \subseteq Nat
    /\ FifoSaves \in BOOLEAN
    /\ None \notin [send : Nat, recv : Int]

VARIABLES
    proc,       \* the process: up, closed (close() was called), down
    sendSeq,
    recvSeq,
    stable,     \* the durable snapshot, or None
    saves,      \* adapter calls in flight, oldest first: snapshot and continuation
    conts,      \* continuations of resolved saves, in the order they will run
    sealed,     \* history: sequence numbers used to seal a frame
    reused,     \* history: those used again
    handled,    \* history: the peer's sequence numbers whose frame was processed
    replayed,   \* history: those processed again
    rejected    \* history: whether the adapter has rejected a call

mem  == <<sendSeq, recvSeq>>
hist == <<sealed, reused, handled, replayed, rejected>>
vars == <<proc, mem, stable, saves, conts, hist>>

Snapshots == [send : 0 .. MaxSendSeq, recv : Int]

\* Continuations; `prev` is the prevRecvSeq a failed save restores
Seal(n)       == [do |-> "seal", seq |-> n, prev |-> -1]
Process(n, p) == [do |-> "process", seq |-> n, prev |-> p]
NoCont        == [do |-> "nothing", seq |-> 0, prev |-> -1]
Conts         == [do : {"seal", "process", "nothing"}, seq : Nat, prev : Int]

\* Adapter calls; a clear() has no snapshot
Entries == [snap : Snapshots \cup {None}, cont : Conts]

Init ==
    /\ proc = "up"
    /\ sendSeq = 0 /\ recvSeq = -1
    /\ stable = None
    /\ saves = <<>> /\ conts = <<>>
    /\ sealed = {} /\ reused = {} /\ handled = {} /\ replayed = {}
    /\ rejected = FALSE

-----------------------------------------------------------------------------
(* The session *)

save(s, cont) ==
    /\ Len(saves) < MaxInFlight
    /\ saves' = Append(saves, [snap |-> s, cont |-> cont])

\* close(): clearPersistence, whose clear() queues behind the saves.  No
\* continuation is cancelled.
close ==
    /\ proc # "down"
    /\ proc' = "closed"
    /\ save(None, NoCont)
    /\ UNCHANGED <<mem, stable, conts, hist>>

\* Mutant: the snapshot holds the number that is about to be used
nextSendSeq_saves_used ==
    /\ proc # "down"
    /\ \/ /\ sendSeq < MaxSendSeq
          /\ sendSeq' = sendSeq + 1
          /\ save([send |-> sendSeq, recv |-> recvSeq], Seal(sendSeq))
          /\ UNCHANGED <<proc, recvSeq, stable, conts, hist>>
       \/ /\ sendSeq >= MaxSendSeq
          /\ close

\* nextSendSeq for a frame.  Its callers test the phase before, if at all
\* (approve does not), so it may run in a closed session.
nextSendSeq ==
    /\ proc # "down"
    /\ \/ /\ sendSeq < MaxSendSeq
          /\ sendSeq' = sendSeq + 1
          /\ save([send |-> sendSeq + 1, recv |-> recvSeq], Seal(sendSeq))
          /\ UNCHANGED <<proc, recvSeq, stable, conts, hist>>
       \/ /\ sendSeq >= MaxSendSeq
          /\ close

\* Mutant: the snapshot is taken before recvSeq advances
receive_saves_old(seq) ==
    /\ proc = "up"
    /\ seq > recvSeq
    /\ recvSeq' = seq
    /\ save([send |-> sendSeq, recv |-> recvSeq], Process(seq, recvSeq))
    /\ UNCHANGED <<proc, sendSeq, stable, conts, hist>>

\* A frame of the peer, possibly an old one: stale numbers are dropped
receive(seq) ==
    /\ proc = "up"
    /\ seq > recvSeq
    /\ recvSeq' = seq
    /\ save([send |-> sendSeq, recv |-> seq], Process(seq, recvSeq))
    /\ UNCHANGED <<proc, sendSeq, stable, conts, hist>>

\* accept, join and ready save without advancing a counter
persistSnapshot ==
    /\ proc = "up"
    /\ save([send |-> sendSeq, recv |-> recvSeq], NoCont)
    /\ UNCHANGED <<proc, mem, stable, conts, hist>>

\* Mutant: the newest of the resolved saves goes on first
RunContinuation_newest ==
    /\ proc # "down" /\ conts # <<>>
    /\ LET k == conts[Len(conts)]
       IN  \/ /\ k.do = "seal"
              /\ reused' = reused \cup ({k.seq} \cap sealed)
              /\ sealed' = sealed \cup {k.seq}
              /\ UNCHANGED <<handled, replayed>>
           \/ /\ k.do = "process"
              /\ replayed' = replayed \cup ({k.seq} \cap handled)
              /\ handled' = handled \cup {k.seq}
              /\ UNCHANGED <<sealed, reused>>
    /\ conts' = SubSeq(conts, 1, Len(conts) - 1)
    /\ UNCHANGED <<proc, mem, stable, saves, rejected>>

\* The continuation of a resolved save: sealPayload with the reserved number,
\* or the handler's afterPersist
RunContinuation ==
    /\ proc # "down" /\ conts # <<>>
    /\ LET k == Head(conts)
       IN  \/ /\ k.do = "seal"
              /\ reused' = reused \cup ({k.seq} \cap sealed)
              /\ sealed' = sealed \cup {k.seq}
              /\ UNCHANGED <<handled, replayed>>
           \/ /\ k.do = "process"
              /\ replayed' = replayed \cup ({k.seq} \cap handled)
              /\ handled' = handled \cup {k.seq}
              /\ UNCHANGED <<sealed, reused>>
    /\ conts' = Tail(conts)
    /\ UNCHANGED <<proc, mem, stable, saves, rejected>>

-----------------------------------------------------------------------------
(* The adapter (external) and the process *)

\* As in SequencesExt, which with all it extends is too much context for the proofs
RemoveAt(s, i) == SubSeq(s, 1, i - 1) \o SubSeq(s, i + 1, Len(s))

\* A save becomes durable and its promise resolves
SaveDone(i) ==
    /\ i \in 1 .. Len(saves) /\ (FifoSaves => i = 1)
    /\ stable' = saves[i].snap
    /\ conts' = IF proc = "down" \/ saves[i].cont = NoCont THEN conts
                ELSE Append(conts, saves[i].cont)
    /\ saves' = RemoveAt(saves, i)
    /\ UNCHANGED <<proc, mem, hist>>

\* The adapter rejects a call.  After a failed save a receive handler puts
\* recvSeq back and persistenceError closes the session, which queues a
\* clear(); a failed clear() is only reported.
SaveFails(i) ==
    /\ i \in 1 .. Len(saves) /\ (FifoSaves => i = 1)
    /\ proc # "down"
    /\ \/ /\ saves[i].snap = None
          /\ saves' = RemoveAt(saves, i)
          /\ UNCHANGED <<proc, recvSeq>>
       \/ /\ saves[i].snap # None
          /\ saves' = Append(RemoveAt(saves, i), [snap |-> None, cont |-> NoCont])
          /\ proc' = "closed"
          /\ recvSeq' = IF saves[i].cont.do = "process" THEN saves[i].cont.prev
                        ELSE recvSeq
    /\ rejected' = TRUE
    /\ UNCHANGED <<sendSeq, stable, conts, sealed, reused, handled, replayed>>

\* The process dies: memory and promises are gone, issued writes may still land
Crash ==
    /\ proc # "down"
    /\ proc' = "down"
    /\ conts' = <<>>
    /\ \E n \in 0 .. Len(saves) : saves' = SubSeq(saves, 1, n)
    /\ UNCHANGED <<mem, stable, hist>>

\* restore(): a new process loads what is durable
restore ==
    /\ proc = "down" /\ saves = <<>> /\ stable # None
    /\ proc' = "up"
    /\ sendSeq' = stable.send /\ recvSeq' = stable.recv
    /\ UNCHANGED <<stable, saves, conts, hist>>

-----------------------------------------------------------------------------
Next ==
    \/ close
    \/ nextSendSeq
    \/ \E seq \in RecvSeqs : receive(seq)
    \/ persistSnapshot
    \/ RunContinuation
    \/ \E i \in 1 .. Len(saves) : SaveDone(i) \/ SaveFails(i)
    \/ Crash
    \/ restore

Spec == Init /\ [][Next]_vars

-----------------------------------------------------------------------------
(* Properties *)

\* The counters, the durable snapshot and the saves in flight are snapshots of
\* the session; in particular sendSeq never passes MAX_SEND_SEQ.
TypeOK ==
    /\ proc \in {"up", "closed", "down"}
    /\ sendSeq \in 0 .. MaxSendSeq /\ recvSeq \in Int
    /\ stable \in Snapshots \cup {None}
    /\ saves \in Seq(Entries)
    /\ conts \in Seq(Conts \ {NoCont})
    /\ sealed \subseteq Nat /\ reused \subseteq Nat
    /\ handled \subseteq Nat /\ replayed \subseteq Nat
    /\ rejected \in BOOLEAN

\* No sequence number seals two frames of a pairing, over any number of
\* crashes and restores and with any number of saves in flight.
NoNonceReuse == reused = {}

\* No frame of the peer is processed twice, however often it is delivered and
\* whatever crash comes between its acceptance and its processing, as long as
\* the adapter rejects no call: after a rejected save recvSeq is put back to
\* the value before that frame, also when later frames have advanced it.
NoReplay == rejected = FALSE => replayed = {}

\* Frames are sealed in the order of their numbers, also across a restore: a
\* receiver that drops what is not newer than recvSeq loses none of them.
SealedInOrder == [][\A n \in sealed' \ sealed : \A m \in sealed : m < n]_vars
=============================================================================
