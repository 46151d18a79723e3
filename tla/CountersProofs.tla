--------------------------- MODULE CountersProofs ---------------------------
(***************************************************************************)
(* Proofs about Counters, for every limit, every set of received numbers   *)
(* and any number of saves in flight: first the sending half (nonces),     *)
(* then the receiving half (replays).                                      *)
(***************************************************************************)
EXTENDS Counters, SequenceTheorems, TLAPS

\* Time for the slower leaves
USE SMTT(30), ZenonT(30)

-----------------------------------------------------------------------------
(* The inductive invariant.  A snapshot on its way to the store, the one   *)
(* in the store and the counters in memory form an ascending chain, and    *)
(* every number that was used, or that a resolved save has released for    *)
(* use, lies below all of the chain.  Lo is the part of the chain that was *)
(* reached before the entry's own number was reserved.                     *)

IsSeal(k)    == k.do = "seal"
IsProcess(k) == k.do = "process"

LoSend(e) == IF IsSeal(e.cont) THEN e.cont.seq ELSE e.snap.send
LoRecv(e) == IF IsProcess(e.cont) THEN e.cont.seq - 1 ELSE e.snap.recv

EntryOK(e) ==
    /\ IsSeal(e.cont) => e.snap # None /\ e.snap.send = e.cont.seq + 1
    /\ IsProcess(e.cont) => e.snap # None /\ e.snap.recv = e.cont.seq

\* n was used to seal, or is about to be
SendUsed(n) == n \in sealed \/ \E a \in 1 .. Len(conts) :
                                  IsSeal(conts[a]) /\ conts[a].seq = n

SendInv ==
    /\ \A i \in 1 .. Len(saves) : EntryOK(saves[i])
    /\ \A i, j \in 1 .. Len(saves) :
          i < j /\ saves[i].snap # None /\ saves[j].snap # None
             => saves[i].snap.send <= LoSend(saves[j])
    /\ \A i \in 1 .. Len(saves) : saves[i].snap # None =>
          /\ stable # None => stable.send <= LoSend(saves[i])
          /\ proc # "down" => saves[i].snap.send <= sendSeq
    /\ proc # "down" /\ stable # None => stable.send <= sendSeq
    /\ proc = "down" => conts = <<>>

UsedInv ==
    /\ \A n \in Nat : SendUsed(n) =>
          /\ \A i \in 1 .. Len(saves) : saves[i].snap # None => n < LoSend(saves[i])
          /\ stable # None => n < stable.send
          /\ proc # "down" => n < sendSeq
    /\ \A a, b \in 1 .. Len(conts) :
          a < b /\ IsSeal(conts[a]) /\ IsSeal(conts[b]) => conts[a].seq < conts[b].seq
    /\ \A a \in 1 .. Len(conts) : \A n \in sealed :
          IsSeal(conts[a]) => n < conts[a].seq
    /\ reused = {}

RecvUsed(n) == n \in handled \/ \E a \in 1 .. Len(conts) :
                                   IsProcess(conts[a]) /\ conts[a].seq = n

RecvInv ==
    /\ \A i, j \in 1 .. Len(saves) :
          i < j /\ saves[i].snap # None /\ saves[j].snap # None
             => saves[i].snap.recv <= LoRecv(saves[j])
    /\ \A i \in 1 .. Len(saves) : saves[i].snap # None =>
          /\ stable # None => stable.recv <= LoRecv(saves[i])
          /\ proc # "down" => saves[i].snap.recv <= recvSeq
    /\ proc # "down" /\ stable # None => stable.recv <= recvSeq

HandledInv ==
    /\ \A n \in Nat : RecvUsed(n) =>
          /\ \A i \in 1 .. Len(saves) : saves[i].snap # None => n <= LoRecv(saves[i])
          /\ stable # None => n <= stable.recv
          /\ proc # "down" => n <= recvSeq
    /\ \A a, b \in 1 .. Len(conts) :
          a < b /\ IsProcess(conts[a]) /\ IsProcess(conts[b])
             => conts[a].seq < conts[b].seq
    /\ \A a \in 1 .. Len(conts) : \A n \in handled :
          IsProcess(conts[a]) => n < conts[a].seq
    /\ replayed = {}

-----------------------------------------------------------------------------
(* Sequences *)

LEMMA RemoveAtType ==
    ASSUME NEW S, NEW s \in Seq(S), NEW i \in 1 .. Len(s)
    PROVE  RemoveAt(s, i) \in Seq(S)
<1>1. SubSeq(s, 1, i - 1) \in Seq(S) /\ SubSeq(s, i + 1, Len(s)) \in Seq(S)
    OBVIOUS
<1> QED
    BY <1>1, ConcatProperties DEF RemoveAt

LEMMA RemoveHead ==
    ASSUME NEW S, NEW s \in Seq(S), Len(s) > 0
    PROVE  /\ RemoveAt(s, 1) = Tail(s)
           /\ Tail(s) \in Seq(S)
           /\ Len(Tail(s)) = Len(s) - 1
           /\ \A j \in 1 .. Len(s) - 1 : Tail(s)[j] = s[j + 1]
<1>1. s # << >>
    BY EmptySeq
<1>2. SubSeq(s, 1, 0) = << >>
    BY SubSeqEmpty
<1>3. SubSeq(s, 2, Len(s)) = Tail(s) /\ Tail(s) \in Seq(S)
    BY <1>1, TailIsSubSeq, HeadTailProperties
<1>4. <<>> \o Tail(s) = Tail(s)
    BY <1>3, ConcatEmptySeq
<1>5. RemoveAt(s, 1) = SubSeq(s, 1, 0) \o SubSeq(s, 2, Len(s))
    BY DEF RemoveAt
<1>6. RemoveAt(s, 1) = Tail(s)
    BY ZenonT(30), <1>2, <1>3, <1>4, <1>5
<1>7. Len(Tail(s)) = Len(s) - 1 /\ \A j \in 1 .. Len(Tail(s)) : Tail(s)[j] = s[j + 1]
    BY <1>1, HeadTailProperties
<1> QED
    BY <1>3, <1>6, <1>7

-----------------------------------------------------------------------------
(* Type correctness *)

LEMMA ContTypes ==
    /\ NoCont \in Conts /\ NoCont.do = "nothing"
    /\ \A n \in Nat : Seal(n) \in Conts \ {NoCont}
    /\ \A n \in Nat, p \in Int : Process(n, p) \in Conts \ {NoCont}
BY DEF NoCont, Seal, Process, Conts

LEMMA EntryTypes ==
    /\ [snap |-> None, cont |-> NoCont] \in Entries
    /\ \A n \in 0 .. MaxSendSeq, m \in Int, k \in Conts :
          [snap |-> [send |-> n, recv |-> m], cont |-> k] \in Entries
    /\ \A e \in Entries : /\ e.snap # None => e.snap.send \in Nat /\ e.snap.recv \in Int
                          /\ e.snap \in Snapshots \cup {None}
                          /\ e.cont \in Conts
                          /\ e.cont.seq \in Nat /\ e.cont.prev \in Int
<1>1. [snap |-> None, cont |-> NoCont] \in Entries
    BY ContTypes DEF Entries
<1>2. \A n \in 0 .. MaxSendSeq, m \in Int, k \in Conts :
          [snap |-> [send |-> n, recv |-> m], cont |-> k] \in Entries
    BY DEF Entries, Snapshots
<1>3. ASSUME NEW e \in Entries
      PROVE  /\ e.snap # None => e.snap.send \in Nat /\ e.snap.recv \in Int
             /\ e.snap \in Snapshots \cup {None}
             /\ e.cont \in Conts
             /\ e.cont.seq \in Nat /\ e.cont.prev \in Int
  <2>1. e.snap \in Snapshots \cup {None} /\ e.cont \in Conts
    BY DEF Entries
  <2>2. e.snap \in Snapshots => e.snap.send \in Nat /\ e.snap.recv \in Int
    BY DEF Snapshots
  <2>3. e.cont.seq \in Nat /\ e.cont.prev \in Int
    BY <2>1 DEF Conts
  <2> QED BY <2>1, <2>2, <2>3
<1> QED BY <1>1, <1>2, <1>3

LEMMA TypeStep == TypeOK /\ [Next]_vars => TypeOK'
<1> SUFFICES ASSUME TypeOK, [Next]_vars PROVE TypeOK'
    OBVIOUS
<1> USE DEF TypeOK
<1>1. CASE close
    BY <1>1, EntryTypes, AppendProperties DEF close, save, mem, hist
<1>2. CASE nextSendSeq
  <2>0. MaxSendSeq \in Nat
    BY CountersAssumption
  <2>1. CASE sendSeq < MaxSendSeq
    <3>1. sendSeq + 1 \in 0 .. MaxSendSeq /\ Seal(sendSeq) \in Conts
      BY <2>0, <2>1, ContTypes
    <3>2. [snap |-> [send |-> sendSeq + 1, recv |-> recvSeq], cont |-> Seal(sendSeq)] \in Entries
      BY ZenonT(30), <3>1, EntryTypes
    <3>3. Append(saves, [snap |-> [send |-> sendSeq + 1, recv |-> recvSeq],
                         cont |-> Seal(sendSeq)]) \in Seq(Entries)
      BY <3>2, AppendProperties
    <3>4. /\ sendSeq' = sendSeq + 1
          /\ saves' = Append(saves, [snap |-> [send |-> sendSeq + 1, recv |-> recvSeq],
                                     cont |-> Seal(sendSeq)])
          /\ UNCHANGED <<proc, recvSeq, stable, conts, hist>>
      BY <1>2, <2>0, <2>1 DEF nextSendSeq, save
    <3> QED
      BY <3>1, <3>3, <3>4 DEF hist
  <2>2. CASE ~(sendSeq < MaxSendSeq)
    BY <1>1, <1>2, <2>2 DEF nextSendSeq
  <2> QED BY <2>1, <2>2
<1>3. ASSUME NEW seq \in RecvSeqs, receive(seq) PROVE TypeOK'
    BY <1>3, EntryTypes, ContTypes, AppendProperties, CountersAssumption
       DEF receive, save, hist
<1>4. CASE persistSnapshot
    BY ZenonT(30), <1>4, EntryTypes, ContTypes, AppendProperties DEF persistSnapshot, save, mem, hist
<1>5. CASE RunContinuation
  <2>1. Head(conts) \in Conts /\ Tail(conts) \in Seq(Conts \ {NoCont})
    BY <1>5, HeadTailProperties DEF RunContinuation
  <2>2. Head(conts).seq \in Nat
    BY <2>1 DEF Conts
  <2> QED
    BY ZenonT(30), <1>5, <2>1, <2>2 DEF RunContinuation, mem, hist
<1>6. ASSUME NEW i \in 1 .. Len(saves), SaveDone(i) PROVE TypeOK'
  <2>1. RemoveAt(saves, i) \in Seq(Entries) /\ saves[i] \in Entries
    BY RemoveAtType
  <2>2. saves[i].snap \in Snapshots \cup {None} /\ saves[i].cont \in Conts
    BY <2>1, EntryTypes
  <2>3. conts' \in Seq(Conts \ {NoCont})
    BY <1>6, <2>2, AppendProperties DEF SaveDone
  <2> QED
    BY <1>6, <2>1, <2>2, <2>3 DEF SaveDone, mem, hist
<1>7. ASSUME NEW i \in 1 .. Len(saves), SaveFails(i) PROVE TypeOK'
  <2>1. RemoveAt(saves, i) \in Seq(Entries) /\ saves[i] \in Entries
    BY RemoveAtType
  <2>2. saves[i].cont.prev \in Int
    BY <2>1, EntryTypes
  <2>3. saves' \in Seq(Entries)
    <3>1. [snap |-> None, cont |-> NoCont] \in Entries
      BY EntryTypes
    <3>2. Append(RemoveAt(saves, i), [snap |-> None, cont |-> NoCont]) \in Seq(Entries)
      BY <2>1, <3>1, AppendProperties
    <3> QED
      BY ZenonT(30), <1>7, <2>1, <3>2 DEF SaveFails
  <2>4. proc' \in {"up", "closed", "down"} /\ recvSeq' \in Int
    BY <1>7, <2>2 DEF SaveFails
  <2> QED
    BY <1>7, <2>3, <2>4 DEF SaveFails, hist
<1>8. CASE Crash
  <2>1. PICK n \in 0 .. Len(saves) : saves' = SubSeq(saves, 1, n)
    BY <1>8 DEF Crash
  <2>2. saves' \in Seq(Entries)
    BY <2>1, SubSeqProperties
  <2> QED
    BY <1>8, <2>2 DEF Crash, mem, hist
<1>9. CASE restore
    BY <1>9 DEF restore, hist, Snapshots
<1>10. CASE UNCHANGED vars
    BY <1>10 DEF vars, mem, hist
<1> QED
    BY <1>1, <1>2, <1>3, <1>4, <1>5, <1>6, <1>7, <1>8, <1>9, <1>10 DEF Next

LEMMA TypeInit == Init => TypeOK
<1> SUFFICES ASSUME Init PROVE TypeOK
    OBVIOUS
<1>1. rejected \in BOOLEAN
    BY Zenon DEF Init
<1>2. /\ proc \in {"up", "closed", "down"}
      /\ sendSeq \in 0 .. MaxSendSeq /\ recvSeq \in Int
      /\ stable \in Snapshots \cup {None}
      /\ saves \in Seq(Entries)
      /\ conts \in Seq(Conts \ {NoCont})
      /\ sealed \subseteq Nat /\ reused \subseteq Nat
      /\ handled \subseteq Nat /\ replayed \subseteq Nat
    BY CountersAssumption DEF Init
<1> QED BY <1>1, <1>2 DEF TypeOK

\* Every reachable state of the counters, the store and the adapter's queue is
\* well typed; in particular sendSeq stays within MAX_SEND_SEQ.
THEOREM TypeCorrect == Spec => []TypeOK
<1> QED
    BY TypeInit, TypeStep, PTL DEF Spec

-----------------------------------------------------------------------------
(* No number seals twice.  An adapter call is issued (SendPush), completes  *)
(* (SendDone), or is lost to a failure or a crash (SendCut); the other      *)
(* steps leave the chain alone.                                             *)

IInv == TypeOK /\ SendInv /\ UsedInv

LEMMA SendPush ==
    ASSUME IInv, NEW e \in Entries,
           EntryOK(e),
           e.snap # None => LoSend(e) = sendSeq /\ e.snap.send <= sendSeq',
           saves' = Append(saves, e),
           sendSeq' \in Nat, sendSeq <= sendSeq',
           proc # "down", proc' # "down",
           UNCHANGED <<stable, conts, sealed, reused>>
    PROVE  SendInv' /\ UsedInv'
<1> USE DEF IInv
<1>1. /\ Len(saves') = Len(saves) + 1 /\ Len(saves) \in Nat
      /\ \A i \in 1 .. Len(saves) : saves'[i] = saves[i] /\ saves[i] \in Entries
      /\ saves'[Len(saves) + 1] = e
    BY AppendProperties, LenProperties DEF TypeOK
<1>2. sendSeq \in Nat
    BY CountersAssumption DEF TypeOK
<1>3. \A x \in Entries : x.snap # None => x.snap.send \in Nat /\ LoSend(x) \in Nat
    BY EntryTypes DEF LoSend
<1>4. SendInv'
  <2>1. \A i \in 1 .. Len(saves') : EntryOK(saves'[i])
    BY <1>1 DEF SendInv
  <2>2. \A i, j \in 1 .. Len(saves') :
          i < j /\ saves'[i].snap # None /\ saves'[j].snap # None
             => saves'[i].snap.send <= LoSend(saves'[j])
    BY <1>1 DEF SendInv
  <2>3. \A i \in 1 .. Len(saves') : saves'[i].snap # None =>
          /\ stable # None => stable.send <= LoSend(saves'[i])
          /\ saves'[i].snap.send <= sendSeq'
    BY <1>1, <1>2, <1>3 DEF SendInv
  <2>4. stable # None => stable.send <= sendSeq'
    BY <1>2 DEF SendInv, TypeOK, Snapshots
  <2> QED BY <2>1, <2>2, <2>3, <2>4 DEF SendInv, EntryOK, LoSend, IsSeal, IsProcess
<1>5. UsedInv'
  <2>1. ASSUME NEW n \in Nat, SendUsed(n)'
        PROVE  /\ \A i \in 1 .. Len(saves') : saves'[i].snap # None => n < LoSend(saves'[i])
               /\ stable # None => n < stable.send
               /\ n < sendSeq'
    <3>1. SendUsed(n)
      BY <2>1 DEF SendUsed
    <3> QED
      BY <1>1, <1>2, <3>1 DEF UsedInv
  <2> QED BY <2>1 DEF UsedInv, LoSend, IsSeal
<1> QED BY <1>4, <1>5

\* What the store's queue looks like after its head has left
LEMMA Pop ==
    ASSUME TypeOK, NEW t, t = RemoveAt(saves, 1), Len(saves) > 0
    PROVE  /\ t \in Seq(Entries) /\ Len(t) = Len(saves) - 1 /\ Len(saves) \in Nat
           /\ \A j \in 1 .. Len(t) : t[j] = saves[j + 1] /\ j + 1 \in 1 .. Len(saves)
           /\ saves[1] \in Entries
           /\ \A j \in 1 .. Len(saves) : saves[j] \in Entries
<1>1. saves \in Seq(Entries) /\ Len(saves) \in Nat
    BY LenProperties DEF TypeOK
<1>2. /\ t = Tail(saves) /\ t \in Seq(Entries) /\ Len(t) = Len(saves) - 1
      /\ \A j \in 1 .. Len(saves) - 1 : t[j] = saves[j + 1]
    BY <1>1, RemoveHead
<1>3. \A j \in 1 .. Len(saves) : saves[j] \in Entries
    BY <1>1
<1> QED BY <1>1, <1>2, <1>3

LEMMA SendDone ==
    ASSUME IInv, FifoSaves, NEW i \in 1 .. Len(saves), SaveDone(i)
    PROVE  SendInv' /\ UsedInv'
<1> USE DEF IInv
<1> DEFINE e == saves[1]
<1>1. /\ i = 1 /\ saves' = RemoveAt(saves, 1) /\ Len(saves) > 0
      /\ stable' = e.snap /\ proc' = proc /\ UNCHANGED <<sendSeq, sealed, reused>>
      /\ conts' = IF proc = "down" \/ e.cont = NoCont THEN conts ELSE Append(conts, e.cont)
    BY LenProperties DEF SaveDone, mem, hist, TypeOK
<1>2. /\ Len(saves') = Len(saves) - 1 /\ Len(saves) \in Nat
      /\ \A j \in 1 .. Len(saves') : saves'[j] = saves[j + 1] /\ j + 1 \in 1 .. Len(saves)
      /\ e \in Entries /\ 1 \in 1 .. Len(saves)
      /\ \A j \in 1 .. Len(saves) : saves[j] \in Entries
    BY <1>1, Pop
<1>3. \A x \in Entries : x.snap # None => x.snap.send \in Nat /\ LoSend(x) \in Nat
    BY EntryTypes DEF LoSend
<1>4. EntryOK(e) /\ sendSeq \in Nat /\ e.cont.seq \in Nat
    BY <1>2, EntryTypes, CountersAssumption DEF SendInv, TypeOK
<1>5. SendInv'
  <2>1. \A j \in 1 .. Len(saves') : EntryOK(saves'[j])
    BY <1>2 DEF SendInv
  <2>2. \A j, k \in 1 .. Len(saves') :
          j < k /\ saves'[j].snap # None /\ saves'[k].snap # None
             => saves'[j].snap.send <= LoSend(saves'[k])
    BY <1>2 DEF SendInv
  <2>3. \A j \in 1 .. Len(saves') : saves'[j].snap # None =>
          /\ e.snap # None => e.snap.send <= LoSend(saves'[j])
          /\ proc # "down" => saves'[j].snap.send <= sendSeq
    BY <1>2 DEF SendInv
  <2>4. proc # "down" /\ e.snap # None => e.snap.send <= sendSeq
    BY <1>2 DEF SendInv
  <2>5. proc = "down" => conts' = << >>
    BY <1>1 DEF SendInv
  <2> QED BY <1>1, <2>1, <2>2, <2>3, <2>4, <2>5 DEF SendInv, EntryOK, LoSend, IsSeal, IsProcess
<1>6. CASE conts' = conts
  <2>1. ASSUME NEW n \in Nat, SendUsed(n)'
        PROVE  /\ \A j \in 1 .. Len(saves') : saves'[j].snap # None => n < LoSend(saves'[j])
               /\ e.snap # None => n < e.snap.send
               /\ proc # "down" => n < sendSeq
    <3>1. SendUsed(n)
      BY <1>1, <1>6, <2>1 DEF SendUsed
    <3>2. e.snap # None => LoSend(e) <= e.snap.send
      BY <1>2, <1>3, <1>4 DEF LoSend, EntryOK
    <3> QED
      BY <1>2, <1>3, <3>1, <3>2 DEF UsedInv
  <2>2. ASSUME NEW n \in Nat, SendUsed(n)'
        PROVE  /\ \A j \in 1 .. Len(saves') : saves'[j].snap # None => n < LoSend(saves'[j])
               /\ stable' # None => n < stable'.send
               /\ proc' # "down" => n < sendSeq'
    BY <1>1, <2>1, <2>2
  <2>3. /\ \A a, b \in 1 .. Len(conts') :
             a < b /\ IsSeal(conts'[a]) /\ IsSeal(conts'[b]) => conts'[a].seq < conts'[b].seq
        /\ \A a \in 1 .. Len(conts') : \A n \in sealed' :
             IsSeal(conts'[a]) => n < conts'[a].seq
        /\ reused' = {}
    BY <1>1, <1>6 DEF UsedInv
  <2> QED BY <1>5, <2>2, <2>3 DEF UsedInv, LoSend, IsSeal
<1>7. CASE conts' = Append(conts, e.cont) /\ proc # "down"
  <2>1. /\ Len(conts') = Len(conts) + 1 /\ Len(conts) \in Nat
        /\ \A a \in 1 .. Len(conts) : conts'[a] = conts[a] /\ conts[a] \in Conts
        /\ conts'[Len(conts) + 1] = e.cont
    <3>1. e.cont \in Conts /\ conts \in Seq(Conts)
      BY <1>2, EntryTypes DEF TypeOK
    <3> QED BY <1>7, <3>1, AppendProperties, LenProperties
  <2>2. \A n \in Nat : SendUsed(n)' => SendUsed(n) \/ (IsSeal(e.cont) /\ n = e.cont.seq)
    BY <1>1, <2>1 DEF SendUsed
  <2>3. IsSeal(e.cont) =>
          /\ e.snap # None /\ e.snap.send = e.cont.seq + 1
          /\ e.cont.seq < sendSeq
          /\ \A j \in 1 .. Len(saves') : saves'[j].snap # None => e.cont.seq < LoSend(saves'[j])
    <3> SUFFICES ASSUME IsSeal(e.cont)
                 PROVE  /\ e.snap # None /\ e.snap.send = e.cont.seq + 1
                        /\ e.cont.seq < sendSeq
                        /\ \A j \in 1 .. Len(saves') :
                              saves'[j].snap # None => e.cont.seq < LoSend(saves'[j])
      OBVIOUS
    <3>1. e.snap # None /\ e.snap.send = e.cont.seq + 1
      BY <1>4 DEF EntryOK
    <3>2. e.snap.send <= sendSeq
      BY <1>2, <1>7, <3>1 DEF SendInv
    <3>3. \A j \in 1 .. Len(saves') : saves'[j].snap # None =>
             e.snap.send <= LoSend(saves'[j]) /\ LoSend(saves'[j]) \in Nat
      BY <1>2, <1>3, <3>1 DEF SendInv
    <3> QED
      BY <1>4, <3>1, <3>2, <3>3
  <2>4. ASSUME NEW n \in Nat, SendUsed(n)'
        PROVE  /\ \A j \in 1 .. Len(saves') : saves'[j].snap # None => n < LoSend(saves'[j])
               /\ e.snap # None => n < e.snap.send
               /\ proc # "down" => n < sendSeq
    <3>1. e.snap # None => LoSend(e) <= e.snap.send
      BY <1>2, <1>3, <1>4 DEF LoSend, EntryOK
    <3>2. CASE SendUsed(n)
      BY <1>2, <1>3, <3>1, <3>2 DEF UsedInv
    <3>3. CASE IsSeal(e.cont) /\ n = e.cont.seq
      BY <1>4, <2>3, <3>3
    <3> QED BY <2>2, <2>4, <3>2, <3>3
  <2>5. \A a \in 1 .. Len(conts) : IsSeal(conts[a]) /\ IsSeal(e.cont) => conts[a].seq < e.cont.seq
    <3> SUFFICES ASSUME NEW a \in 1 .. Len(conts), IsSeal(conts[a]), IsSeal(e.cont)
                 PROVE  conts[a].seq < e.cont.seq
      OBVIOUS
    <3>1. conts[a].seq \in Nat /\ SendUsed(conts[a].seq)
      BY <2>1 DEF SendUsed, Conts
    <3> QED
      BY <1>2, <2>3, <3>1 DEF UsedInv, LoSend
  <2>6. \A n \in sealed : IsSeal(e.cont) => n < e.cont.seq
    BY <1>2, <2>3 DEF UsedInv, LoSend, SendUsed, TypeOK
  <2>7. \A a, b \in 1 .. Len(conts') :
          a < b /\ IsSeal(conts'[a]) /\ IsSeal(conts'[b]) => conts'[a].seq < conts'[b].seq
    BY <2>1, <2>5 DEF UsedInv
  <2>8. \A a \in 1 .. Len(conts') : \A n \in sealed : IsSeal(conts'[a]) => n < conts'[a].seq
    BY <2>1, <2>6 DEF UsedInv
  <2>9. ASSUME NEW n \in Nat, SendUsed(n)'
        PROVE  /\ \A j \in 1 .. Len(saves') : saves'[j].snap # None => n < LoSend(saves'[j])
               /\ stable' # None => n < stable'.send
               /\ proc' # "down" => n < sendSeq'
    BY <1>1, <2>4, <2>9
  <2>10. sealed' = sealed /\ reused' = {}
    BY <1>1 DEF UsedInv
  <2> QED BY ZenonT(30), <1>5, <2>7, <2>8, <2>9, <2>10 DEF UsedInv, LoSend, IsSeal
<1> QED BY <1>1, <1>5, <1>6, <1>7

\* The chain loses its first d snapshots, or some of its last ones
LEMMA SendCut ==
    ASSUME IInv, NEW d \in Nat, Len(saves') \in Nat,
           \A j \in 1 .. Len(saves') :
              /\ EntryOK(saves'[j])
              /\ saves'[j].snap # None =>
                    j + d \in 1 .. Len(saves) /\ saves'[j] = saves[j + d],
           UNCHANGED <<sendSeq, stable, sealed, reused>>,
           conts' = IF proc' = "down" THEN <<>> ELSE conts,
           proc = "down" => proc' = "down"
    PROVE  SendInv' /\ UsedInv'
<1> USE DEF IInv
<1>1. SendInv'
  <2>1. \A i, j \in 1 .. Len(saves') :
          i < j /\ saves'[i].snap # None /\ saves'[j].snap # None
             => saves'[i].snap.send <= LoSend(saves'[j])
    <3> SUFFICES ASSUME NEW i \in 1 .. Len(saves'), NEW j \in 1 .. Len(saves'),
                        i < j, saves'[i].snap # None, saves'[j].snap # None
                 PROVE  saves'[i].snap.send <= LoSend(saves'[j])
      OBVIOUS
    <3>1. /\ i + d \in 1 .. Len(saves) /\ saves'[i] = saves[i + d]
          /\ j + d \in 1 .. Len(saves) /\ saves'[j] = saves[j + d]
          /\ i + d < j + d
      OBVIOUS
    <3> QED BY <3>1 DEF SendInv
  <2>2. \A i \in 1 .. Len(saves') : saves'[i].snap # None =>
          /\ stable' # None => stable'.send <= LoSend(saves'[i])
          /\ proc' # "down" => saves'[i].snap.send <= sendSeq'
    BY DEF SendInv
  <2>3. proc' # "down" /\ stable' # None => stable'.send <= sendSeq'
    BY DEF SendInv
  <2> QED BY ZenonT(30), <2>1, <2>2, <2>3 DEF SendInv, EntryOK, LoSend, IsSeal, IsProcess
<1>2. UsedInv'
  <2>1. Len(conts') \in Nat /\ \A a \in 1 .. Len(conts') : conts'[a] = conts[a] /\ a \in 1 .. Len(conts)
    BY EmptySeq, LenProperties DEF TypeOK
  <2>2. ASSUME NEW n \in Nat, SendUsed(n)'
        PROVE  /\ \A i \in 1 .. Len(saves') : saves'[i].snap # None => n < LoSend(saves'[i])
               /\ stable' # None => n < stable'.send
               /\ proc' # "down" => n < sendSeq'
    <3>1. SendUsed(n)
      BY <2>1, <2>2 DEF SendUsed
    <3> QED
      BY <3>1 DEF UsedInv
  <2>3. /\ \A a, b \in 1 .. Len(conts') :
             a < b /\ IsSeal(conts'[a]) /\ IsSeal(conts'[b]) => conts'[a].seq < conts'[b].seq
        /\ \A a \in 1 .. Len(conts') : \A n \in sealed' :
             IsSeal(conts'[a]) => n < conts'[a].seq
        /\ reused' = {}
    BY <2>1 DEF UsedInv
  <2> QED BY ZenonT(30), <2>2, <2>3 DEF UsedInv, LoSend, IsSeal
<1> QED BY ZenonT(30), <1>1, <1>2

LEMMA SendFails ==
    ASSUME IInv, FifoSaves, NEW i \in 1 .. Len(saves), SaveFails(i)
    PROVE  SendInv' /\ UsedInv'
<1> USE DEF IInv
<1> DEFINE t == RemoveAt(saves, 1)
<1> DEFINE c == [snap |-> None, cont |-> NoCont]
<1>1. /\ i = 1 /\ Len(saves) > 0 /\ proc # "down" /\ proc' # "down"
      /\ saves' = t \/ saves' = Append(t, c)
      /\ UNCHANGED <<sendSeq, stable, conts, sealed, reused>>
    BY LenProperties DEF SaveFails, hist, TypeOK
<1>2. /\ t \in Seq(Entries) /\ Len(t) = Len(saves) - 1 /\ Len(saves) \in Nat
      /\ \A j \in 1 .. Len(t) : t[j] = saves[j + 1] /\ j + 1 \in 1 .. Len(saves)
    BY <1>1, Pop
<1>3. EntryOK(c) /\ c \in Entries
    BY EntryTypes, ContTypes DEF EntryOK, IsSeal, IsProcess
<1>4. \A j \in 1 .. Len(t) : EntryOK(t[j])
    BY <1>2 DEF SendInv
<1>5. /\ Len(saves') \in Nat
      /\ \A j \in 1 .. Len(saves') :
            \/ j \in 1 .. Len(t) /\ saves'[j] = t[j]
            \/ saves'[j] = c
  <2> HIDE DEF t, c
  <2>1. CASE saves' = t
    BY <1>2, <2>1, LenProperties
  <2>2. CASE saves' = Append(t, c)
    BY <1>2, <1>3, <2>2, AppendProperties, LenProperties
  <2> QED BY <1>1, <2>1, <2>2
<1>6. \A j \in 1 .. Len(saves') :
         /\ EntryOK(saves'[j])
         /\ saves'[j].snap # None =>
               j + 1 \in 1 .. Len(saves) /\ saves'[j] = saves[j + 1]
    BY <1>2, <1>3, <1>4, <1>5
<1>7. 1 \in Nat
    OBVIOUS
<1> HIDE DEF IInv
<1> QED BY ZenonT(30), <1>1, <1>5, <1>6, <1>7, SendCut

LEMMA SendCrash == ASSUME IInv, Crash PROVE SendInv' /\ UsedInv'
<1>1. PICK n \in 0 .. Len(saves) : saves' = SubSeq(saves, 1, n)
    BY DEF Crash
<1>2. saves \in Seq(Entries) /\ Len(saves) \in Nat
    BY LenProperties DEF IInv, TypeOK
<1>3. Len(saves') = n /\ \A j \in 1 .. n : saves'[j] = saves[j]
    BY <1>1, <1>2, SubSeqProperties
<1>4. /\ Len(saves') \in Nat
      /\ \A j \in 1 .. Len(saves') :
            /\ EntryOK(saves'[j])
            /\ saves'[j].snap # None =>
                  j + 0 \in 1 .. Len(saves) /\ saves'[j] = saves[j + 0]
    BY <1>2, <1>3 DEF IInv, SendInv
<1>5. /\ UNCHANGED <<sendSeq, stable, sealed, reused>>
      /\ proc' = "down" /\ conts' = <<>> /\ 0 \in Nat
    BY DEF Crash, mem, hist
<1> QED BY <1>4, <1>5, SendCut

LEMMA SendRestore == ASSUME IInv, restore PROVE SendInv' /\ UsedInv'
<1>1. /\ saves = <<>> /\ saves' = <<>> /\ conts = <<>> /\ conts' = <<>>
      /\ stable # None /\ sendSeq' = stable.send /\ stable.send \in Nat
      /\ UNCHANGED <<stable, sealed, reused>>
    BY DEF IInv, SendInv, TypeOK, Snapshots, restore, hist
<1>2. \A i \in 1 .. Len(<<>>) : FALSE
    OBVIOUS
<1>3. SendInv'
    BY <1>1, <1>2 DEF SendInv
<1>4. \A n \in Nat : SendUsed(n)' => SendUsed(n)
    BY <1>1 DEF SendUsed
<1>5. \A n \in Nat : SendUsed(n)' => n < stable.send
    BY <1>1, <1>4 DEF IInv, UsedInv
<1>6. reused' = {}
    BY <1>1 DEF IInv, UsedInv
<1> QED BY ZenonT(30), <1>1, <1>2, <1>3, <1>5, <1>6 DEF UsedInv

\* The number of the oldest resolved save is used: it is new, and the largest
LEMMA SendRun ==
    ASSUME IInv, RunContinuation
    PROVE  /\ SendInv' /\ UsedInv'
           /\ \A n \in sealed' \ sealed : \A m \in sealed : m < n
<1> DEFINE k == Head(conts)
<1>1. /\ k \in Conts /\ k = conts[1] /\ 1 \in 1 .. Len(conts) /\ Len(conts) \in Nat
      /\ conts' = Tail(conts) /\ Len(conts') = Len(conts) - 1
      /\ \A a \in 1 .. Len(conts') : conts'[a] = conts[a + 1] /\ a + 1 \in 1 .. Len(conts)
      /\ \A a \in 1 .. Len(conts) : conts[a].seq \in Nat
  <2>1. conts \in Seq(Conts) /\ conts # <<>> /\ conts' = Tail(conts)
    BY DEF RunContinuation, IInv, TypeOK
  <2>2. Len(conts) \in Nat /\ Len(conts) > 0 /\ \A a \in 1 .. Len(conts) : conts[a] \in Conts
    BY <2>1, EmptySeq, LenProperties
  <2>3. /\ k \in Conts /\ k = conts[1] /\ Len(Tail(conts)) = Len(conts) - 1
        /\ \A a \in 1 .. Len(Tail(conts)) : Tail(conts)[a] = conts[a + 1]
    BY <2>1, HeadTailProperties
  <2>4. \A x \in Conts : x.seq \in Nat
    BY DEF Conts
  <2> QED BY <2>1, <2>2, <2>3, <2>4
<1>2. /\ UNCHANGED <<proc, sendSeq, stable, saves>> /\ proc # "down"
      /\ \/ IsSeal(k) /\ reused' = reused \cup ({k.seq} \cap sealed) /\ sealed' = sealed \cup {k.seq}
         \/ ~IsSeal(k) /\ UNCHANGED <<sealed, reused>>
    BY DEF RunContinuation, mem, IsSeal
<1>3. sealed \subseteq Nat
    BY DEF IInv, TypeOK
<1>4. IsSeal(k) => /\ \A m \in sealed : m < k.seq
                   /\ \A a \in 1 .. Len(conts') : IsSeal(conts'[a]) => k.seq < conts'[a].seq
    BY <1>1 DEF IInv, UsedInv
<1>5. reused' = {} /\ \A n \in sealed' \ sealed : \A m \in sealed : m < n
    BY <1>1, <1>2, <1>3, <1>4 DEF IInv, UsedInv
<1>6. SendInv'
    BY <1>2 DEF IInv, SendInv, EntryOK, LoSend, IsSeal, IsProcess
<1>7. ASSUME NEW n \in Nat, SendUsed(n)'
      PROVE  /\ \A i \in 1 .. Len(saves') : saves'[i].snap # None => n < LoSend(saves'[i])
             /\ stable' # None => n < stable'.send
             /\ proc' # "down" => n < sendSeq'
  <2>1. SendUsed(n)
    BY ZenonT(30), <1>1, <1>2, <1>7 DEF SendUsed
  <2> QED BY <1>2, <2>1 DEF IInv, UsedInv
<1>8. \A a, b \in 1 .. Len(conts') :
         a < b /\ IsSeal(conts'[a]) /\ IsSeal(conts'[b]) => conts'[a].seq < conts'[b].seq
  <2> SUFFICES ASSUME NEW a \in 1 .. Len(conts'), NEW b \in 1 .. Len(conts'), a < b,
                      IsSeal(conts'[a]), IsSeal(conts'[b])
               PROVE  conts'[a].seq < conts'[b].seq
    OBVIOUS
  <2>1. a + 1 < b + 1 /\ a + 1 \in 1 .. Len(conts) /\ b + 1 \in 1 .. Len(conts)
    BY <1>1
  <2> QED BY <1>1, <2>1 DEF IInv, UsedInv
<1>9. \A a \in 1 .. Len(conts') : \A n \in sealed' : IsSeal(conts'[a]) => n < conts'[a].seq
    BY <1>1, <1>2, <1>4 DEF IInv, UsedInv
<1> QED BY ZenonT(30), <1>5, <1>6, <1>7, <1>8, <1>9 DEF UsedInv, LoSend, IsSeal

LEMMA IInvStep == FifoSaves /\ IInv /\ [Next]_vars => IInv'
<1> SUFFICES ASSUME FifoSaves, IInv, [Next]_vars PROVE SendInv' /\ UsedInv'
    BY TypeStep DEF IInv
<1>0. /\ sendSeq \in 0 .. MaxSendSeq /\ sendSeq \in Nat /\ recvSeq \in Int /\ MaxSendSeq \in Nat
      /\ RecvSeqs \subseteq Nat
    BY CountersAssumption DEF IInv, TypeOK
<1>1. CASE close
  <2> DEFINE e == [snap |-> None, cont |-> NoCont]
  <2>1. e \in Entries /\ EntryOK(e) /\ e.snap = None
    BY EntryTypes, ContTypes DEF EntryOK, IsSeal, IsProcess
  <2>2. /\ saves' = Append(saves, e) /\ sendSeq' = sendSeq
        /\ proc # "down" /\ proc' # "down" /\ UNCHANGED <<stable, conts, sealed, reused>>
    BY <1>1 DEF close, save, mem, hist
  <2> HIDE DEF e
  <2> QED BY <1>0, <2>1, <2>2, SendPush
<1>2. CASE nextSendSeq
  <2> DEFINE e == [snap |-> [send |-> sendSeq + 1, recv |-> recvSeq], cont |-> Seal(sendSeq)]
  <2>1. CASE ~close
    <3>1. /\ sendSeq < MaxSendSeq /\ saves' = Append(saves, e) /\ sendSeq' = sendSeq + 1
          /\ proc # "down" /\ proc' # "down" /\ UNCHANGED <<stable, conts, sealed, reused>>
      BY <1>2, <2>1 DEF nextSendSeq, save, hist
    <3>2. e \in Entries
      <4>1. sendSeq + 1 \in 0 .. MaxSendSeq
        BY <1>0, <3>1
      <4> QED BY ZenonT(30), <1>0, <4>1, EntryTypes, ContTypes
    <3>3. EntryOK(e) /\ LoSend(e) = sendSeq /\ e.snap.send = sendSeq + 1
      BY <1>0, CountersAssumption DEF EntryOK, IsSeal, IsProcess, Seal, LoSend
    <3> HIDE DEF e
    <3> QED BY <1>0, <3>1, <3>2, <3>3, SendPush
  <2> QED BY ZenonT(30), <1>1, <2>1
<1>3. ASSUME NEW seq \in RecvSeqs, receive(seq) PROVE SendInv' /\ UsedInv'
  <2> DEFINE e == [snap |-> [send |-> sendSeq, recv |-> seq], cont |-> Process(seq, recvSeq)]
  <2>1. /\ saves' = Append(saves, e) /\ sendSeq' = sendSeq
        /\ proc # "down" /\ proc' # "down" /\ UNCHANGED <<stable, conts, sealed, reused>>
    BY <1>3 DEF receive, save, hist
  <2>2. seq \in Nat /\ e \in Entries
    BY <1>0, EntryTypes, ContTypes
  <2>3. EntryOK(e) /\ LoSend(e) = sendSeq /\ e.snap.send = sendSeq
    BY <1>0, <2>2, CountersAssumption DEF EntryOK, IsSeal, IsProcess, Process, LoSend
  <2> HIDE DEF e
  <2> QED BY <1>0, <2>1, <2>2, <2>3, SendPush
<1>4. CASE persistSnapshot
  <2> DEFINE e == [snap |-> [send |-> sendSeq, recv |-> recvSeq], cont |-> NoCont]
  <2>1. /\ saves' = Append(saves, e) /\ sendSeq' = sendSeq
        /\ proc # "down" /\ proc' # "down" /\ UNCHANGED <<stable, conts, sealed, reused>>
    BY <1>4 DEF persistSnapshot, save, mem, hist
  <2>2. e \in Entries
    BY <1>0, EntryTypes, ContTypes
  <2>3. EntryOK(e) /\ LoSend(e) = sendSeq /\ e.snap.send = sendSeq
    BY <1>0, ContTypes DEF EntryOK, IsSeal, IsProcess, LoSend
  <2> HIDE DEF e
  <2> QED BY <1>0, <2>1, <2>2, <2>3, SendPush
<1>5. CASE RunContinuation
    BY <1>5, SendRun
<1>6. ASSUME NEW i \in 1 .. Len(saves), SaveDone(i) \/ SaveFails(i) PROVE SendInv' /\ UsedInv'
    BY <1>6, SendDone, SendFails
<1>7. CASE Crash
    BY <1>7, SendCrash
<1>8. CASE restore
    BY ZenonT(30), <1>8, SendRestore
<1>9. CASE UNCHANGED vars
  <2>1. UNCHANGED <<proc, sendSeq, recvSeq, stable, saves, conts, sealed, reused, handled, replayed, rejected>>
    BY <1>9 DEF vars, mem, hist
  <2>2. SendInv'  BY <2>1, ZenonT(30) DEF IInv, SendInv
  <2>3. UsedInv'  BY <2>1, ZenonT(30) DEF IInv, UsedInv, SendUsed
  <2> QED BY <2>2, <2>3, ZenonT(30)
<1> QED BY <1>1, <1>2, <1>3, <1>4, <1>5, <1>6, <1>7, <1>8, <1>9 DEF Next

LEMMA IInvInit == Init => IInv
<1> SUFFICES ASSUME Init PROVE IInv
    OBVIOUS
<1>1. \A i \in 1 .. Len(<<>>) : FALSE
    OBVIOUS
<1>2. TypeOK
    BY TypeInit
<1>3. SendInv
    BY <1>1 DEF Init, SendInv
<1>4. \A n \in Nat : ~SendUsed(n)
    BY <1>1 DEF Init, SendUsed
<1> QED BY ZenonT(30), <1>1, <1>2, <1>3, <1>4 DEF Init, IInv, UsedInv

\* With an adapter that completes saves in the order they were issued, failing
\* ones included, no sequence number seals two frames of a pairing: nextSendSeq
\* writes the successor ahead, whatever crashes and restores follow.
THEOREM NonceUnique == FifoSaves => (Spec => []NoNonceReuse)
<1> SUFFICES ASSUME FifoSaves PROVE Spec => []NoNonceReuse
    OBVIOUS
<1>1. IInv /\ [Next]_vars => IInv'
    BY IInvStep
<1>2. IInv => NoNonceReuse
    BY DEF IInv, UsedInv, NoNonceReuse
<1> QED BY <1>1, <1>2, IInvInit, PTL DEF Spec

\* Under the same assumption frames are sealed in the order of their numbers.
THEOREM SealOrder == FifoSaves => (Spec => SealedInOrder)
<1> SUFFICES ASSUME FifoSaves PROVE Spec => SealedInOrder
    OBVIOUS
<1>1. IInv /\ [Next]_vars => IInv'
    BY IInvStep
<1>2. IInv /\ [Next]_vars => [\A n \in sealed' \ sealed : \A m \in sealed : m < n]_vars
  <2> SUFFICES ASSUME IInv, Next PROVE \A n \in sealed' \ sealed : \A m \in sealed : m < n
    OBVIOUS
  <2>1. CASE RunContinuation
    BY <2>1, SendRun
  <2>2. CASE sealed' = sealed
    BY <2>2
  <2> QED
    BY ZenonT(30), <2>1, <2>2 DEF Next, close, nextSendSeq, receive, persistSnapshot, SaveDone, SaveFails,
                      Crash, restore, hist
<1> QED BY <1>1, <1>2, IInvInit, PTL DEF Spec, SealedInOrder

-----------------------------------------------------------------------------
(* Receiving: the frame of one number is processed at most once.  The     *)
(* argument mirrors that for sending, with recvSeq for sendSeq; it holds   *)
(* until the adapter rejects a call, since a failed save puts recvSeq back *)
(* below numbers that later saves have released.                           *)

RInv == IInv /\ RecvInv /\ HandledInv

LEMMA RecvPush ==
    ASSUME RInv, NEW e \in Entries,
           e.snap # None => recvSeq <= LoRecv(e) /\ e.snap.recv <= recvSeq',
           saves' = Append(saves, e),
           recvSeq' \in Int, recvSeq <= recvSeq',
           proc # "down", proc' # "down",
           UNCHANGED <<stable, conts, handled, replayed>>
    PROVE  RecvInv' /\ HandledInv'
<1> USE DEF RInv, IInv
<1>1. /\ Len(saves') = Len(saves) + 1 /\ Len(saves) \in Nat
      /\ \A i \in 1 .. Len(saves) : saves'[i] = saves[i] /\ saves[i] \in Entries
      /\ saves'[Len(saves) + 1] = e
    BY AppendProperties, LenProperties DEF TypeOK
<1>2. recvSeq \in Int
    BY DEF IInv, TypeOK
<1>3. \A x \in Entries : x.snap # None => x.snap.recv \in Int /\ LoRecv(x) \in Int
    BY EntryTypes DEF LoRecv
<1>4. RecvInv'
  <2>2. \A i, j \in 1 .. Len(saves') :
          i < j /\ saves'[i].snap # None /\ saves'[j].snap # None
             => saves'[i].snap.recv <= LoRecv(saves'[j])
    <3> SUFFICES ASSUME NEW i \in 1 .. Len(saves'), NEW j \in 1 .. Len(saves'),
                        i < j, saves'[i].snap # None, saves'[j].snap # None
                 PROVE  saves'[i].snap.recv <= LoRecv(saves'[j])
      OBVIOUS
    <3>1. i \in 1 .. Len(saves) /\ saves'[i] = saves[i] /\ saves[i].snap.recv \in Int
      BY <1>1, <1>3
    <3>2. CASE j \in 1 .. Len(saves)
      BY <1>1, <3>1, <3>2 DEF RecvInv
    <3>3. CASE j = Len(saves) + 1
      <4>1. saves[i].snap.recv <= recvSeq /\ recvSeq <= LoRecv(e) /\ LoRecv(e) \in Int
        BY ZenonT(30), <1>1, <1>3, <3>1, <3>3 DEF RecvInv
      <4> QED BY <1>1, <1>2, <3>1, <3>3, <4>1
    <3> QED BY <1>1, <3>2, <3>3
  <2>3. \A i \in 1 .. Len(saves') : saves'[i].snap # None =>
          /\ stable # None => stable.recv <= LoRecv(saves'[i])
          /\ saves'[i].snap.recv <= recvSeq'
    <3> SUFFICES ASSUME NEW i \in 1 .. Len(saves'), saves'[i].snap # None
                 PROVE  /\ stable # None => stable.recv <= LoRecv(saves'[i])
                        /\ saves'[i].snap.recv <= recvSeq'
      OBVIOUS
    <3>1. stable # None => stable.recv \in Int /\ stable.recv <= recvSeq
      BY DEF RecvInv, TypeOK, Snapshots
    <3>2. CASE i \in 1 .. Len(saves)
      <4>1. saves[i].snap.recv <= recvSeq /\ saves[i].snap.recv \in Int
        BY <1>1, <1>3, <3>2 DEF RecvInv
      <4> QED BY <1>1, <1>2, <3>2, <4>1 DEF RecvInv
    <3>3. CASE i = Len(saves) + 1
      BY <1>1, <1>2, <1>3, <3>1, <3>3
    <3> QED BY <1>1, <3>2, <3>3
  <2>4. stable # None => stable.recv <= recvSeq'
    BY <1>2 DEF RecvInv, TypeOK, Snapshots
  <2> QED BY ZenonT(30), <2>2, <2>3, <2>4 DEF RecvInv, LoRecv, IsProcess
<1>5. HandledInv'
  <2>1. ASSUME NEW n \in Nat, RecvUsed(n)'
        PROVE  /\ \A i \in 1 .. Len(saves') : saves'[i].snap # None => n <= LoRecv(saves'[i])
               /\ stable # None => n <= stable.recv
               /\ n <= recvSeq'
    <3>1. RecvUsed(n)
      BY <2>1 DEF RecvUsed
    <3>2. n <= recvSeq /\ (stable # None => n <= stable.recv)
      BY <3>1 DEF HandledInv
    <3>3. \A i \in 1 .. Len(saves') : saves'[i].snap # None => n <= LoRecv(saves'[i])
      BY <1>1, <1>2, <1>3, <3>1, <3>2 DEF HandledInv
    <3> QED
      BY <1>2, <3>2, <3>3
  <2> QED BY <2>1 DEF HandledInv, LoRecv, IsProcess
<1> QED BY <1>4, <1>5

LEMMA RecvDone ==
    ASSUME RInv, FifoSaves, NEW i \in 1 .. Len(saves), SaveDone(i)
    PROVE  RecvInv' /\ HandledInv'
<1> USE DEF RInv, IInv
<1> DEFINE e == saves[1]
<1>1. /\ i = 1 /\ saves' = RemoveAt(saves, 1) /\ Len(saves) > 0
      /\ stable' = e.snap /\ proc' = proc /\ UNCHANGED <<recvSeq, handled, replayed>>
      /\ conts' = IF proc = "down" \/ e.cont = NoCont THEN conts ELSE Append(conts, e.cont)
    BY LenProperties DEF SaveDone, mem, hist, TypeOK
<1>2. /\ Len(saves') = Len(saves) - 1 /\ Len(saves) \in Nat
      /\ \A j \in 1 .. Len(saves') : saves'[j] = saves[j + 1] /\ j + 1 \in 1 .. Len(saves)
      /\ e \in Entries /\ 1 \in 1 .. Len(saves)
      /\ \A j \in 1 .. Len(saves) : saves[j] \in Entries
    BY ZenonT(30), <1>1, Pop
<1>3. \A x \in Entries : x.snap # None => x.snap.recv \in Int /\ LoRecv(x) \in Int
    BY EntryTypes DEF LoRecv
<1>4. EntryOK(e) /\ recvSeq \in Int /\ e.cont.seq \in Nat
    BY ZenonT(30), <1>2, EntryTypes DEF SendInv, TypeOK
<1>5. RecvInv'
  <2>2. \A j, k \in 1 .. Len(saves') :
          j < k /\ saves'[j].snap # None /\ saves'[k].snap # None
             => saves'[j].snap.recv <= LoRecv(saves'[k])
    <3> SUFFICES ASSUME NEW j \in 1 .. Len(saves'), NEW k \in 1 .. Len(saves'),
                        j < k, saves'[j].snap # None, saves'[k].snap # None
                 PROVE  saves'[j].snap.recv <= LoRecv(saves'[k])
      OBVIOUS
    <3>1. /\ j + 1 \in 1 .. Len(saves) /\ saves'[j] = saves[j + 1]
          /\ k + 1 \in 1 .. Len(saves) /\ saves'[k] = saves[k + 1]
          /\ j + 1 < k + 1
      BY <1>2
    <3> QED BY <3>1 DEF RecvInv
  <2>3. \A j \in 1 .. Len(saves') : saves'[j].snap # None =>
          /\ e.snap # None => e.snap.recv <= LoRecv(saves'[j])
          /\ proc # "down" => saves'[j].snap.recv <= recvSeq
    <3> SUFFICES ASSUME NEW j \in 1 .. Len(saves'), saves'[j].snap # None
                 PROVE  /\ e.snap # None => e.snap.recv <= LoRecv(saves'[j])
                        /\ proc # "down" => saves'[j].snap.recv <= recvSeq
      OBVIOUS
    <3>1. j + 1 \in 1 .. Len(saves) /\ saves'[j] = saves[j + 1] /\ 1 < j + 1
      BY <1>2
    <3> QED BY ZenonT(30), <1>2, <3>1 DEF RecvInv
  <2>4. proc # "down" /\ e.snap # None => e.snap.recv <= recvSeq
    BY ZenonT(30), <1>2 DEF RecvInv
  <2> QED BY ZenonT(30), <1>1, <2>2, <2>3, <2>4 DEF RecvInv, LoRecv, IsProcess
<1>6. CASE conts' = conts
  <2>1. ASSUME NEW n \in Nat, RecvUsed(n)'
        PROVE  /\ \A j \in 1 .. Len(saves') : saves'[j].snap # None => n <= LoRecv(saves'[j])
               /\ e.snap # None => n <= e.snap.recv
               /\ proc # "down" => n <= recvSeq
    <3>1. RecvUsed(n)
      BY ZenonT(30), <1>1, <1>6, <2>1 DEF RecvUsed
    <3>2. e.snap # None => LoRecv(e) <= e.snap.recv
      BY <1>2, <1>3, <1>4 DEF LoRecv, EntryOK
    <3>3. \A j \in 1 .. Len(saves) : saves[j].snap # None => n <= LoRecv(saves[j])
      BY <3>1 DEF HandledInv
    <3>4. \A j \in 1 .. Len(saves') : saves'[j].snap # None => n <= LoRecv(saves'[j])
      BY <1>2, <3>3
    <3>5. e.snap # None => n <= e.snap.recv
      BY <1>2, <1>3, <3>2, <3>3
    <3>6. proc # "down" => n <= recvSeq
      BY <3>1 DEF HandledInv
    <3> QED BY ZenonT(30), <3>4, <3>5, <3>6
  <2>2. ASSUME NEW n \in Nat, RecvUsed(n)'
        PROVE  /\ \A j \in 1 .. Len(saves') : saves'[j].snap # None => n <= LoRecv(saves'[j])
               /\ stable' # None => n <= stable'.recv
               /\ proc' # "down" => n <= recvSeq'
    BY ZenonT(30), <1>1, <2>1, <2>2
  <2>3. /\ \A a, b \in 1 .. Len(conts') :
             a < b /\ IsProcess(conts'[a]) /\ IsProcess(conts'[b]) => conts'[a].seq < conts'[b].seq
        /\ \A a \in 1 .. Len(conts') : \A n \in handled' :
             IsProcess(conts'[a]) => n < conts'[a].seq
        /\ replayed' = {}
    BY ZenonT(30), <1>1, <1>6 DEF HandledInv
  <2> QED BY <1>5, <2>2, <2>3 DEF HandledInv, LoRecv, IsProcess
<1>7. CASE conts' = Append(conts, e.cont) /\ proc # "down"
  <2>1. /\ Len(conts') = Len(conts) + 1 /\ Len(conts) \in Nat
        /\ \A a \in 1 .. Len(conts) : conts'[a] = conts[a] /\ conts[a] \in Conts
        /\ conts'[Len(conts) + 1] = e.cont
    <3>1. e.cont \in Conts /\ conts \in Seq(Conts)
      BY <1>2, EntryTypes DEF TypeOK
    <3> QED BY <1>7, <3>1, AppendProperties, LenProperties
  <2>2. \A n \in Nat : RecvUsed(n)' => RecvUsed(n) \/ (IsProcess(e.cont) /\ n = e.cont.seq)
    BY <1>1, <2>1 DEF RecvUsed
  <2>3. IsProcess(e.cont) =>
          /\ e.snap # None /\ e.snap.recv = e.cont.seq
          /\ e.cont.seq <= recvSeq
          /\ \A j \in 1 .. Len(saves') : saves'[j].snap # None => e.cont.seq <= LoRecv(saves'[j])
    <3> SUFFICES ASSUME IsProcess(e.cont)
                 PROVE  /\ e.snap # None /\ e.snap.recv = e.cont.seq
                        /\ e.cont.seq <= recvSeq
                        /\ \A j \in 1 .. Len(saves') :
                              saves'[j].snap # None => e.cont.seq <= LoRecv(saves'[j])
      OBVIOUS
    <3>1. e.snap # None /\ e.snap.recv = e.cont.seq
      BY <1>4 DEF EntryOK
    <3>2. e.snap.recv <= recvSeq
      BY ZenonT(30), <1>2, <1>7, <3>1 DEF RecvInv
    <3>3. \A j \in 1 .. Len(saves') : saves'[j].snap # None =>
             e.snap.recv <= LoRecv(saves'[j]) /\ LoRecv(saves'[j]) \in Int
      <4> SUFFICES ASSUME NEW j \in 1 .. Len(saves'), saves'[j].snap # None
                   PROVE  e.snap.recv <= LoRecv(saves'[j]) /\ LoRecv(saves'[j]) \in Int
        OBVIOUS
      <4>1. j + 1 \in 1 .. Len(saves) /\ saves'[j] = saves[j + 1] /\ 1 < j + 1
        BY <1>2
      <4> QED BY ZenonT(30), <1>2, <1>3, <3>1, <4>1 DEF RecvInv
    <3> QED
      BY <1>4, <3>1, <3>2, <3>3
  <2>4. ASSUME NEW n \in Nat, RecvUsed(n)'
        PROVE  /\ \A j \in 1 .. Len(saves') : saves'[j].snap # None => n <= LoRecv(saves'[j])
               /\ e.snap # None => n <= e.snap.recv
               /\ proc # "down" => n <= recvSeq
    <3>1. e.snap # None => LoRecv(e) <= e.snap.recv
      BY <1>2, <1>3, <1>4 DEF LoRecv, EntryOK
    <3>2. CASE RecvUsed(n)
      <4>1. \A j \in 1 .. Len(saves) : saves[j].snap # None => n <= LoRecv(saves[j])
        BY <3>2 DEF HandledInv
      <4>2. \A j \in 1 .. Len(saves') : saves'[j].snap # None => n <= LoRecv(saves'[j])
        BY <1>2, <4>1
      <4>3. e.snap # None => n <= e.snap.recv
        BY <1>2, <1>3, <3>1, <4>1
      <4>4. proc # "down" => n <= recvSeq
        BY <3>2 DEF HandledInv
      <4> QED BY <4>2, <4>3, <4>4
    <3>3. CASE IsProcess(e.cont) /\ n = e.cont.seq
      BY <1>4, <2>3, <3>3
    <3> QED BY <2>2, <2>4, <3>2, <3>3
  <2>5. \A a \in 1 .. Len(conts) : IsProcess(conts[a]) /\ IsProcess(e.cont) => conts[a].seq < e.cont.seq
    <3> SUFFICES ASSUME NEW a \in 1 .. Len(conts), IsProcess(conts[a]), IsProcess(e.cont)
                 PROVE  conts[a].seq < e.cont.seq
      OBVIOUS
    <3>1. conts[a].seq \in Nat /\ RecvUsed(conts[a].seq)
      BY ZenonT(30), <2>1 DEF RecvUsed, Conts
    <3>2. conts[a].seq <= LoRecv(e) /\ LoRecv(e) = e.cont.seq - 1
      BY ZenonT(30), <1>2, <2>3, <3>1 DEF HandledInv, LoRecv
    <3> QED
      BY <1>4, <3>1, <3>2
  <2>6. \A n \in handled : IsProcess(e.cont) => n < e.cont.seq
    <3> SUFFICES ASSUME NEW n \in handled, IsProcess(e.cont) PROVE n < e.cont.seq
      OBVIOUS
    <3>1. n \in Nat /\ RecvUsed(n)
      BY DEF RecvUsed, TypeOK
    <3>2. n <= LoRecv(e) /\ LoRecv(e) = e.cont.seq - 1
      BY ZenonT(30), <1>2, <2>3, <3>1 DEF HandledInv, LoRecv
    <3> QED
      BY <1>4, <3>1, <3>2
  <2>7. \A a, b \in 1 .. Len(conts') :
          a < b /\ IsProcess(conts'[a]) /\ IsProcess(conts'[b]) => conts'[a].seq < conts'[b].seq
    BY <2>1, <2>5 DEF HandledInv
  <2>8. \A a \in 1 .. Len(conts') : \A n \in handled : IsProcess(conts'[a]) => n < conts'[a].seq
    BY <2>1, <2>6 DEF HandledInv
  <2>9. ASSUME NEW n \in Nat, RecvUsed(n)'
        PROVE  /\ \A j \in 1 .. Len(saves') : saves'[j].snap # None => n <= LoRecv(saves'[j])
               /\ stable' # None => n <= stable'.recv
               /\ proc' # "down" => n <= recvSeq'
    BY <1>1, <2>4, <2>9
  <2>10. handled' = handled /\ replayed' = {}
    BY <1>1 DEF HandledInv
  <2> QED BY <1>5, <2>7, <2>8, <2>9, <2>10 DEF HandledInv, LoRecv, IsProcess
<1> QED BY <1>1, <1>5, <1>6, <1>7

LEMMA RecvCrash == ASSUME RInv, Crash PROVE RecvInv' /\ HandledInv'
<1>1. PICK n \in 0 .. Len(saves) : saves' = SubSeq(saves, 1, n)
    BY DEF Crash
<1>2. saves \in Seq(Entries) /\ Len(saves) \in Nat
    BY LenProperties DEF RInv, IInv, TypeOK
<1>3. Len(saves') = n /\ \A j \in 1 .. n : saves'[j] = saves[j]
    BY <1>1, <1>2, SubSeqProperties
<1>4. /\ UNCHANGED <<stable, handled, replayed>> /\ proc' = "down"
      /\ conts' = <<>> /\ \A a \in 1 .. Len(conts') : FALSE
    BY DEF Crash, mem, hist
<1>5. RecvInv'
  <2>1. \A i, j \in 1 .. Len(saves') :
          i < j /\ saves'[i].snap # None /\ saves'[j].snap # None
             => saves'[i].snap.recv <= LoRecv(saves'[j])
    BY <1>2, <1>3 DEF RInv, RecvInv
  <2>2. \A i \in 1 .. Len(saves') :
          saves'[i].snap # None /\ stable # None => stable.recv <= LoRecv(saves'[i])
    BY <1>2, <1>3 DEF RInv, RecvInv
  <2> QED BY ZenonT(30), <1>4, <2>1, <2>2 DEF RecvInv, LoRecv, IsProcess
<1>6. ASSUME NEW m \in Nat, RecvUsed(m)'
      PROVE  /\ \A i \in 1 .. Len(saves') : saves'[i].snap # None => m <= LoRecv(saves'[i])
             /\ stable' # None => m <= stable'.recv
  <2>1. RecvUsed(m)
    BY <1>4, <1>6 DEF RecvUsed
  <2> QED BY <1>2, <1>3, <1>4, <2>1 DEF RInv, HandledInv
<1>7. replayed' = {}
    BY <1>4 DEF RInv, HandledInv
<1> QED BY ZenonT(30), <1>4, <1>5, <1>6, <1>7 DEF HandledInv, LoRecv, IsProcess

LEMMA RecvRestore == ASSUME RInv, restore PROVE RecvInv' /\ HandledInv'
<1>1. /\ saves = <<>> /\ saves' = <<>> /\ conts = <<>> /\ conts' = <<>>
      /\ stable # None /\ recvSeq' = stable.recv /\ stable.recv \in Int
      /\ UNCHANGED <<stable, handled, replayed>>
    BY DEF RInv, IInv, SendInv, TypeOK, Snapshots, restore, hist
<1>2. \A i \in 1 .. Len(<<>>) : FALSE
    OBVIOUS
<1>3. RecvInv'
    BY <1>1, <1>2 DEF RecvInv
<1>4. \A n \in Nat : RecvUsed(n)' => RecvUsed(n)
    BY <1>1 DEF RecvUsed
<1>5. \A n \in Nat : RecvUsed(n)' => n <= stable.recv
    BY <1>1, <1>4 DEF RInv, HandledInv
<1>6. replayed' = {}
    BY <1>1 DEF RInv, HandledInv
<1> QED BY ZenonT(30), <1>1, <1>2, <1>3, <1>5, <1>6 DEF HandledInv

LEMMA RecvRun ==
    ASSUME RInv, RunContinuation
    PROVE  RecvInv' /\ HandledInv'
<1> DEFINE k == Head(conts)
<1>1. /\ k \in Conts /\ k = conts[1] /\ 1 \in 1 .. Len(conts) /\ Len(conts) \in Nat
      /\ conts' = Tail(conts) /\ Len(conts') = Len(conts) - 1
      /\ \A a \in 1 .. Len(conts') : conts'[a] = conts[a + 1] /\ a + 1 \in 1 .. Len(conts)
      /\ \A a \in 1 .. Len(conts) : conts[a].seq \in Nat
  <2>1. conts \in Seq(Conts) /\ conts # <<>> /\ conts' = Tail(conts)
    BY DEF RunContinuation, RInv, IInv, TypeOK
  <2>2. Len(conts) \in Nat /\ Len(conts) > 0 /\ \A a \in 1 .. Len(conts) : conts[a] \in Conts
    BY <2>1, EmptySeq, LenProperties
  <2>3. /\ k \in Conts /\ k = conts[1] /\ Len(Tail(conts)) = Len(conts) - 1
        /\ \A a \in 1 .. Len(Tail(conts)) : Tail(conts)[a] = conts[a + 1]
    BY <2>1, HeadTailProperties
  <2>4. \A x \in Conts : x.seq \in Nat
    BY DEF Conts
  <2> QED BY <2>1, <2>2, <2>3, <2>4
<1>2. /\ UNCHANGED <<proc, recvSeq, stable, saves>> /\ proc # "down"
      /\ \/ IsProcess(k) /\ replayed' = replayed \cup ({k.seq} \cap handled) /\ handled' = handled \cup {k.seq}
         \/ ~IsProcess(k) /\ UNCHANGED <<handled, replayed>>
    BY DEF RunContinuation, mem, IsProcess
<1>3. handled \subseteq Nat
    BY DEF RInv, IInv, TypeOK
<1>4. IsProcess(k) => /\ \A m \in handled : m < k.seq
                   /\ \A a \in 1 .. Len(conts') : IsProcess(conts'[a]) => k.seq < conts'[a].seq
    BY <1>1 DEF RInv, HandledInv
<1>5. replayed' = {}
    BY <1>1, <1>2, <1>3, <1>4 DEF RInv, HandledInv
<1>6. RecvInv'
    BY ZenonT(30), <1>2 DEF RInv, RecvInv, LoRecv, IsProcess
<1>7. ASSUME NEW n \in Nat, RecvUsed(n)'
      PROVE  /\ \A i \in 1 .. Len(saves') : saves'[i].snap # None => n <= LoRecv(saves'[i])
             /\ stable' # None => n <= stable'.recv
             /\ proc' # "down" => n <= recvSeq'
  <2>1. RecvUsed(n)
    BY ZenonT(30), <1>1, <1>2, <1>7 DEF RecvUsed
  <2> QED BY <1>2, <2>1 DEF RInv, HandledInv
<1>8. \A a, b \in 1 .. Len(conts') :
         a < b /\ IsProcess(conts'[a]) /\ IsProcess(conts'[b]) => conts'[a].seq < conts'[b].seq
  <2> SUFFICES ASSUME NEW a \in 1 .. Len(conts'), NEW b \in 1 .. Len(conts'), a < b,
                      IsProcess(conts'[a]), IsProcess(conts'[b])
               PROVE  conts'[a].seq < conts'[b].seq
    OBVIOUS
  <2>1. a + 1 < b + 1 /\ a + 1 \in 1 .. Len(conts) /\ b + 1 \in 1 .. Len(conts)
    BY <1>1
  <2> QED BY ZenonT(30), <1>1, <2>1 DEF RInv, HandledInv
<1>9. \A a \in 1 .. Len(conts') : \A n \in handled' : IsProcess(conts'[a]) => n < conts'[a].seq
    BY <1>1, <1>2, <1>4 DEF RInv, HandledInv
<1> QED BY <1>5, <1>6, <1>7, <1>8, <1>9 DEF HandledInv, LoRecv, IsProcess

LEMMA RInvStep == FifoSaves /\ RInv /\ rejected' = FALSE /\ [Next]_vars => RInv'
<1> SUFFICES ASSUME FifoSaves, RInv, rejected' = FALSE, [Next]_vars PROVE RecvInv' /\ HandledInv'
    BY ZenonT(30), IInvStep DEF RInv
<1>0. /\ sendSeq \in 0 .. MaxSendSeq /\ sendSeq \in Nat /\ recvSeq \in Int
      /\ MaxSendSeq \in Nat /\ RecvSeqs \subseteq Nat
    BY CountersAssumption DEF RInv, IInv, TypeOK
<1>1. CASE close
  <2> DEFINE e == [snap |-> None, cont |-> NoCont]
  <2>1. e \in Entries /\ e.snap = None
    BY EntryTypes
  <2>2. /\ saves' = Append(saves, e) /\ recvSeq' = recvSeq
        /\ proc # "down" /\ proc' # "down" /\ UNCHANGED <<stable, conts, handled, replayed>>
    BY <1>1 DEF close, save, mem, hist
  <2> HIDE DEF e
  <2> QED BY <1>0, <2>1, <2>2, RecvPush
<1>2. CASE nextSendSeq
  <2> DEFINE e == [snap |-> [send |-> sendSeq + 1, recv |-> recvSeq], cont |-> Seal(sendSeq)]
  <2>1. CASE ~close
    <3>1. /\ sendSeq < MaxSendSeq /\ saves' = Append(saves, e) /\ recvSeq' = recvSeq
          /\ proc # "down" /\ proc' # "down" /\ UNCHANGED <<stable, conts, handled, replayed>>
      BY ZenonT(30), <1>2, <2>1 DEF nextSendSeq, save, hist
    <3>2. e \in Entries
      <4>1. sendSeq + 1 \in 0 .. MaxSendSeq
        BY <1>0, <3>1
      <4> QED BY <1>0, <4>1, EntryTypes, ContTypes
    <3>3. LoRecv(e) = recvSeq /\ e.snap.recv = recvSeq
      BY DEF IsProcess, Seal, LoRecv
    <3> HIDE DEF e
    <3> QED BY <1>0, <3>1, <3>2, <3>3, RecvPush
  <2> QED BY ZenonT(30), <1>1, <2>1
<1>3. ASSUME NEW seq \in RecvSeqs, receive(seq) PROVE RecvInv' /\ HandledInv'
  <2> DEFINE e == [snap |-> [send |-> sendSeq, recv |-> seq], cont |-> Process(seq, recvSeq)]
  <2>1. /\ saves' = Append(saves, e) /\ recvSeq' = seq /\ recvSeq < seq
        /\ proc # "down" /\ proc' # "down" /\ UNCHANGED <<stable, conts, handled, replayed>>
    BY ZenonT(30), <1>3 DEF receive, save, hist
  <2>2. seq \in Nat /\ e \in Entries
    BY <1>0, EntryTypes, ContTypes
  <2>3. LoRecv(e) = seq - 1 /\ e.snap.recv = seq
    BY ZenonT(30) DEF IsProcess, Process, LoRecv
  <2> HIDE DEF e
  <2> QED BY <1>0, <2>1, <2>2, <2>3, RecvPush
<1>4. CASE persistSnapshot
  <2> DEFINE e == [snap |-> [send |-> sendSeq, recv |-> recvSeq], cont |-> NoCont]
  <2>1. /\ saves' = Append(saves, e) /\ recvSeq' = recvSeq
        /\ proc # "down" /\ proc' # "down" /\ UNCHANGED <<stable, conts, handled, replayed>>
    BY ZenonT(30), <1>4 DEF persistSnapshot, save, mem, hist
  <2>2. e \in Entries
    BY ZenonT(30), <1>0, EntryTypes, ContTypes
  <2>3. LoRecv(e) = recvSeq /\ e.snap.recv = recvSeq
    BY ContTypes DEF IsProcess, LoRecv
  <2> HIDE DEF e
  <2> QED BY <1>0, <2>1, <2>2, <2>3, RecvPush
<1>5. CASE RunContinuation
    BY ZenonT(30), <1>5, RecvRun
<1>6. ASSUME NEW i \in 1 .. Len(saves), SaveDone(i) \/ SaveFails(i) PROVE RecvInv' /\ HandledInv'
    BY ZenonT(30), <1>6, RecvDone DEF SaveFails
<1>7. CASE Crash
    BY <1>7, RecvCrash
<1>8. CASE restore
    BY <1>8, RecvRestore
<1>9. CASE UNCHANGED vars
    BY ZenonT(30), <1>9 DEF vars, mem, hist, RInv, RecvInv, HandledInv, RecvUsed, LoRecv, IsProcess
<1> QED BY <1>1, <1>2, <1>3, <1>4, <1>5, <1>6, <1>7, <1>8, <1>9 DEF Next

LEMMA RInvInit == Init => RInv
<1> SUFFICES ASSUME Init PROVE RInv
    OBVIOUS
<1>1. \A i \in 1 .. Len(<<>>) : FALSE
    OBVIOUS
<1>2. IInv
    BY IInvInit
<1>3. RecvInv
    BY <1>1 DEF Init, RecvInv
<1>4. \A n \in Nat : ~RecvUsed(n)
    BY <1>1 DEF Init, RecvUsed
<1> QED BY <1>1, <1>2, <1>3, <1>4 DEF Init, RInv, HandledInv


\* A rejected call is never forgotten
LEMMA RejectedStays == TypeOK /\ [Next]_vars /\ rejected' = FALSE => rejected = FALSE
<1> SUFFICES ASSUME TypeOK, [Next]_vars, rejected' = FALSE PROVE rejected = FALSE
    BY ZenonT(30)
<1>1. CASE UNCHANGED vars
    BY <1>1 DEF vars, hist
<1>2. CASE Next
    BY ZenonT(30), <1>2 DEF Next, close, nextSendSeq, receive, persistSnapshot, RunContinuation,
                SaveDone, SaveFails, Crash, restore, hist
<1> QED BY ZenonT(30), <1>1, <1>2

\* With an adapter that completes saves in the order issued, no frame of the
\* peer is processed twice while no call is rejected: the receive handlers
\* write recvSeq ahead of the processing, whatever crashes and restores follow.
THEOREM FramesOnce == FifoSaves => (Spec => []NoReplay)
<1> SUFFICES ASSUME FifoSaves PROVE Spec => []NoReplay
    OBVIOUS
<1> DEFINE QInv == IInv /\ (rejected = FALSE => RInv)
<1>1. Init => QInv
    BY RInvInit DEF RInv
<1>2. QInv /\ [Next]_vars => QInv'
  <2> SUFFICES ASSUME QInv, [Next]_vars PROVE QInv'
    BY ZenonT(30)
  <2>1. IInv'
    BY IInvStep
  <2>2. ASSUME rejected' = FALSE PROVE RInv'
    <3>1. rejected = FALSE
      BY ZenonT(30), <2>2, RejectedStays DEF IInv
    <3> QED BY <2>2, <3>1, RInvStep
  <2> QED BY ZenonT(30), <2>1, <2>2
<1>3. QInv => NoReplay
    BY DEF RInv, HandledInv, NoReplay
<1> HIDE DEF QInv
<1> QED BY <1>1, <1>2, <1>3, PTL DEF Spec
=============================================================================
