---------------------------- MODULE RelayCapacity ----------------------------
(***************************************************************************)
(* The relay's global channel limit (store.rs, session.rs): an atomic      *)
(* counter total_channels beside the sharded maps.  A connection task      *)
(* reads the counter before it takes the shard lock, runs the handler      *)
(* under the lock, and adjusts the counter after it released the lock; the *)
(* cleanup task sweeps the shards one by one and subtracts once at the     *)
(* end.  All of these steps interleave.                                    *)
(*                                                                         *)
(* A channel is reduced to what decides the fate of a create: absent,      *)
(* replaceable (waiting, or connected with a dead dApp connection) or      *)
(* taken (pending accept, or connected with a live dApp).                  *)
(***************************************************************************)
EXTENDS Integers, FiniteSets

CONSTANTS
    Channels,       \* channel ids
    Tasks,          \* connection tasks
    Shards,         \* number of shards
    ShardOf,        \* shard_index
    MaxChannels,    \* config.max_channels
    Usize,          \* 2^64: the modulus of AtomicUsize
    MaxLost         \* bound on the history counter `lost`

CapacityConstants ==
    /\ IsFiniteSet(Channels) /\ IsFiniteSet(Tasks) /\ Tasks # {}
    /\ Shards \in Nat \ {0}
    /\ ShardOf \in [Channels -> 1 .. Shards]
    /\ MaxChannels \in Nat /\ MaxLost \in Nat
    /\ Usize \in Nat \ {0}

\* The counter has values to spare: no number of channels in memory, nor the
\* limit, comes near 2^64
WideCounter ==
    /\ 2 * Cardinality(Channels) + MaxLost + Cardinality(Tasks) < Usize
    /\ MaxChannels + Cardinality(Tasks) <= Usize

ASSUME CapacityAssumption == CapacityConstants /\ WideCounter

VARIABLES
    present,    \* channels in the shard maps
    taken,      \* those of them whose re-create is rejected
    total,      \* total_channels
    pc,         \* pc[t]: idle, a create that read the counter, or owes an update
    sweep,      \* shard the cleanup task locks next; Shards + 1: the subtraction
    swept,      \* channels it removed so far in this sweep
    lost        \* history: removals that no counter update accounts for

capacityVars == <<present, taken, total, pc, sweep, swept, lost>>

Steps == {"idle", "room", "full", "inc", "dec"}
In(step) == {t \in Tasks : pc[t] = step}

CapacityInit ==
    /\ present = {} /\ taken = {}
    /\ total = 0
    /\ pc = [t \in Tasks |-> "idle"]
    /\ sweep = 1 /\ swept = 0
    /\ lost = 0

-----------------------------------------------------------------------------
(* Connection tasks *)

\* Mutant: one channel too many
at_capacity_exceeded(t) ==
    /\ pc[t] = "idle"
    /\ pc' = [pc EXCEPT ![t] = IF total > MaxChannels THEN "full" ELSE "room"]
    /\ UNCHANGED <<present, taken, total, sweep, swept, lost>>

\* at_capacity, read before the shard is locked; only a create uses it
at_capacity(t) ==
    /\ pc[t] = "idle"
    /\ pc' = [pc EXCEPT ![t] = IF total >= MaxChannels THEN "full" ELSE "room"]
    /\ UNCHANGED <<present, taken, total, sweep, swept, lost>>

\* handle_create on ch: channel_exists; or remove_channel and then the limit;
\* or a new channel, whether or not an old one was removed for it
create_channel(t, ch) ==
    /\ pc[t] \in {"room", "full"}
    /\ \/ /\ ch \in taken
          /\ pc' = [pc EXCEPT ![t] = "idle"]
          /\ UNCHANGED <<present, lost>>
       \/ /\ ch \notin taken /\ pc[t] = "full"
          /\ present' = present \ {ch}
          /\ pc' = [pc EXCEPT ![t] = "idle"]
          /\ lost' = IF ch \in present THEN lost + 1 ELSE lost
       \/ /\ ch \notin taken /\ pc[t] = "room"
          /\ present' = present \cup {ch}
          /\ pc' = [pc EXCEPT ![t] = "inc"]
          /\ lost' = IF ch \in present THEN lost + 1 ELSE lost
    /\ lost' <= MaxLost
    /\ UNCHANGED <<taken, total, sweep, swept>>

\* Mutant: the close handler reports Ok instead of OkRemoved
remove_channel_uncounted(t, ch) ==
    /\ pc[t] = "idle" /\ ch \in present
    /\ present' = present \ {ch}
    /\ taken' = taken \ {ch}
    /\ UNCHANGED <<pc, total, sweep, swept, lost>>

\* handle_close by a peer of ch
remove_channel(t, ch) ==
    /\ pc[t] = "idle" /\ ch \in present
    /\ present' = present \ {ch}
    /\ taken' = taken \ {ch}
    /\ pc' = [pc EXCEPT ![t] = "dec"]
    /\ UNCHANGED <<total, sweep, swept, lost>>

\* OkCreated and OkRemoved, after the lock was released
inc_total(t) ==
    /\ pc[t] = "inc"
    /\ total' = (total + 1) % Usize
    /\ pc' = [pc EXCEPT ![t] = "idle"]
    /\ UNCHANGED <<present, taken, sweep, swept, lost>>

dec_total(t) ==
    /\ pc[t] = "dec"
    /\ total' = (total - 1) % Usize
    /\ pc' = [pc EXCEPT ![t] = "idle"]
    /\ UNCHANGED <<present, taken, sweep, swept, lost>>

\* join, accept, and connections coming and going: RelayChannel has the detail
Progress(ch) ==
    /\ ch \in present
    /\ taken' = IF ch \in taken THEN taken \ {ch} ELSE taken \cup {ch}
    /\ UNCHANGED <<present, total, pc, sweep, swept, lost>>

-----------------------------------------------------------------------------
(* The cleanup task and a restart *)

\* cleanup_expired on one shard: which of its channels are old is arbitrary
cleanup_shard(expired) ==
    /\ sweep <= Shards
    /\ expired \subseteq {ch \in present : ShardOf[ch] = sweep}
    /\ present' = present \ expired
    /\ taken' = taken \ expired
    /\ swept' = swept + Cardinality(expired)
    /\ sweep' = sweep + 1
    /\ UNCHANGED <<total, pc, lost>>

\* fetch_sub of what the whole sweep removed
cleanup_total ==
    /\ sweep = Shards + 1
    /\ total' = (total - swept) % Usize
    /\ sweep' = 1 /\ swept' = 0
    /\ UNCHANGED <<present, taken, pc, lost>>

\* The process is restarted with the channels of its state file, or without
\* any: from_single counts what it loads.  The loaded channels have no
\* connections, so a connected one is replaceable.
from_single(saved) ==
    /\ saved \in {present, {}}
    /\ present' = saved
    /\ taken' \in SUBSET (taken \cap saved)
    /\ total' = Cardinality(saved)
    /\ pc' = [t \in Tasks |-> "idle"]
    /\ sweep' = 1 /\ swept' = 0
    /\ lost' = 0

-----------------------------------------------------------------------------
CapacityNext ==
    \/ \E t \in Tasks :
         \/ at_capacity(t)
         \/ inc_total(t)
         \/ dec_total(t)
         \/ \E ch \in Channels : create_channel(t, ch) \/ remove_channel(t, ch)
    \/ \E ch \in Channels : Progress(ch)
    \/ \E expired \in SUBSET present : cleanup_shard(expired)
    \/ cleanup_total
    \/ \E saved \in SUBSET Channels : from_single(saved)

CapacitySpec == CapacityInit /\ [][CapacityNext]_capacityVars

-----------------------------------------------------------------------------
(* Properties *)

\* Tasks and the sweep are at one of their steps and the counter is a usize
CapacityTypeOK ==
    /\ present \subseteq Channels /\ taken \subseteq present
    /\ total \in 0 .. Usize - 1
    /\ pc \in [Tasks -> Steps]
    /\ sweep \in 1 .. Shards + 1
    /\ swept \in Nat /\ lost \in Nat

\* Accounting.  The counter is off from the number of channels by exactly the
\* updates still owed and the removals inside handle_create that nobody owes:
\* no interleaving of creates, closes, a sweep in progress and a restart loses
\* or doubles any other update, even when the counter wraps below zero.
Accounting ==
    /\ CapacityTypeOK
    /\ total = (Cardinality(present) + lost + Cardinality(In("dec"))
                  - Cardinality(In("inc")) + swept) % Usize

\* The limit is approximate, but only by the number of connection tasks:
\* every task past the limit read the counter before another one's update.
OvershootBounded ==
    Cardinality(present) + Cardinality(In("room"))
        <= MaxChannels + Cardinality(Tasks) - 1
=============================================================================
