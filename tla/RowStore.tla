----------------------------- MODULE RowStore -----------------------------
(***************************************************************************)
(* adapter/row_store.cpp: the store behind one rank's Engram layer.  Any   *)
(* number of threads run row_store_lookup at once over one direct-mapped   *)
(* cache, whose slots are guarded by a fixed array of striped locks, while *)
(* another thread may read the counters.  A row is a 256-byte weight block *)
(* and an 8-byte scale block, read from the file in two separate reads;    *)
(* copies between a row and a cache slot go block by block, so a missing   *)
(* lock would show as a row torn between two ids.                          *)
(*                                                                         *)
(* A read that fails or comes back short aborts the whole process.  A read *)
(* that is interrupted (EINTR) is retried by the code at once and is a     *)
(* stuttering step here.  DirectRead models the arithmetic of one read.    *)
(***************************************************************************)
EXTENDS Integers, Sequences, FiniteSets

CONSTANTS
  Threads,   \* threads that call row_store_lookup
  NoThread,  \* owner of a free lock
  Rows,      \* rows of the table
  Table,     \* the file: row id -> its two blocks
  Blocks,    \* the values a weight or scale block can have
  Zero,      \* the block of zero bytes
  Stale,     \* a block a caller's output buffer still holds from before
  Works,     \* id lists a caller can pass, any int64 among the ids
  Budgets,   \* cache budgets in bytes the constructor can pass
  Ranges,    \* ownership ranges [lo, hi] the constructor can pass
  NumLocks,  \* 256 in the code
  MaxCalls,      \* bound on the lookups of a behaviour
  MaxSnapshots   \* bound on the snapshots of the counters

RowIds == 0..(Rows - 1)
Fields == {"w", "s"}  \* the weight block and the scale block of a row
Row == [Fields -> Blocks]
ZeroRow == [f \in Fields |-> Zero]

ASSUME RowsAssumption == Rows \in Nat
ASSUME TableAssumption == Table \in [RowIds -> Row] /\ {Zero, Stale} \subseteq Blocks
ASSUME WorksAssumption == Works \subseteq Seq(Int)
ASSUME BudgetsAssumption == Budgets \subseteq Nat
ASSUME RangesAssumption == Ranges \subseteq [lo : Nat, hi : Nat]
ASSUME LocksAssumption == NumLocks \in Nat \ {0} /\ NoThread \notin Threads
ASSUME ThreadsAssumption == IsFiniteSet(Threads)
ASSUME BoundsAssumption == MaxCalls \in Nat /\ MaxSnapshots \in Nat

VARIABLES
  status,              \* "unopened", "open", "refused", "aborted" or "closed"
  mode,                \* "nvme" (direct reads) or "ram" (locked mapping)
  slots, rowLo, rowHi, \* cache slots and owned range
  cache, keys,         \* slot -> row; slot -> id + 1, or 0 for an empty slot
  locks,               \* stripe -> the thread that holds it
  hits, misses, reads, \* the atomic counters
  pc, ids, next, row,  \* per thread: step, request, loop index, local row
  out,                 \* per thread: position -> row written to the output
  statsPc, stats,      \* the reader of the counters and what it has read
  calls, served,       \* history: lookups begun, owned rows delivered
  snapshots            \* history: snapshots begun

config == <<mode, slots, rowLo, rowHi>>
counters == <<hits, misses, reads>>
observer == <<statsPc, stats, snapshots>>
afterStatus == <<config, cache, keys, locks, counters, pc, ids, next, row, out,
                 observer, calls, served>>
vars == <<status, afterStatus>>

Steps == {"idle", "loop", "probe", "copyW", "copyS", "hit", "readW", "readS",
          "miss", "fillW", "fillS", "key", "unlock", "emit"}

EntryBytes == 264 + 8  \* a cached row and its key

SlotCount(m, budget) == IF m = "ram" THEN 0 ELSE budget \div EntryBytes

\* The key of an occupied slot is never 0, the value fresh memory holds.
KeyOf_NoSentinel(id) == id  \* mutation
KeyOf(id) == id + 1

SlotOf(id) == IF slots > 0 THEN id % slots ELSE 0

LockOf_ById(id) == id % NumLocks  \* mutation: ids of one slot take different locks
LockOf(id) == SlotOf(id) % NumLocks

Id(t) == ids[t][next[t]]
Owned(id) == rowLo <= id /\ id < rowHi

Init ==
  /\ status = "unopened" /\ mode = "nvme"
  /\ slots = 0 /\ rowLo = 0 /\ rowHi = Rows
  /\ cache = << >> /\ keys = << >>
  /\ locks = [l \in 0..(NumLocks - 1) |-> NoThread]
  /\ hits = 0 /\ misses = 0 /\ reads = 0
  /\ pc = [t \in Threads |-> "idle"]
  /\ ids = [t \in Threads |-> << >>]
  /\ next = [t \in Threads |-> 1]
  /\ row = [t \in Threads |-> ZeroRow]
  /\ out = [t \in Threads |-> << >>]
  /\ statsPc = "idle" /\ stats = [hits |-> 0, misses |-> 0, reads |-> 0]
  /\ calls = 0 /\ served = 0 /\ snapshots = 0
-----------------------------------------------------------------------------
(* Opening, narrowing and closing the store: one thread, no lookup running *)

Halt(how) == status' = how /\ UNCHANGED afterStatus

\* open() fails and the caller gets a null pointer, or a later check fails
\* (table extent, mapping, mlock, cache allocation) and the process aborts.
OpenFails == status = "unopened" /\ (Halt("refused") \/ Halt("aborted"))

Open(m, budget) ==
  /\ status = "unopened"
  /\ status' = "open"
  /\ mode' = m
  /\ slots' = SlotCount(m, budget)
  /\ rowLo' = 0 /\ rowHi' = Rows
  /\ cache' = [k \in 0..(slots' - 1) |-> ZeroRow]
  /\ keys' = [k \in 0..(slots' - 1) |-> 0]
  /\ UNCHANGED <<locks, counters, pc, ids, next, row, out, observer, calls, served>>

\* Mutation: the range is taken as it comes.
SetRange_Unchecked(lo, hi) ==
  /\ status = "open" /\ calls = 0
  /\ rowLo' = lo /\ rowHi' = hi
  /\ UNCHANGED <<status, mode, slots, cache, keys, locks, counters, pc, ids,
                 next, row, out, observer, calls, served>>
\* row_store_range, called once by the adapter before its first lookup.
SetRange(lo, hi) ==
  /\ status = "open" /\ calls = 0
  /\ \/ (lo > hi \/ hi > Rows) /\ Halt("aborted")
     \/ /\ lo <= hi /\ hi <= Rows
        /\ rowLo' = lo /\ rowHi' = hi
        /\ UNCHANGED <<status, mode, slots, cache, keys, locks, counters, pc, ids,
                       next, row, out, observer, calls, served>>

\* The tests close the store once every caller has returned; the adapter never.
Close ==
  /\ status = "open" /\ statsPc = "idle"
  /\ \A t \in Threads : pc[t] = "idle"
  /\ Halt("closed")
-----------------------------------------------------------------------------
(* row_store_lookup                                                        *)

Begin(t, work) ==
  /\ status = "open" /\ pc[t] = "idle" /\ calls < MaxCalls
  /\ calls' = calls + 1
  /\ pc' = [pc EXCEPT ![t] = "loop"]
  /\ ids' = [ids EXCEPT ![t] = work]
  /\ next' = [next EXCEPT ![t] = 1]
  /\ out' = [out EXCEPT ![t] = [p \in 1..Len(work) |-> [f \in Fields |-> Stale]]]
  /\ UNCHANGED <<status, config, cache, keys, locks, counters, row, observer, served>>

\* A step of thread t that leaves its request and the configuration alone.
Goto(t, from, to) ==
  /\ status = "open" /\ pc[t] = from
  /\ pc' = [pc EXCEPT ![t] = to]
  /\ UNCHANGED <<status, config, ids, observer, calls>>

Return(t) ==
  /\ next[t] > Len(ids[t])
  /\ Goto(t, "loop", "idle")
  /\ UNCHANGED <<cache, keys, locks, counters, next, row, out, served>>

\* The loop is at an id that is still to be looked up.
AtId(t) == pc[t] = "loop" /\ next[t] <= Len(ids[t])

\* An id outside the table aborts the process.
Reject(t) == status = "open" /\ AtId(t) /\ Id(t) \notin RowIds /\ Halt("aborted")

\* Writes the current position of the output and moves on to the next id.
Deliver(t, from, r) ==
  /\ Goto(t, from, "loop")
  /\ out' = [out EXCEPT ![t][next[t]] = r]
  /\ next' = [next EXCEPT ![t] = @ + 1]
  /\ UNCHANGED <<cache, keys, locks, counters, row>>

\* A row of another rank: zeroes, without taking a lock.
Foreign(t) ==
  /\ AtId(t) /\ Id(t) \in RowIds /\ ~Owned(Id(t))
  /\ Deliver(t, "loop", ZeroRow)
  /\ UNCHANGED served

\* Mutation: a row is looked up without waiting for its stripe.
Lock_Unguarded(t) ==
  /\ AtId(t) /\ Id(t) \in RowIds /\ Owned(Id(t))
  /\ locks' = [locks EXCEPT ![LockOf(Id(t))] = t]
  /\ Goto(t, "loop", "probe")
  /\ UNCHANGED <<cache, keys, counters, next, row, out, served>>
Lock(t) ==
  /\ AtId(t) /\ Id(t) \in RowIds /\ Owned(Id(t))
  /\ locks[LockOf(Id(t))] = NoThread
  /\ locks' = [locks EXCEPT ![LockOf(Id(t))] = t]
  /\ Goto(t, "loop", "probe")
  /\ UNCHANGED <<cache, keys, counters, next, row, out, served>>

Probe(t) ==
  /\ Goto(t, "probe", IF slots > 0 /\ keys[SlotOf(Id(t))] = KeyOf(Id(t))
                      THEN "copyW" ELSE "readW")
  /\ UNCHANGED <<cache, keys, locks, counters, next, row, out, served>>

\* Hit: memcpy of the slot, block by block, then the hit counter.
Copy(t, block, from, to) ==
  /\ Goto(t, from, to)
  /\ row' = [row EXCEPT ![t][block] = cache[SlotOf(Id(t))][block]]
  /\ UNCHANGED <<cache, keys, locks, counters, next, out, served>>

CountHit(t) ==
  /\ Goto(t, "hit", "unlock")
  /\ hits' = hits + 1
  /\ UNCHANGED <<cache, keys, locks, misses, reads, next, row, out, served>>

\* Miss: read_bytes once for each block; only a direct read is counted.
Read(t, block, from, to) ==
  /\ Goto(t, from, to)
  /\ row' = [row EXCEPT ![t][block] = Table[Id(t)][block]]
  /\ reads' = IF mode = "nvme" THEN reads + 1 ELSE reads
  /\ UNCHANGED <<cache, keys, locks, hits, misses, next, out, served>>

\* Mutation: a short read is taken for a whole one.
ReadFails_Unchecked(t) ==
  /\ mode = "nvme"
  /\ Goto(t, "readW", "readS") \/ Goto(t, "readS", "miss")
  /\ UNCHANGED <<cache, keys, locks, counters, next, row, out, served>>
\* A failed or short direct read aborts the process.
ReadFails(t) ==
  /\ status = "open" /\ mode = "nvme" /\ pc[t] \in {"readW", "readS"}
  /\ Halt("aborted")

\* Mutation: a miss is counted only when there is a cache to miss.
CountMiss_CachedOnly(t) ==
  /\ Goto(t, "miss", IF slots > 0 THEN "fillW" ELSE "unlock")
  /\ misses' = IF slots > 0 THEN misses + 1 ELSE misses
  /\ UNCHANGED <<cache, keys, locks, hits, reads, next, row, out, served>>
CountMiss(t) ==
  /\ Goto(t, "miss", IF slots > 0 THEN "fillW" ELSE "unlock")
  /\ misses' = misses + 1
  /\ UNCHANGED <<cache, keys, locks, hits, reads, next, row, out, served>>

\* The slot receives the row first and its key last.
Fill(t, block, from, to) ==
  /\ Goto(t, from, to)
  /\ cache' = [cache EXCEPT ![SlotOf(Id(t))][block] = row[t][block]]
  /\ UNCHANGED <<keys, locks, counters, next, row, out, served>>

SetKey(t) ==
  /\ Goto(t, "key", "unlock")
  /\ keys' = [keys EXCEPT ![SlotOf(Id(t))] = KeyOf(Id(t))]
  /\ UNCHANGED <<cache, locks, counters, next, row, out, served>>

\* Mutation: the stripe stays locked.
Unlock_Forgotten(t) ==
  /\ Goto(t, "unlock", "emit")
  /\ UNCHANGED <<cache, keys, locks, counters, next, row, out, served>>
Unlock(t) ==
  /\ Goto(t, "unlock", "emit")
  /\ locks' = [locks EXCEPT ![LockOf(Id(t))] = NoThread]
  /\ UNCHANGED <<cache, keys, counters, next, row, out, served>>

Emit(t) == Deliver(t, "emit", row[t]) /\ served' = served + 1
-----------------------------------------------------------------------------
(* row_store_stats: the three counters are loaded one after the other      *)

Load(from, to, loaded) ==
  /\ status = "open" /\ statsPc = from
  /\ statsPc' = to /\ stats' = loaded
  /\ snapshots' = IF from = "idle" THEN snapshots + 1 ELSE snapshots
  /\ from = "idle" => snapshots < MaxSnapshots
  /\ UNCHANGED <<status, config, cache, keys, locks, counters, pc, ids, next,
                 row, out, calls, served>>

\* Mutation: the reads are loaded first.
Stats_ReadsFirst ==
  \/ Load("idle", "misses", [stats EXCEPT !.reads = reads])
  \/ Load("misses", "reads", [stats EXCEPT !.misses = misses])
  \/ Load("reads", "idle", [stats EXCEPT !.hits = hits])
Stats ==
  \/ Load("idle", "misses", [stats EXCEPT !.hits = hits])
  \/ Load("misses", "reads", [stats EXCEPT !.misses = misses])
  \/ Load("reads", "idle", [stats EXCEPT !.reads = reads])
-----------------------------------------------------------------------------
Step(t) ==
  \/ Return(t) \/ Reject(t) \/ Foreign(t) \/ Lock(t) \/ Probe(t)
  \/ Copy(t, "w", "copyW", "copyS") \/ Copy(t, "s", "copyS", "hit")
  \/ CountHit(t)
  \/ Read(t, "w", "readW", "readS") \/ Read(t, "s", "readS", "miss")
  \/ ReadFails(t) \/ CountMiss(t)
  \/ Fill(t, "w", "fillW", "fillS") \/ Fill(t, "s", "fillS", "key")
  \/ SetKey(t) \/ Unlock(t) \/ Emit(t)

\* A store that was refused, aborted or closed does nothing more.
Stopped == status \notin {"unopened", "open"} /\ UNCHANGED vars

Next ==
  \/ OpenFails
  \/ \E m \in {"nvme", "ram"}, budget \in Budgets : Open(m, budget)
  \/ \E range \in Ranges : SetRange(range.lo, range.hi)
  \/ Close
  \/ \E t \in Threads : Step(t) \/ \E work \in Works : Begin(t, work)
  \/ Stats
  \/ Stopped

Spec == Init /\ [][Next]_vars

\* A thread inside row_store_lookup keeps running: the operating system
\* schedules it and every direct read it waits for comes back.
FairSpec == Spec /\ \A t \in Threads : WF_vars(Step(t))
-----------------------------------------------------------------------------
(* Properties                                                              *)

TypeOK ==
  /\ status \in {"unopened", "open", "refused", "aborted", "closed"}
  /\ mode \in {"nvme", "ram"}
  /\ slots \in Nat /\ rowLo \in Nat /\ rowHi \in 0..Rows /\ rowLo <= rowHi
  /\ cache \in [0..(slots - 1) -> Row] /\ keys \in [0..(slots - 1) -> 0..Rows]
  /\ locks \in [0..(NumLocks - 1) -> Threads \cup {NoThread}]
  /\ hits \in Nat /\ misses \in Nat /\ reads \in Nat
  /\ pc \in [Threads -> Steps]
  /\ ids \in [Threads -> Seq(Int)]
  /\ next \in [Threads -> Nat \ {0}]
  /\ row \in [Threads -> Row]
  /\ out \in [Threads -> Seq(Row)]
  /\ statsPc \in {"idle", "misses", "reads"}
  /\ stats \in [hits : Nat, misses : Nat, reads : Nat]
  /\ calls \in Nat /\ served \in Nat /\ snapshots \in Nat

Holding == Steps \ {"idle", "loop", "emit"}
Filling(t, k) == pc[t] \in {"fillS", "key"} /\ SlotOf(Id(t)) = k

\* No two threads are ever between lock and unlock on the same cache slot,
\* although there are fewer locks than slots (row_store.cpp:99-113).
SlotExclusive ==
  \A t, u \in Threads :
    t # u /\ pc[t] \in Holding /\ pc[u] \in Holding
      => SlotOf(Id(t)) # SlotOf(Id(u))

SlotExact(k) ==
  keys[k] # 0 =>
    \E id \in RowIds :
      /\ KeyOf(id) = keys[k] /\ Owned(id) /\ SlotOf(id) = k
      /\ (\A t \in Threads : ~Filling(t, k)) => cache[k] = Table[id]

\* A slot with a key holds both blocks of the row of that key, in full, and
\* the row is one this rank owns and belongs in that slot, unless a thread
\* is overwriting the slot under its lock (row_store.cpp:101-111).
CacheExact == \A k \in 0..(slots - 1) : SlotExact(k)

Expected(id) == IF Owned(id) THEN Table[id] ELSE ZeroRow

\* Every position a lookup has passed holds the exact row of its id, never
\* a stale, torn or foreign one, whatever the other callers do and whichever
\* reads fail (row_store.cpp:1, 35 and 87-117).
OutputExact ==
  \A t \in Threads : \A p \in 1..(next[t] - 1) : out[t][p] = Expected(ids[t][p])

At(steps) == Cardinality({t \in Threads : pc[t] \in steps})

\* Each owned row delivered is one hit or one miss, and each miss two direct
\* reads (none from a resident table), counting what is under way
\* (row_store.cpp:51, 103, 107 and tests/test_row_store.py:45).
CountersBalance ==
  /\ hits + misses = served + At({"unlock", "emit", "fillW", "fillS", "key"})
  /\ reads = IF mode = "ram" THEN 0 ELSE 2 * misses + At({"readS"}) + 2 * At({"miss"})

\* The counters are loaded one by one while lookups run, yet a finished
\* snapshot never shows a miss without its two reads (row_store.cpp:119-122).
SnapshotOrdered ==
  statsPc = "idle" /\ mode = "nvme" => stats.reads >= 2 * stats.misses

\* A lookup that has begun returns, unless the process aborts: no order in
\* which the callers take the striped locks leaves one waiting forever.
LookupsReturn ==
  \A t \in Threads : pc[t] # "idle" ~> (pc[t] = "idle" \/ status = "aborted")

\* The store implements its abstract specification: all the callers see is
\* that a lookup, some time after it began, returns the exact rows.
Abstract == INSTANCE ExactLookup WITH
  up <- status \in {"unopened", "open"},
  owned <- [lo |-> rowLo, hi |-> rowHi],
  request <- ids,
  busy <- [t \in Threads |-> pc[t] # "idle"],
  reply <- [t \in Threads |-> IF pc[t] = "idle" THEN out[t] ELSE << >>]

ImplementsExactLookup == Abstract!Spec
=============================================================================
