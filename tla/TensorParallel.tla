-------------------------- MODULE TensorParallel --------------------------
(***************************************************************************)
(* adapter/engram_backend.py, init: how the ranks of a tensor-parallel     *)
(* group share the Engram tables and one cache budget.  Each rank opens    *)
(* one store per Engram layer on the whole table and narrows it to its own *)
(* range; a store answers an id with the row when the id is in its range   *)
(* and with zeroes otherwise (RowStore).  The model then adds the answers  *)
(* of all ranks in an all-reduce, which is correct only if every row has   *)
(* one owner.                                                              *)
(*                                                                         *)
(* A row is represented by a positive number and the zero row by 0.        *)
(***************************************************************************)
EXTENDS Integers, FiniteSets, Functions

CONSTANTS
  TableSizes,   \* num_embeddings a layer can have
  TpSizes,      \* tensor-parallel sizes
  CacheSizes,   \* DSV41_CACHE_GIB in bytes, the budget of the machine
  Layers        \* the Engram layers

ASSUME TableAssumption == TableSizes \subseteq Nat
ASSUME TpAssumption == TpSizes \subseteq Nat \ {0}
ASSUME CacheAssumption == CacheSizes \subseteq Nat
ASSUME LayersAssumption == IsFiniteSet(Layers) /\ Cardinality(Layers) <= 2  \* boot.py:152

VARIABLES
  tpSize, cacheBytes,
  tableSize,  \* layer -> rows of its table
  store,      \* <<rank, layer>> -> its store, for the stores built so far
  status,     \* "constructing", "serving", "failed" or "aborted"
  sum         \* the last all-reduced row: [id, row], or << >>

setup == <<tpSize, cacheBytes, tableSize>>
vars == <<setup, store, status, sum>>

Ranks == 0..(tpSize - 1)
EntryBytes == 264 + 8

\* The bounds of the ranges are rounded down; a rank ends where the next starts.
RowStart_CountedFromOne(n, rank, tp) == (n * (rank - 1)) \div tp   \* mutation
RowStart_RoundedShare(n, rank, tp) == ((n + tp - 1) \div tp) * rank  \* mutation
RowStart_WholeShare(n, rank, tp) == (n \div tp) * rank               \* mutation
RowStart(n, rank, tp) == (n * rank) \div tp

\* The budget is split over the ranks and the two Engram layers.
Budget_PerRank(cache, tp) == cache \div tp  \* mutation: the layers forgotten
Budget(cache, tp) == cache \div (2 * tp)

\* What row_store_lookup answers for id: its row, or 0 when another rank owns it.
Answer_InclusiveEnd(s, id) == IF s.lo <= id /\ id <= s.hi THEN id + 1 ELSE 0  \* mutation
Answer(s, id) == IF s.lo <= id /\ id < s.hi THEN id + 1 ELSE 0

Init ==
  /\ tpSize \in TpSizes /\ cacheBytes \in CacheSizes
  /\ tableSize \in [Layers -> TableSizes]
  /\ store = [x \in {} |-> 0]
  /\ status = "constructing"
  /\ sum = << >>

\* One rank opens the store of one layer: row_store_open, then
\* row_store_range, which aborts on a range outside the table.
Construct(rank, l) ==
  LET lo == RowStart(tableSize[l], rank, tpSize)
      hi == RowStart(tableSize[l], rank + 1, tpSize)
      new == [lo |-> lo, hi |-> hi, slots |-> Budget(cacheBytes, tpSize) \div EntryBytes]
  IN  /\ status = "constructing"
      /\ <<rank, l>> \notin DOMAIN store
      /\ \/ (lo > hi \/ hi > tableSize[l]) /\ status' = "aborted" /\ store' = store
         \/ /\ lo <= hi /\ hi <= tableSize[l]
            /\ status' = status
            /\ store' = [x \in DOMAIN store \cup {<<rank, l>>} |->
                           IF x = <<rank, l>> THEN new ELSE store[x]]
      /\ UNCHANGED <<setup, sum>>

\* A rank raises: its checkpoint header is not the expected one, the shard
\* cannot be opened, or the weight loader meets another shape afterwards.
Fails ==
  /\ status = "constructing" /\ status' = "failed"
  /\ UNCHANGED <<setup, store, sum>>

\* Every module of every rank is constructed before the model runs.
Start ==
  /\ status = "constructing" /\ DOMAIN store = Ranks \X Layers
  /\ status' = "serving"
  /\ UNCHANGED <<setup, store, sum>>

\* All ranks look up the same id and their answers are added.
AllReduce(l, id) ==
  /\ status = "serving"
  /\ sum' = [id |-> id,
             row |-> SumFunction([r \in Ranks |-> Answer(store[<<r, l>>], id)])]
  /\ UNCHANGED <<setup, store, status>>

\* The group has ended, or there is no row to look up.
Stopped ==
  /\ status \in {"failed", "aborted"} \/ (status = "serving" /\ \A l \in Layers : tableSize[l] = 0)
  /\ UNCHANGED vars

Next ==
  \/ \E rank \in Ranks, l \in Layers : Construct(rank, l)
  \/ Fails
  \/ Start
  \/ \E l \in Layers : \E id \in 0..(tableSize[l] - 1) : AllReduce(l, id)
  \/ Stopped

Spec == Init /\ [][Next]_vars
-----------------------------------------------------------------------------
TypeOK ==
  /\ tpSize \in TpSizes /\ cacheBytes \in CacheSizes
  /\ tableSize \in [Layers -> TableSizes]
  /\ status \in {"constructing", "serving", "failed", "aborted"}
  /\ DOMAIN store \subseteq Ranks \X Layers
  /\ \A x \in DOMAIN store : store[x] \in [lo : Nat, hi : Nat, slots : Nat]

Owners(l, id) == {r \in Ranks : store[<<r, l>>].lo <= id /\ id < store[<<r, l>>].hi}

\* Once every rank is up, each row of each table has one owner, whatever the
\* table size and the number of ranks (engram_backend.py:39-41).
OneOwner ==
  status = "serving" =>
    \A l \in Layers : \A id \in 0..(tableSize[l] - 1) :
      \E r \in Ranks : Owners(l, id) = {r}

\* The all-reduce rebuilds the row: nothing is lost, nothing counted twice.
SumExact == sum # << >> => sum.row = sum.id + 1

\* No table size and number of ranks makes the ownership check abort
\* (engram_backend.py:58, row_store.cpp:124).
RangesAccepted == status # "aborted"

\* The caches of all ranks and layers together stay within the configured
\* budget (engram_backend.py:53, row_store.cpp:75 and the README's "bounded").
WithinBudget ==
  SumFunction([x \in DOMAIN store |-> store[x].slots * EntryBytes]) <= cacheBytes
=============================================================================
