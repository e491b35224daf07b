------------------------ MODULE ConstructionProofs ------------------------
(***************************************************************************)
(* Proofs about how Engram layers come to be: for every table size, number *)
(* of ranks and budget the ranges the ranks ask for are accepted, every    *)
(* row has exactly one owner, the all-reduce rebuilds the row and the      *)
(* caches stay within the budget (TensorParallel); and in every process    *)
(* the layers are built by the constructor the import hook puts there when *)
(* it is enabled, and by the original one otherwise (ImportHook).          *)
(***************************************************************************)
EXTENDS TensorParallel, ImportHook, FiniteSetTheorems, NaturalsInduction, SequenceTheorems,
        WellFoundedInduction, TLAPS

-----------------------------------------------------------------------------
(* Sums over a finite set                                                  *)

\* The order SumFunction adds in, and its partial sums over the sets in D.
Pick(s) == CHOOSE x \in s : TRUE
Sums(f, D, g) == g = [s \in D |-> IF s = {} THEN 0 ELSE f[Pick(s)] + g[s \ {Pick(s)}]]
Level(S, n) == {s \in SUBSET S : Cardinality(s) <= n}

\* A set of naturals that is not empty has a least element.
LEMMA LeastElement ==
  ASSUME NEW T, T \subseteq Nat, T # {}
  PROVE  \E x \in T : \A y \in T : ~(y < x)
<1>1. IsWellFoundedOn(OpToRel(<, Nat), Nat)
  BY NatLessThanWellFounded
<1>2. \E x \in T : \A y \in T : ~(<<y, x>> \in OpToRel(<, Nat))
  BY <1>1, WFMin
<1>3. QED
  BY <1>2 DEF OpToRel

\* Taking the picked element away leaves a smaller set.
LEMMA PickSmaller ==
  ASSUME NEW S, IsFiniteSet(S), NEW s \in SUBSET S, s # {}
  PROVE  /\ Pick(s) \in s /\ s \ {Pick(s)} \in SUBSET S
         /\ Cardinality(s) \in Nat /\ Cardinality(s \ {Pick(s)}) \in Nat
         /\ Cardinality(s \ {Pick(s)}) = Cardinality(s) - 1
<1>1. Pick(s) \in s
  BY DEF Pick
<1>2. IsFiniteSet(s)
  BY FS_Subset
<1>3. IsFiniteSet(s \ {Pick(s)}) /\ Cardinality(s \ {Pick(s)}) = Cardinality(s) - 1
  BY <1>1, <1>2, FS_RemoveElement
<1>4. QED
  BY <1>1, <1>2, <1>3, FS_CardinalityType

\* The partial sums exist, one cardinality after another.
LEMMA SumsExist ==
  ASSUME NEW S, IsFiniteSet(S), NEW f
  PROVE  \E g : Sums(f, SUBSET S, g)
<1> DEFINE Bad == {n \in Nat : ~\E g : Sums(f, Level(S, n), g)}
<1>1. Level(S, Cardinality(S)) = SUBSET S /\ Cardinality(S) \in Nat
  BY FS_CardinalityType, FS_Subset DEF Level
<1>2. SUFFICES ASSUME Bad # {} PROVE FALSE
  BY <1>1
<1>3. PICK n \in Bad : \A m \in Bad : ~(m < n)
  BY <1>2, LeastElement
<1>4. CASE n = 0
  <2>1. ASSUME NEW s \in Level(S, 0) PROVE s = {}
    <3>1. IsFiniteSet(s) /\ Cardinality(s) \in Nat /\ Cardinality(s) <= 0
      BY FS_Subset, FS_CardinalityType DEF Level
    <3>2. QED
      BY <3>1, FS_EmptySet
  <2>2. Sums(f, Level(S, 0), [s \in Level(S, 0) |-> 0])
    BY <2>1 DEF Sums
  <2>3. QED
    BY <1>4, <2>2
<1>5. CASE n # 0
  <2>1. n - 1 \in Nat /\ n - 1 \notin Bad
    BY <1>3, <1>5
  <2>2. PICK h : Sums(f, Level(S, n - 1), h)
    BY <2>1
  <2> DEFINE g == [s \in Level(S, n) |-> IF s = {} THEN 0 ELSE f[Pick(s)] + h[s \ {Pick(s)}]]
  <2>3. \A s \in Level(S, n) : s # {} => s \ {Pick(s)} \in Level(S, n - 1)
    BY PickSmaller DEF Level
  <2>4. \A s \in Level(S, n - 1) : s \in Level(S, n)
    <3>1. ASSUME NEW s \in Level(S, n - 1) PROVE Cardinality(s) \in Nat
      BY FS_Subset, FS_CardinalityType DEF Level
    <3>2. QED
      BY <2>1, <3>1 DEF Level
  <2>5. \A s \in Level(S, n - 1) : g[s] = h[s]
    BY <2>2, <2>4 DEF Sums
  <2>6. Sums(f, Level(S, n), g)
    BY <2>3, <2>5 DEF Sums
  <2>7. QED
    BY <2>6
<1>6. QED
  BY <1>4, <1>5

\* The sum of a function is a partial sum over its whole domain.
LEMMA SumIs ==
  ASSUME NEW f, IsFiniteSet(DOMAIN f)
  PROVE  \E g : Sums(f, SUBSET DOMAIN f, g) /\ SumFunction(f) = g[DOMAIN f]
<1>1. SumFunction(f) = (CHOOSE g : Sums(f, SUBSET DOMAIN f, g))[DOMAIN f]
  BY Zenon DEF SumFunction, SumFunctionOnSet, FoldFunctionOnSet, MapThenFoldSet, Sums, Pick
<1>2. Sums(f, SUBSET DOMAIN f, CHOOSE g : Sums(f, SUBSET DOMAIN f, g))
  BY SumsExist
<1>3. QED
  BY <1>1, <1>2

\* The smallest of some finite sets.
LEMMA SmallestSet ==
  ASSUME NEW S, IsFiniteSet(S), NEW B, B \subseteq SUBSET S, B # {}
  PROVE  \E s \in B : \A t \in B : ~(Cardinality(t) < Cardinality(s))
<1> DEFINE T == {Cardinality(s) : s \in B}
<1>1. T \subseteq Nat /\ T # {}
  BY FS_Subset, FS_CardinalityType
<1>2. QED
  BY <1>1, LeastElement

\* When all values but one are zero, the sum is that one.
LEMMA SumOfOne ==
  ASSUME NEW f, IsFiniteSet(DOMAIN f), NEW z \in DOMAIN f, f[z] \in Int,
         \A x \in DOMAIN f : x # z => f[x] = 0
  PROVE  SumFunction(f) = f[z]
<1> DEFINE S == DOMAIN f
<1>1. PICK g : Sums(f, SUBSET S, g) /\ SumFunction(f) = g[S]
  BY SumIs
<1>2. \A s \in SUBSET S : g[s] = IF s = {} THEN 0 ELSE f[Pick(s)] + g[s \ {Pick(s)}]
  BY <1>1 DEF Sums
<1> DEFINE Bad == {s \in SUBSET S : g[s] # IF z \in s THEN f[z] ELSE 0}
<1>3. SUFFICES ASSUME Bad # {} PROVE FALSE
  BY <1>1
<1>4. PICK s \in Bad : \A t \in Bad : ~(Cardinality(t) < Cardinality(s))
  <2>1. Bad \subseteq SUBSET S
    OBVIOUS
  <2> HIDE DEF Bad, S
  <2>2. QED
    BY <1>3, <2>1, SmallestSet DEF S
<1>5. s # {}
  BY <1>2
<1> DEFINE t == s \ {Pick(s)}
<1>6. /\ Pick(s) \in s /\ t \in SUBSET S
      /\ Cardinality(s) \in Nat /\ Cardinality(t) = Cardinality(s) - 1
  BY <1>5, PickSmaller
<1>7. t \notin Bad
  BY <1>4, <1>6
<1>8. g[t] = IF z \in t THEN f[z] ELSE 0
  BY <1>6, <1>7
<1>9. g[s] = f[Pick(s)] + g[t]
  BY <1>2, <1>5
<1>10. CASE Pick(s) = z
  BY <1>6, <1>8, <1>9, <1>10
<1>11. CASE Pick(s) # z
  BY <1>6, <1>8, <1>9, <1>11
<1>12. QED
  BY <1>10, <1>11

\* A sum of values up to b is at most b for each of them.
LEMMA SumBound ==
  ASSUME NEW f, IsFiniteSet(DOMAIN f), NEW b \in Nat, \A x \in DOMAIN f : f[x] \in 0..b
  PROVE  SumFunction(f) \in Nat /\ SumFunction(f) <= Cardinality(DOMAIN f) * b
<1> DEFINE S == DOMAIN f
<1>1. PICK g : Sums(f, SUBSET S, g) /\ SumFunction(f) = g[S]
  BY SumIs
<1>2. \A s \in SUBSET S : g[s] = IF s = {} THEN 0 ELSE f[Pick(s)] + g[s \ {Pick(s)}]
  BY <1>1 DEF Sums
<1> DEFINE Bad == {s \in SUBSET S : ~(g[s] \in Nat /\ g[s] <= Cardinality(s) * b)}
<1>3. SUFFICES ASSUME Bad # {} PROVE FALSE
  BY <1>1
<1>4. PICK s \in Bad : \A t \in Bad : ~(Cardinality(t) < Cardinality(s))
  <2>1. Bad \subseteq SUBSET S
    OBVIOUS
  <2> HIDE DEF Bad, S
  <2>2. QED
    BY <1>3, <2>1, SmallestSet DEF S
<1>5. ASSUME s = {} PROVE FALSE
  <2>1. Cardinality(s) = 0 /\ g[s] = 0
    BY <1>2, <1>5, FS_EmptySet
  <2>2. QED
    BY <2>1
<1> DEFINE t == s \ {Pick(s)}
<1>6. /\ Pick(s) \in s /\ t \in SUBSET S
      /\ Cardinality(s) \in Nat /\ Cardinality(t) \in Nat
      /\ Cardinality(t) = Cardinality(s) - 1
  BY <1>5, PickSmaller
<1>7. t \notin Bad
  BY <1>4, <1>6
<1>8. g[t] \in Nat /\ g[t] <= Cardinality(t) * b
  BY <1>6, <1>7
<1>9. g[s] = f[Pick(s)] + g[t] /\ f[Pick(s)] \in 0..b
  BY <1>2, <1>5, <1>6
<1>10. g[s] \in Nat /\ g[s] <= b + Cardinality(t) * b
  <2>1. Cardinality(t) * b \in Int
    BY <1>6
  <2>2. QED
    BY <1>8, <1>9, <2>1
<1>11. b + Cardinality(t) * b = Cardinality(s) * b
  BY <1>6
<1>12. QED
  BY <1>10, <1>11
-----------------------------------------------------------------------------
(* Ranges                                                                  *)

\* Bounds of a quotient by a positive number, from both sides.
LEMMA DivBounds ==
  ASSUME NEW a \in Int, NEW k \in Int, NEW n \in Int, n > 0
  PROVE  a \div n \in Int /\ (k <= a \div n <=> k * n <= a)
<1>1. a \div n \in Int /\ (k <= a \div n => k * n <= a)
  BY SMT
<1>2. k * n <= a => k <= a \div n
  BY SMT
<1>3. QED
  BY <1>1, <1>2

\* The ranges start at 0, end at n, and are in order.
LEMMA RowStartOrder ==
  ASSUME NEW n \in Nat, NEW tp \in Nat \ {0}, NEW r \in 0..tp, NEW s \in 0..tp, r <= s
  PROVE  /\ RowStart(n, r, tp) \in 0..n
         /\ RowStart(n, r, tp) <= RowStart(n, s, tp)
<1>1. n * r \in Int /\ n * s \in Int /\ 0 <= n * r /\ n * r <= n * s /\ n * s <= n * tp
  BY SMT
<1>2. RowStart(n, r, tp) \in Int /\ RowStart(n, s, tp) \in Int
  BY <1>1, DivBounds DEF RowStart
<1>3. 0 <= RowStart(n, r, tp)
  BY <1>1, DivBounds DEF RowStart
<1>4. RowStart(n, r, tp) <= n
  BY <1>1, SMT DEF RowStart
<1>5. RowStart(n, r, tp) * tp <= n * r
  BY <1>1, <1>2, DivBounds DEF RowStart
<1>6. RowStart(n, r, tp) <= RowStart(n, s, tp)
  BY <1>1, <1>2, <1>5, DivBounds DEF RowStart
<1>7. QED
  BY <1>2, <1>3, <1>4, <1>6

\* The owner of an id, in closed form: the last rank whose range starts at or
\* before it.
OwnerOf(n, tp, id) == ((id + 1) * tp - 1) \div n

\* The closed form names a rank whose range holds the id.
LEMMA OwnerExists ==
  ASSUME NEW n \in Nat, NEW tp \in Nat \ {0}, NEW id \in 0..(n - 1)
  PROVE  /\ OwnerOf(n, tp, id) \in 0..(tp - 1)
         /\ RowStart(n, OwnerOf(n, tp, id), tp) <= id
         /\ id < RowStart(n, OwnerOf(n, tp, id) + 1, tp)
<1> DEFINE a == (id + 1) * tp
           r == OwnerOf(n, tp, id)
<1>1. a \in Int /\ 1 <= a /\ a <= n * tp /\ n \in Int /\ n > 0 /\ tp \in Int /\ tp > 0
  BY SMT
<1>2. r = (a - 1) \div n
  BY DEF OwnerOf
<1> HIDE DEF a, r
<1>3. r \in Int /\ 0 <= r /\ r * n <= a - 1 /\ a - 1 < (r + 1) * n
  BY <1>1, <1>2, SMT
<1>4. r < tp
  BY <1>1, <1>3, SMT
<1>5. RowStart(n, r, tp) <= id
  BY <1>1, <1>3, SMT DEF RowStart, a
<1>6. id + 1 <= RowStart(n, r + 1, tp)
  BY <1>1, <1>3, SMT DEF RowStart, a
<1>7. RowStart(n, r + 1, tp) \in Int
  BY <1>1, <1>3, <1>4, RowStartOrder
<1>8. r \in 0..(tp - 1) /\ id < RowStart(n, r + 1, tp)
  BY <1>1, <1>3, <1>4, <1>6, <1>7
<1>9. QED
  BY <1>5, <1>8 DEF r
-----------------------------------------------------------------------------
\* Every store covers the range its rank computes, and all exist once serving.
RangeInv ==
  /\ TypeOK /\ RangesAccepted
  /\ \A r \in Ranks, l \in Layers : <<r, l>> \in DOMAIN store =>
       /\ store[<<r, l>>].lo = RowStart(tableSize[l], r, tpSize)
       /\ store[<<r, l>>].hi = RowStart(tableSize[l], r + 1, tpSize)
  /\ status = "serving" => DOMAIN store = Ranks \X Layers

\* Slot counts are natural numbers.
LEMMA SlotsType ==
  ASSUME TypeOK
  PROVE  Budget(cacheBytes, tpSize) \div EntryBytes \in Nat
<1>1. cacheBytes \in Nat /\ tpSize \in Int /\ tpSize > 0
  BY CacheAssumption, TpAssumption DEF TypeOK
<1>2. Budget(cacheBytes, tpSize) \in Nat
  BY <1>1, SMT DEF Budget
<1>3. QED
  BY <1>2, SMT DEF EntryBytes

\* Constructing one store keeps the invariant: its range is accepted.
LEMMA ConstructKeeps ==
  ASSUME RangeInv, NEW rank \in Ranks, NEW l \in Layers, Construct(rank, l)
  PROVE  RangeInv'
<1> DEFINE lo == RowStart(tableSize[l], rank, tpSize)
           hi == RowStart(tableSize[l], rank + 1, tpSize)
           new == [lo |-> lo, hi |-> hi, slots |-> Budget(cacheBytes, tpSize) \div EntryBytes]
<1>1. tableSize[l] \in Nat /\ tpSize \in Nat \ {0}
  BY TableAssumption, TpAssumption DEF RangeInv, TypeOK
<1>2. rank \in 0..tpSize /\ rank + 1 \in 0..tpSize /\ rank <= rank + 1
  BY <1>1 DEF Ranks
<1>3. lo \in 0..tableSize[l] /\ hi \in 0..tableSize[l] /\ lo <= hi
  BY <1>1, <1>2, RowStartOrder
<1>4. lo \in Nat /\ hi \in Nat /\ ~(lo > hi \/ hi > tableSize[l])
  BY <1>1, <1>3
<1>5. /\ status = "constructing" /\ UNCHANGED <<status, setup, sum>>
      /\ store' = [x \in DOMAIN store \cup {<<rank, l>>} |->
                      IF x = <<rank, l>> THEN new ELSE store[x]]
  BY <1>4 DEF Construct
<1>6. new \in [lo : Nat, hi : Nat, slots : Nat]
  BY <1>4, SlotsType DEF RangeInv
<1>7. Ranks' = Ranks
  BY <1>5 DEF setup, Ranks
<1>8. TypeOK'
  BY <1>5, <1>6, <1>7 DEF RangeInv, TypeOK, setup
<1>9. ASSUME NEW r \in Ranks, NEW m \in Layers, <<r, m>> \in DOMAIN store'
      PROVE  /\ store'[<<r, m>>].lo = RowStart(tableSize[m], r, tpSize)
             /\ store'[<<r, m>>].hi = RowStart(tableSize[m], r + 1, tpSize)
  <2>1. CASE <<r, m>> = <<rank, l>>
    BY <1>5, <2>1
  <2>2. CASE <<r, m>> # <<rank, l>>
    BY <1>5, <1>9, <2>2 DEF RangeInv
  <2>3. QED
    BY <2>1, <2>2
<1>10. QED
  BY <1>5, <1>7, <1>8, <1>9 DEF RangeInv, RangesAccepted, setup, RowStart

\* Every step keeps it.
LEMMA RangeInvNext == RangeInv /\ [Next]_vars => RangeInv'
<1> SUFFICES ASSUME RangeInv, [Next]_vars PROVE RangeInv'
  OBVIOUS
<1>1. CASE \E rank \in Ranks, l \in Layers : Construct(rank, l)
  BY <1>1, ConstructKeeps
<1>2. CASE Start \/ Fails
  BY <1>2 DEF Start, Fails, setup, RangeInv, TypeOK, RangesAccepted, Ranks, RowStart
<1>3. CASE \E l \in Layers : \E id \in 0..(tableSize[l] - 1) : AllReduce(l, id)
  BY <1>3 DEF AllReduce, setup, RangeInv, TypeOK, RangesAccepted, Ranks, RowStart
<1>4. CASE Stopped \/ UNCHANGED vars
  BY <1>4 DEF Stopped, vars, setup, RangeInv, TypeOK, RangesAccepted, Ranks, RowStart
<1>5. QED
  BY <1>1, <1>2, <1>3, <1>4 DEF Next

\* It holds before any store is built.
LEMMA RangeInvInit == Init => RangeInv
  BY DEF Init, RangeInv, TypeOK, RangesAccepted

\* The invariant holds in every reachable state.
THEOREM RangeInvariance == Spec => []RangeInv
  BY RangeInvInit, RangeInvNext, PTL DEF Spec

\* Every variable keeps its type.
THEOREM ParallelTypes == Spec => []TypeOK
<1>1. RangeInv => TypeOK
  BY DEF RangeInv
<1>2. QED
  BY <1>1, RangeInvariance, PTL

\* For no table size and number of ranks does the ownership check abort
\* (engram_backend.py:58, row_store.cpp:124).
THEOREM NoRangeRejected == Spec => []RangesAccepted
<1>1. RangeInv => RangesAccepted
  BY DEF RangeInv
<1>2. QED
  BY <1>1, RangeInvariance, PTL

\* In every state that satisfies the invariant each row has one owner.
LEMMA OwnerUnique == RangeInv => OneOwner
<1> SUFFICES ASSUME RangeInv, status = "serving", NEW l \in Layers,
                    NEW id \in 0..(tableSize[l] - 1)
             PROVE  \E r \in Ranks : Owners(l, id) = {r}
  BY DEF OneOwner
<1> DEFINE n == tableSize[l]
           r == OwnerOf(n, tpSize, id)
<1>1. n \in Nat /\ tpSize \in Nat \ {0} /\ id \in Int
  <2>1. n \in Nat /\ tpSize \in Nat \ {0}
    BY TableAssumption, TpAssumption DEF RangeInv, TypeOK
  <2>2. QED
    BY <2>1
<1>2. \A s \in Ranks : /\ store[<<s, l>>].lo = RowStart(n, s, tpSize)
                       /\ store[<<s, l>>].hi = RowStart(n, s + 1, tpSize)
  BY DEF RangeInv
<1>3. r \in Ranks /\ r \in Owners(l, id)
  BY <1>1, <1>2, OwnerExists DEF Owners, Ranks
<1>4. ASSUME NEW s \in Ranks, NEW u \in Ranks, s < u
      PROVE  ~(s \in Owners(l, id) /\ u \in Owners(l, id))
  <2>1. s + 1 \in 0..tpSize /\ u \in 0..tpSize /\ s + 1 <= u
    BY <1>1, <1>4 DEF Ranks
  <2>2. /\ RowStart(n, s + 1, tpSize) \in Int /\ RowStart(n, u, tpSize) \in Int
        /\ RowStart(n, s + 1, tpSize) <= RowStart(n, u, tpSize)
    <3> DEFINE v == s + 1
    <3>1. v \in 0..tpSize /\ v <= u
      BY <2>1
    <3> HIDE DEF v, n, r
    <3>2. /\ RowStart(n, v, tpSize) \in 0..n /\ RowStart(n, u, tpSize) \in 0..n
          /\ RowStart(n, v, tpSize) <= RowStart(n, u, tpSize)
      BY ONLY <1>1, <2>1, <3>1, RowStartOrder
    <3>3. QED
      BY <3>2 DEF v
  <2>3. QED
    BY <1>1, <1>2, <2>2 DEF Owners
<1>5. \A s \in Owners(l, id) : s = r
  BY <1>1, <1>3, <1>4 DEF Owners, Ranks
<1>6. QED
  BY <1>3, <1>5 DEF Owners

\* Every row of every table has exactly one owner, for every table size and
\* every number of ranks (engram_backend.py:39-41).
THEOREM Ownership == Spec => []OneOwner
  BY OwnerUnique, RangeInvariance, PTL
-----------------------------------------------------------------------------
(* What the ranks answer and keep together                                 *)

\* Adding the answers of all ranks gives the row: one rank answers with it,
\* the others with zeroes.
LEMMA AnswersAddUp ==
  ASSUME RangeInv, status = "serving", NEW l \in Layers, NEW id \in 0..(tableSize[l] - 1)
  PROVE  SumFunction([r \in Ranks |-> Answer(store[<<r, l>>], id)]) = id + 1
<1> DEFINE f == [r \in Ranks |-> Answer(store[<<r, l>>], id)]
<1>1. tpSize \in Nat /\ id \in Int
  <2>1. tableSize[l] \in Nat /\ tpSize \in Nat
    BY TableAssumption, TpAssumption DEF RangeInv, TypeOK
  <2>2. QED
    BY <2>1
<1>2. IsFiniteSet(DOMAIN f)
  BY <1>1, FS_Interval DEF Ranks
<1>3. PICK o \in Ranks : Owners(l, id) = {o}
  BY OwnerUnique DEF OneOwner
<1>4. f[o] = id + 1
  BY <1>3 DEF Owners, Answer
<1>5. \A r \in Ranks : r # o => f[r] = 0
  BY <1>3 DEF Owners, Answer
<1> HIDE DEF f
<1>6. DOMAIN f = Ranks
  BY DEF f
<1>7. SumFunction(f) = f[o]
  BY <1>1, <1>2, <1>3, <1>4, <1>5, <1>6, SumOfOne
<1>8. QED
  BY <1>4, <1>7 DEF f

\* Every store has the slots of an equal share of the budget.
SlotsInv == \A x \in DOMAIN store : store[x].slots = Budget(cacheBytes, tpSize) \div EntryBytes

\* As many shares as there are stores are within the budget.
LEMMA Shares ==
  ASSUME NEW cache \in Nat, NEW tp \in Nat \ {0}, NEW k \in 0..(2 * tp)
  PROVE  Budget(cache, tp) \in Nat /\ k * Budget(cache, tp) <= cache
<1> DEFINE m == 2 * tp
           b == cache \div m
<1>1. m \in Int /\ m > 0 /\ k \in Int /\ 0 <= k /\ k <= m
  OBVIOUS
<1> HIDE DEF m
<1>2. b \in Int /\ 0 <= b /\ b * m <= cache
  BY <1>1, DivBounds
<1> HIDE DEF b
<1>3. k * b <= b * m
  BY <1>1, <1>2
<1>4. k * b \in Int /\ b * m \in Int
  BY <1>1, <1>2
<1>5. k * b <= cache
  BY <1>2, <1>3, <1>4
<1>6. QED
  BY <1>2, <1>5 DEF Budget, b, m

\* What the slots of one store take is within its share.
LEMMA SlotsWithin ==
  ASSUME NEW b \in Nat
  PROVE  (b \div EntryBytes) * EntryBytes \in 0..b
  BY SMT DEF EntryBytes

\* The slots of all stores together take no more than the budget.
LEMMA BudgetKept == RangeInv /\ SlotsInv => WithinBudget
<1> SUFFICES ASSUME RangeInv, SlotsInv PROVE WithinBudget
  OBVIOUS
<1> DEFINE f == [x \in DOMAIN store |-> store[x].slots * EntryBytes]
           b == Budget(cacheBytes, tpSize)
<1>1. /\ cacheBytes \in Nat /\ tpSize \in Nat \ {0}
      /\ DOMAIN store \subseteq Ranks \X Layers
  BY CacheAssumption, TpAssumption DEF RangeInv, TypeOK
<1>2. IsFiniteSet(Ranks) /\ Cardinality(Ranks) = tpSize
  <2>1. 0 \in Int /\ tpSize - 1 \in Int
    BY <1>1
  <2>2. /\ IsFiniteSet(0..(tpSize - 1))
        /\ Cardinality(0..(tpSize - 1)) = IF 0 > tpSize - 1 THEN 0 ELSE tpSize - 1 - 0 + 1
    BY <2>1, FS_Interval
  <2>3. QED
    BY <1>1, <2>2 DEF Ranks
<1>3. /\ IsFiniteSet(Ranks \X Layers)
      /\ Cardinality(Ranks \X Layers) = tpSize * Cardinality(Layers)
  BY <1>2, FS_Product, LayersAssumption
<1>4. IsFiniteSet(DOMAIN store) /\ Cardinality(DOMAIN store) <= tpSize * Cardinality(Layers)
  BY <1>1, <1>3, FS_Subset
<1>5. Cardinality(DOMAIN store) \in 0..(2 * tpSize)
  <2>1. /\ Cardinality(Layers) \in Nat /\ Cardinality(Layers) <= 2
        /\ Cardinality(DOMAIN store) \in Nat
    BY <1>4, FS_CardinalityType, LayersAssumption
  <2>2. tpSize * Cardinality(Layers) <= 2 * tpSize /\ tpSize * Cardinality(Layers) \in Int
    BY <1>1, <2>1
  <2>3. QED
    BY <1>1, <1>4, <2>1, <2>2
<1>6. b \in Nat /\ Cardinality(DOMAIN store) * b <= cacheBytes
  BY <1>1, <1>5, Shares
<1> HIDE DEF b
<1>7. \A x \in DOMAIN store : f[x] \in 0..b
  BY <1>6, SlotsWithin DEF SlotsInv, b
<1>8. DOMAIN f = DOMAIN store
  OBVIOUS
<1> HIDE DEF f
<1>9. SumFunction(f) \in Nat /\ SumFunction(f) <= Cardinality(DOMAIN store) * b
  BY <1>4, <1>6, <1>7, <1>8, SumBound
<1>10. SumFunction(f) <= cacheBytes
  BY <1>1, <1>5, <1>6, <1>9
<1>11. QED
  BY <1>10 DEF f, WithinBudget

\* The ranges, what the slots are and what the last all-reduce gave.
GroupInv == RangeInv /\ SlotsInv /\ SumExact

\* Every step keeps the invariant of the group.
LEMMA GroupInvNext == GroupInv /\ [Next]_vars => GroupInv'
<1> SUFFICES ASSUME GroupInv, [Next]_vars PROVE SlotsInv' /\ SumExact'
  BY RangeInvNext DEF GroupInv
<1>1. CASE \E rank \in Ranks, l \in Layers : Construct(rank, l)
  <2>1. PICK rank \in Ranks, l \in Layers : Construct(rank, l)
    BY <1>1
  <2>2. SlotsInv'
    BY <2>1 DEF Construct, setup, GroupInv, SlotsInv, Budget, EntryBytes
  <2>3. QED
    BY <2>1, <2>2 DEF Construct, GroupInv, SumExact
<1>2. CASE \E l \in Layers : \E id \in 0..(tableSize[l] - 1) : AllReduce(l, id)
  <2>1. PICK l \in Layers : \E id \in 0..(tableSize[l] - 1) : AllReduce(l, id)
    BY <1>2
  <2>2. PICK id \in 0..(tableSize[l] - 1) : AllReduce(l, id)
    BY <2>1
  <2>3. SumExact'
    BY <2>2, AnswersAddUp DEF AllReduce, GroupInv, SumExact
  <2>4. QED
    BY <2>2, <2>3 DEF AllReduce, setup, GroupInv, SlotsInv, Budget
<1>3. CASE Start \/ Fails \/ Stopped \/ UNCHANGED vars
  BY <1>3 DEF Start, Fails, Stopped, vars, setup, GroupInv, SlotsInv, Budget, SumExact
<1>4. QED
  BY <1>1, <1>2, <1>3 DEF Next

\* The invariant of the group holds in every state.
THEOREM GroupInvariance == Spec => []GroupInv
<1>1. Init => GroupInv
  BY RangeInvInit DEF Init, GroupInv, SlotsInv, SumExact
<1>2. QED
  BY <1>1, GroupInvNext, PTL DEF Spec

\* For every number of ranks the all-reduce rebuilds the row that was asked
\* for: the ranks that do not own it add only zeroes (engram_backend.py:39-41,
\* row_store.cpp:93).
THEOREM RowsAddUp == Spec => []SumExact
<1>1. GroupInv => SumExact
  BY DEF GroupInv
<1>2. QED
  BY <1>1, GroupInvariance, PTL

\* However many ranks share it, the caches of all stores together stay within
\* the configured budget (engram_backend.py:53, row_store.cpp:75).
THEOREM BudgetHolds == Spec => []WithinBudget
<1>1. GroupInv => WithinBudget
  BY BudgetKept DEF GroupInv
<1>2. QED
  BY <1>1, GroupInvariance, PTL
-----------------------------------------------------------------------------
(* The import hook                                                         *)

\* A module that is not absent was found by the first finder of its process;
\* it is patched when, and only when, that is EngramFinder, and not before it
\* is loaded.
HookInv ==
  /\ HookTypeOK
  /\ metaPath = [p \in Processes |-> metaPath[p]]
  /\ objects = [p \in Processes |-> objects[p]]
  /\ \A p \in Processes, m \in Modules : state[p][m] # "absent" =>
       /\ started[p]
       /\ loader[p][m] = "engram" <=> p \in Enabled
       /\ patched[p][m] <=> state[p][m] = "loaded" /\ p \in Enabled
  /\ HooksApplied

\* Python's finder behind EngramFinder.
LEMMA TwoFinders == <<"engram">> \o <<"path">> = <<"engram", "path">>
<1>1. <<"engram">> \in Seq(Finders) /\ <<"path">> \in Seq(Finders) /\ <<"engram", "path">> \in Seq(Finders)
  BY DEF Finders
<1>2. /\ <<"engram">> \o <<"path">> \in Seq(Finders)
      /\ Len(<<"engram">> \o <<"path">>) = 2
      /\ (<<"engram">> \o <<"path">>)[1] = "engram"
      /\ (<<"engram">> \o <<"path">>)[2] = "path"
  BY <1>1, ConcatProperties
<1> DEFINE s == <<"engram">> \o <<"path">>
           t == <<"engram", "path">>
<1>3. Len(t) = 2 /\ t[1] = "engram" /\ t[2] = "path"
  OBVIOUS
<1>4. \A i \in 1..Len(s) : s[i] = t[i]
  <2> HIDE DEF t
  <2>1. QED
    BY <1>2, <1>3
<1> HIDE DEF s, t
<1>5. s = t
  BY <1>1, <1>2, <1>3, <1>4, SeqEqual DEF s, t
<1>6. QED
  BY <1>5 DEF s, t

\* It holds in a container whose processes have not run yet.
LEMMA HookInvInit == HookInit => HookInv
<1> SUFFICES ASSUME HookInit PROVE HookInv
  OBVIOUS
<1>1. HookTypeOK
  BY ImportsAssumption DEF HookInit, HookTypeOK, Finders
<1>2. HooksApplied
  BY DEF HookInit, HooksApplied
<1>3. QED
  BY <1>1, <1>2 DEF HookInit, HookInv

\* What an object adds to those of a process: it is built as the process asks.
LEMMA ObjectKeeps ==
  ASSUME HookInv, NEW p \in Processes, NEW o \in Objects,
         o.replaced <=> p \in Enabled,
         o.forced <=> p \in Enabled /\ sm120 /\ o.module = "metadata" /\ o.ratio \in {1, 2},
         objects' = [objects EXCEPT ![p] = @ \cup {o}],
         UNCHANGED <<started, metaPath, state, loader, patched, sm120, imports>>
  PROVE  HookInv'
<1>1. \A q \in Processes : objects'[q] = IF q = p THEN objects[q] \cup {o} ELSE objects[q]
  BY DEF HookInv
<1>2. objects' = [q \in Processes |-> objects'[q]]
  BY DEF HookInv
<1>3. HookTypeOK'
  BY <1>1 DEF HookInv, HookTypeOK
<1>4. HooksApplied'
  BY <1>1 DEF HookInv, HooksApplied
<1>5. QED
  BY <1>2, <1>3, <1>4 DEF HookInv

\* A step of one import keeps the invariant when the module is left as the
\* invariant asks.
LEMMA ImportKeeps ==
  ASSUME HookInv, NEW p \in Processes, NEW m \in Modules,
         NEW s \in {"absent", "executing", "patching", "loaded"},
         NEW f \in Finders, NEW b \in BOOLEAN, NEW n \in 0..MaxImports,
         state' = [state EXCEPT ![p][m] = s],
         loader' = [loader EXCEPT ![p][m] = f],
         patched' = [patched EXCEPT ![p][m] = b],
         imports' = [imports EXCEPT ![p] = n],
         b \/ s = "patching" => f = "engram",
         s # "absent" => /\ started[p] /\ (f = "engram" <=> p \in Enabled)
                         /\ b <=> s = "loaded" /\ p \in Enabled,
         UNCHANGED <<started, metaPath, objects, sm120>>
  PROVE  HookInv'
<1>1. \A q \in Processes, k \in Modules :
        /\ state'[q][k] = IF q = p /\ k = m THEN s ELSE state[q][k]
        /\ loader'[q][k] = IF q = p /\ k = m THEN f ELSE loader[q][k]
        /\ patched'[q][k] = IF q = p /\ k = m THEN b ELSE patched[q][k]
  BY DEF HookInv, HookTypeOK
<1>2. /\ state' \in [Processes -> [Modules -> {"absent", "executing", "patching", "loaded"}]]
      /\ loader' \in [Processes -> [Modules -> Finders]]
      /\ patched' \in [Processes -> [Modules -> BOOLEAN]]
      /\ imports' \in [Processes -> 0..MaxImports]
  BY DEF HookInv, HookTypeOK
<1>3. HookTypeOK'
  BY <1>1, <1>2 DEF HookInv, HookTypeOK
<1>4. HooksApplied'
  BY DEF HookInv, HooksApplied
<1>5. QED
  BY <1>1, <1>3, <1>4 DEF HookInv

\* Every step keeps the invariant.
LEMMA HookInvNext == HookInv /\ [HookNext]_hookVars => HookInv'
<1> SUFFICES ASSUME HookInv, [HookNext]_hookVars PROVE HookInv'
  OBVIOUS
<1>1. ASSUME NEW p \in Processes, StartInterpreter(p) PROVE HookInv'
  <2>1. \A m \in Modules : state[p][m] = "absent"
    BY <1>1 DEF StartInterpreter, HookInv
  <2>2. /\ metaPath' = [q \in Processes |-> metaPath'[q]]
        /\ started' \in [Processes -> BOOLEAN]
    <3>1. /\ metaPath' = IF p \in Enabled THEN [metaPath EXCEPT ![p] = <<"engram">> \o @] ELSE metaPath
          /\ metaPath = [q \in Processes |-> metaPath[q]]
      BY <1>1 DEF StartInterpreter, HookInv
    <3>2. metaPath' = [q \in Processes |-> metaPath'[q]]
      BY <3>1
    <3>3. QED
      BY <1>1, <3>2 DEF StartInterpreter, HookInv, HookTypeOK
  <2>3. \A q \in Processes : started'[q] <=> started[q] \/ q = p
    BY <1>1 DEF StartInterpreter, HookInv, HookTypeOK
  <2>4. <<"engram">> \o <<"path">> = <<"engram", "path">>
    BY TwoFinders
  <2>5. metaPath[p] = <<"path">> /\ p \in DOMAIN metaPath
    BY <1>1 DEF StartInterpreter, HookInv, HookTypeOK
  <2>6. \A q \in Processes :
          metaPath'[q] = IF q = p /\ p \in Enabled THEN <<"engram", "path">> ELSE metaPath[q]
    <3>1. CASE p \in Enabled
      <4>1. metaPath' = [metaPath EXCEPT ![p] = <<"engram", "path">>]
        BY <1>1, <2>4, <2>5, <3>1 DEF StartInterpreter
      <4>2. metaPath = [q \in Processes |-> metaPath[q]]
        BY DEF HookInv
      <4>3. QED
        BY ONLY <3>1, <4>1, <4>2
    <3>2. QED
      BY <1>1, <3>1 DEF StartInterpreter
  <2>7. HookTypeOK'
    BY <1>1, <2>2, <2>3, <2>5, <2>6 DEF StartInterpreter, HookInv, HookTypeOK
  <2>8. HooksApplied'
    BY <1>1 DEF StartInterpreter, HookInv, HooksApplied
  <2>9. QED
    BY <1>1, <2>2, <2>3, <2>7, <2>8 DEF StartInterpreter, HookInv
<1>2. ASSUME NEW p \in Processes, NEW m \in Modules, FindSpec(p, m) PROVE HookInv'
  <2>1. Head(metaPath[p]) = IF p \in Enabled THEN "engram" ELSE "path"
    BY <1>2 DEF FindSpec, HookInv, HookTypeOK
  <2>2. imports[p] + 1 \in 0..MaxImports
    BY <1>2, ImportsAssumption DEF FindSpec, HookInv, HookTypeOK
  <2>3. QED
    BY <1>2, <2>1, <2>2, ImportKeeps DEF FindSpec, Finders
<1>3. ASSUME NEW p \in Processes, NEW m \in Modules,
             Exec(p, m) \/ Patch(p, m) \/ ImportFails(p, m)
      PROVE  HookInv'
  <2>1. /\ loader[p][m] \in Finders /\ patched[p][m] \in BOOLEAN /\ imports[p] \in 0..MaxImports
        /\ loader = [loader EXCEPT ![p][m] = loader[p][m]]
        /\ patched = [patched EXCEPT ![p][m] = patched[p][m]]
        /\ imports = [imports EXCEPT ![p] = imports[p]]
    BY DEF HookInv, HookTypeOK
  <2>2. /\ UNCHANGED <<started, metaPath, objects, sm120>>
        /\ loader' = [loader EXCEPT ![p][m] = loader[p][m]]
        /\ imports' = [imports EXCEPT ![p] = imports[p]]
        /\ state[p][m] \in {"executing", "patching"}
    BY <1>3, <2>1 DEF Exec, Patch, ImportFails
  <2>3. /\ started[p] /\ (loader[p][m] = "engram" <=> p \in Enabled) /\ ~patched[p][m]
        /\ state[p][m] = "patching" => loader[p][m] = "engram"
    BY <2>2 DEF HookInv, HookTypeOK
  <2>4. CASE Exec(p, m)
    <3> DEFINE s == IF loader[p][m] = "engram" THEN "patching" ELSE "loaded"
    <3>1. /\ state' = [state EXCEPT ![p][m] = s]
          /\ patched' = [patched EXCEPT ![p][m] = FALSE]
      BY <2>1, <2>3, <2>4 DEF Exec
    <3>2. /\ s \in {"absent", "executing", "patching", "loaded"}
          /\ s = "patching" <=> loader[p][m] = "engram"
          /\ s = "loaded" <=> ~(p \in Enabled)
      BY <2>3
    <3> HIDE DEF s
    <3>3. QED
      BY <2>1, <2>2, <2>3, <3>1, <3>2, ImportKeeps
  <2>5. CASE Patch(p, m)
    <3>1. /\ state' = [state EXCEPT ![p][m] = "loaded"]
          /\ patched' = [patched EXCEPT ![p][m] = TRUE]
          /\ loader[p][m] = "engram"
      BY <2>3, <2>5 DEF Patch
    <3>2. QED
      BY <2>1, <2>2, <2>3, <3>1, ImportKeeps
  <2>6. CASE ImportFails(p, m)
    <3>1. /\ state' = [state EXCEPT ![p][m] = "absent"]
          /\ patched' = [patched EXCEPT ![p][m] = FALSE]
      BY <2>1, <2>3, <2>6 DEF ImportFails
    <3>2. QED
      BY <2>1, <2>2, <2>3, <3>1, ImportKeeps
  <2>7. QED
    BY <1>3, <2>4, <2>5, <2>6
<1>4. ASSUME NEW p \in Processes, BuildLayer(p) PROVE HookInv'
  <2> DEFINE o == [module |-> "engram", ratio |-> 0, replaced |-> patched[p]["engram"],
                   forced |-> FALSE]
  <2>1. "engram" \in Modules /\ (patched[p]["engram"] <=> p \in Enabled)
        /\ patched[p]["engram"] \in BOOLEAN
    BY <1>4 DEF BuildLayer, Modules, HookInv, HookTypeOK
  <2>2. o \in Objects
    BY <2>1 DEF Objects
  <2>3. QED
    BY <1>4, <2>1, <2>2, ObjectKeeps DEF BuildLayer
<1>5. ASSUME NEW p \in Processes, NEW ratio \in Ratios, BuildMetadata(p, ratio) PROVE HookInv'
  <2> DEFINE o == [module |-> "metadata", ratio |-> ratio, replaced |-> patched[p]["metadata"],
                   forced |-> patched[p]["metadata"] /\ sm120 /\ ratio \in {1, 2}]
  <2>1. "metadata" \in Modules /\ (patched[p]["metadata"] <=> p \in Enabled)
        /\ patched[p]["metadata"] \in BOOLEAN /\ sm120 \in BOOLEAN
    BY <1>5 DEF BuildMetadata, Modules, HookInv, HookTypeOK
  <2>2. o \in Objects
    BY <2>1 DEF Objects, Modules
  <2>3. QED
    BY <1>5, <2>1, <2>2, ObjectKeeps DEF BuildMetadata
<1>6. CASE UNCHANGED hookVars
  BY <1>6 DEF hookVars, HookInv, HookTypeOK, HooksApplied
<1>7. QED
  BY <1>1, <1>2, <1>3, <1>4, <1>5, <1>6 DEF HookNext

\* The invariant of the imports holds in every state (sitecustomize.py:11-42).
THEOREM HookInvariance == HookSpec => []HookInv
  BY HookInvInit, HookInvNext, PTL DEF HookSpec

\* All variables keep their types; EngramFinder is the first finder of each
\* process that has one.
THEOREM HookTypes == HookSpec => []HookTypeOK
<1>1. HookInv => HookTypeOK
  BY DEF HookInv
<1>2. QED
  BY <1>1, HookInvariance, PTL

\* Whichever thread builds an object and however often its module had to be
\* imported, the hook has built it in an enabled process and the original code
\* elsewhere, for any number of processes (sitecustomize.py:1 and 11-42).
THEOREM HooksAreApplied == HookSpec => []HooksApplied
<1>1. HookInv => HooksApplied
  BY DEF HookInv
<1>2. QED
  BY <1>1, HookInvariance, PTL
=============================================================================
