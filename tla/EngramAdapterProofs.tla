------------------------ MODULE EngramAdapterProofs ------------------------
(***************************************************************************)
(* Proofs about EngramAdapter, for any table, requests and number of       *)
(* calls.  The argument: what is enqueued is made of whole calls, so that  *)
(* what precedes an operation on the stream is the operation of the same   *)
(* call it depends on; the operation at the head therefore finds in the    *)
(* shared buffers what its own call has put there.  That the buffers hold  *)
(* a call at all rests on the rounding of its count to a power of two,     *)
(* which comes first.                                                      *)
(***************************************************************************)
EXTENDS EngramAdapter, FiniteSetTheorems, SequenceTheorems, NaturalsInduction,
        WellFoundedInduction, TLAPS

-----------------------------------------------------------------------------
(* Rounding up to a power of two                                           *)

\* A set of naturals that is not empty has a least element.
LEMMA LeastElement ==
  ASSUME NEW T, T \subseteq Nat, T # {}
  PROVE \E x \in T : \A y \in T : ~(y < x)
<1>1. IsWellFoundedOn(OpToRel(<,Nat), Nat)
  BY NatLessThanWellFounded
<1>2. \E x \in T : \A y \in T : ~(<<y, x>> \in OpToRel(<,Nat))
  BY <1>1, WFMin
<1>3. QED
  BY <1>2 DEF OpToRel

\* The size of a set that is made of two parts.
LEMMA DisjointUnion ==
  ASSUME NEW A, NEW B, NEW C, IsFiniteSet(A), IsFiniteSet(B), C = A \cup B, A \cap B = {}
  PROVE  Cardinality(C) = Cardinality(A) + Cardinality(B)
<1>1. Cardinality(A) \in Nat /\ Cardinality(B) \in Nat
  BY FS_CardinalityType
<1>2. Cardinality(A \cup B) = Cardinality(A) + Cardinality(B) - Cardinality(A \cap B)
  BY FS_Union
<1>3. Cardinality(A \cap B) = 0
  BY FS_EmptySet
<1>4. QED
  BY <1>1, <1>2, <1>3

\* A power of two is a natural number, and the next one is its double.
LEMMA PowerOfTwo ==
  ASSUME NEW b \in Nat
  PROVE  2^b \in Nat /\ 2^(b + 1) = 2^b + 2^b
<1> DEFINE S == 1..b
           x == b + 1
           T == 1..(b + 1)
           With == {u \in SUBSET T : x \in u}
           f == [u \in SUBSET S |-> u \cup {x}]
<1>1. /\ IsFiniteSet(S) /\ Cardinality(S) = b
      /\ IsFiniteSet(T) /\ Cardinality(T) = b + 1
  BY FS_Interval
<1>2. /\ IsFiniteSet(SUBSET S) /\ Cardinality(SUBSET S) = 2^b
      /\ IsFiniteSet(SUBSET T) /\ Cardinality(SUBSET T) = 2^(b + 1)
  BY <1>1, FS_SUBSET
<1>3. 2^b \in Nat
  BY <1>2, FS_CardinalityType
<1>4. f \in Bijection(SUBSET S, With)
  <2>1. T = S \cup {x} /\ x \notin S
    OBVIOUS
  <2> HIDE DEF S, T, x
  <2>2. f \in [SUBSET S -> With]
    BY <2>1
  <2>3. \A u, v \in SUBSET S : f[u] = f[v] => u = v
    <3>1. ASSUME NEW u \in SUBSET S, NEW v \in SUBSET S, u \cup {x} = v \cup {x}
          PROVE  u = v
      BY <2>1, <3>1
    <3>2. QED
      BY <3>1
  <2>4. \A w \in With : \E u \in SUBSET S : f[u] = w
    <3>1. TAKE w \in With
    <3>2. w \ {x} \in SUBSET S /\ (w \ {x}) \cup {x} = w
      BY <2>1
    <3>3. QED
      BY <3>2
  <2>5. QED
    BY <2>2, <2>3, <2>4 DEF Bijection, Injection, Surjection, IsInjective
<1>5. IsFiniteSet(With) /\ Cardinality(With) = 2^b
  BY <1>2, <1>4, FS_Bijection DEF ExistsBijection
<1>6. SUBSET T = (SUBSET S) \cup With /\ (SUBSET S) \cap With = {}
  <2>1. T = S \cup {x} /\ x \notin S
    OBVIOUS
  <2> HIDE DEF S, T, x
  <2>2. QED
    BY <2>1
<1>7. 2^(b + 1) = 2^b + 2^b
  <2> HIDE DEF S, T, With
  <2>1. Cardinality(SUBSET T) = Cardinality(SUBSET S) + Cardinality(With)
    BY <1>2, <1>5, <1>6, DisjointUnion
  <2>2. QED
    BY <1>2, <1>3, <1>5, <2>1
<1>8. QED
  BY <1>3, <1>7

\* Powers of two outgrow their exponents.
LEMMA PowerExceeds == \A b \in Nat : b < 2^b
<1> DEFINE Bad == {b \in Nat : ~(b < 2^b)}
<1>1. SUFFICES ASSUME Bad # {} PROVE FALSE
  OBVIOUS
<1>2. PICK b \in Bad : \A c \in Bad : ~(c < b)
  BY <1>1, LeastElement
<1>3. CASE b = 0
  BY <1>3
<1>4. CASE b # 0
  <2>1. b - 1 \in Nat /\ b - 1 \notin Bad
    BY <1>2, <1>4
  <2>2. b - 1 < 2^(b - 1)
    BY <2>1
  <2>3. 2^b = 2^(b - 1) + 2^(b - 1) /\ 2^(b - 1) \in Nat
    <3>1. (b - 1) + 1 = b
      OBVIOUS
    <3>2. QED
      BY <2>1, <3>1, PowerOfTwo
  <2>4. QED
    BY <2>1, <2>2, <2>3
<1>5. QED
  BY <1>3, <1>4

\* The bit length of a number exists, and the number is below its power of two.
LEMMA BitLengthBound ==
  ASSUME NEW k \in Nat
  PROVE  BitLength(k) \in 0..k /\ k < 2^BitLength(k)
<1> DEFINE Long == {b \in Nat : k < 2^b}
<1>1. k \in Long
  BY PowerExceeds
<1>2. PICK b \in Long : \A c \in Long : ~(c < b)
  BY <1>1, LeastElement
<1>3. b \in 0..k /\ k < 2^b
  BY <1>1, <1>2
<1>4. b > 0 => 2^(b - 1) <= k
  <2>1. SUFFICES ASSUME b > 0 PROVE 2^(b - 1) <= k
    OBVIOUS
  <2>2. b - 1 \in Nat /\ b - 1 \notin Long
    BY <1>2, <2>1
  <2>3. 2^(b - 1) \in Nat
    BY <2>2, PowerOfTwo
  <2>4. QED
    BY <2>2, <2>3
<1>5. \E c \in 0..k : k < 2^c /\ (c > 0 => 2^(c - 1) <= k)
  BY <1>3, <1>4
<1>6. QED
  BY <1>5 DEF BitLength

\* A count fits the capacity it is rounded up to (engram_backend.py:77).
LEMMA CapacityBound ==
  ASSUME NEW count \in Nat \ {0}
  PROVE  Capacity(count) \in Nat /\ count <= Capacity(count)
<1>1. count - 1 \in Nat
  OBVIOUS
<1>2. BitLength(count - 1) \in Nat /\ count - 1 < 2^BitLength(count - 1)
  BY <1>1, BitLengthBound
<1>3. QED
  BY <1>2, PowerOfTwo DEF Capacity
-----------------------------------------------------------------------------
(* The invariant                                                           *)

Kinds == {"ids", "lookup", "rows", "gather"}
Entries == [kind : Kinds, count : Nat \ {0}, capacity : Nat, work : Nat \ {0}, call : Nat]
Outputs == {Pending, Raised} \cup {Exact(ids) : ids \in Requests}

\* The operation of a call that comes just before one of another kind.
Before(kind) == IF kind = "lookup" THEN "ids" ELSE IF kind = "rows" THEN "lookup" ELSE "rows"

\* A family of buffers: capacity -> as many entries.
IsFamily(f, capacities) ==
  /\ f = [c \in capacities |-> f[c]]
  /\ \A c \in capacities : f[c] = [i \in 1..c |-> f[c][i]]

Capacities == DOMAIN pinnedIds

BuffersInv ==
  /\ Capacities \subseteq Nat
  /\ IsFamily(pinnedIds, Capacities) /\ IsFamily(pinnedRows, Capacities)
  /\ IsFamily(deviceRows, Capacities)

StateInv ==
  /\ capturing \in BOOLEAN
  /\ calls \in Seq(Requests) /\ out \in Seq(Outputs) /\ Len(out) = Len(calls)
  /\ stream \in Seq(Entries)
  /\ request \in [{Callback} -> Seq(Int)] /\ busy \in [{Callback} -> BOOLEAN]
  /\ reply = [t \in {Callback} |-> reply[t]]

\* A Work is never changed, and its buffers exist.
WorksInv ==
  \A key \in DOMAIN works :
    /\ key \in Nat \ {0} /\ Capacity(key) \in Capacities
    /\ works[key] = [count |-> key, capacity |-> Capacity(key)]

\* What is recorded is a whole call.
GraphsInv ==
  \A ops \in graphs \cup ({recorded} \ {<< >>}) :
    \E count \in DOMAIN works : ops = Operations(count)

\* An operation on the stream is of a call of as many ids, and depends on
\* the one before.
Fits(op) ==
  /\ op.work \in DOMAIN works /\ op.count = op.work /\ op.capacity = Capacity(op.work)
  /\ op.call \in 1..Len(calls) /\ Len(calls[op.call]) = op.count

StreamInv ==
  /\ \A i \in 1..Len(stream) : Fits(stream[i])
  /\ \A i \in 2..Len(stream) : stream[i].kind # "ids" =>
       /\ stream[i - 1].kind = Before(stream[i].kind)
       /\ stream[i - 1].work = stream[i].work /\ stream[i - 1].call = stream[i].call

\* What the operation at the head of the stream finds.
Holds(f, g, op) == \A p \in 1..op.count : f[op.capacity][p] = g[p]
Ready(op) ==
  /\ op.kind = "lookup" => Holds(pinnedIds, calls[op.call], op)
  /\ op.kind = "rows" => Holds(pinnedRows, Exact(calls[op.call]), op)
  /\ op.kind = "gather" => Holds(deviceRows, Exact(calls[op.call]), op)

HeadInv ==
  /\ stream # << >> => Ready(stream[1])
  /\ busy[Callback] =>
       /\ stream # << >> /\ stream[1].kind = "lookup"
       /\ request[Callback] = calls[stream[1].call]

AInv == BuffersInv /\ StateInv /\ WorksInv /\ GraphsInv /\ StreamInv /\ HeadInv /\ OutputsExact

-----------------------------------------------------------------------------
(* Buffers                                                                 *)

\* Allocating a buffer leaves the others as they are.
LEMMA Allocated ==
  ASSUME NEW f, NEW capacities \in SUBSET Nat, IsFamily(f, capacities), NEW c \in Nat
  PROVE  LET g == IfNew(f, c, [i \in 1..c |-> Junk]) IN
         IsFamily(g, capacities \cup {c}) /\ \A d \in capacities : g[d] = f[d]
<1> DEFINE g == IfNew(f, c, [i \in 1..c |-> Junk])
<1>1. DOMAIN f = capacities
  BY DEF IsFamily
<1>2. g = [d \in capacities \cup {c} |-> IF d \in capacities THEN f[d] ELSE [i \in 1..c |-> Junk]]
  BY <1>1 DEF IfNew
<1> HIDE DEF g
<1>3. \A d \in capacities : g[d] = f[d]
  BY <1>2
<1>4. \A d \in capacities \cup {c} : g[d] = [i \in 1..d |-> g[d][i]]
  <2>1. ASSUME NEW d \in capacities PROVE g[d] = [i \in 1..d |-> g[d][i]]
    BY <1>3, <2>1 DEF IsFamily
  <2>2. c \notin capacities => g[c] = [i \in 1..c |-> Junk]
    BY <1>2
  <2>3. c \notin capacities => g[c] = [i \in 1..c |-> g[c][i]]
    BY <2>2
  <2>4. QED
    BY <2>1, <2>3
<1>5. g = [d \in capacities \cup {c} |-> g[d]]
  BY <1>2
<1>6. IsFamily(g, capacities \cup {c})
  BY <1>4, <1>5 DEF IsFamily
<1>7. QED
  BY <1>3, <1>6 DEF g

\* Copying to the front of a buffer.
Copied(f, c, n, h) == [f EXCEPT ![c] = Overwrite(f[c], n, h)]
Begins(f, c, n, h) == \A p \in 1..n : f[c][p] = h[p]

\* The buffer then begins with what was copied, and the family keeps its shape.
LEMMA Overwritten ==
  ASSUME NEW f, NEW capacities \in SUBSET Nat, IsFamily(f, capacities),
         NEW c \in capacities, NEW n \in Nat, n <= c, NEW h
  PROVE  /\ IsFamily(Copied(f, c, n, h), capacities)
         /\ Begins(Copied(f, c, n, h), c, n, h)
<1> DEFINE g == Copied(f, c, n, h)
<1>1. DOMAIN f = capacities /\ DOMAIN f[c] = 1..c
  BY DEF IsFamily
<1>2. g = [d \in capacities |-> IF d = c THEN Overwrite(f[c], n, h) ELSE f[d]]
  BY <1>1 DEF IsFamily, Copied
<1>3. Overwrite(f[c], n, h) = [i \in 1..c |-> IF i <= n THEN h[i] ELSE f[c][i]]
  BY <1>1 DEF Overwrite
<1> HIDE DEF g
<1>4. \A d \in capacities : g[d] = [i \in 1..d |-> g[d][i]]
  BY <1>2, <1>3 DEF IsFamily
<1>5. \A p \in 1..n : g[c][p] = h[p]
  BY <1>2, <1>3
<1>6. IsFamily(g, capacities)
  BY <1>2, <1>4 DEF IsFamily
<1>7. QED
  BY <1>5, <1>6 DEF g, Begins

\* The front of a buffer is what was copied there.
LEMMA Front ==
  ASSUME NEW f, NEW n \in Nat, NEW S, NEW g \in Seq(S), Len(g) = n,
         \A p \in 1..n : f[p] = g[p]
  PROVE  SubSeq(f, 1, n) = g
<1>1. \A i \in 1..n : f[i] \in S
  BY ElementOfSeq
<1>2. /\ SubSeq(f, 1, n) \in Seq(S) /\ Len(SubSeq(f, 1, n)) = n
      /\ \A i \in 1..n : SubSeq(f, 1, n)[i] = f[i]
  <2>1. /\ SubSeq(f, 1, n) \in Seq(S)
        /\ Len(SubSeq(f, 1, n)) = IF 1 <= n THEN n - 1 + 1 ELSE 0
        /\ \A i \in 1..(n - 1 + 1) : SubSeq(f, 1, n)[i] = f[1 + i - 1]
    BY <1>1, SubSeqProperties
  <2>2. QED
    BY <2>1
<1>3. QED
  BY <1>2, SeqEqual

-----------------------------------------------------------------------------
(* The stream                                                              *)

\* The operations of a call, in their order.
LEMMA OperationsShape ==
  ASSUME NEW count \in Nat \ {0}, NEW ops,
         ops \in {Operations(count), <<Operation("ids", count)>>}
  PROVE  /\ ops \in Seq(Entries) /\ ops # << >> /\ DOMAIN ops = 1..Len(ops)
         /\ ops[1].kind = "ids"
         /\ \A i \in 1..Len(ops) :
              ops[i].work = count /\ ops[i].count = count /\ ops[i].capacity = Capacity(count)
         /\ \A i \in 2..Len(ops) :
              ops[i].kind # "ids" /\ ops[i - 1].kind = Before(ops[i].kind)
<1>1. \A kind \in Kinds :
        /\ Operation(kind, count) \in Entries /\ Operation(kind, count).kind = kind
        /\ Operation(kind, count).work = count /\ Operation(kind, count).count = count
        /\ Operation(kind, count).capacity = Capacity(count)
  BY CapacityBound DEF Operation, WorkKey, Entries
<1> HIDE DEF Operation
<1>2. CASE ops = Operations(count)
  <2>1. ops = <<Operation("ids", count), Operation("lookup", count),
                Operation("rows", count), Operation("gather", count)>>
    BY <1>2 DEF Operations
  <2>2. /\ ops \in Seq(Entries) /\ Len(ops) = 4
        /\ ops[1] = Operation("ids", count) /\ ops[2] = Operation("lookup", count)
        /\ ops[3] = Operation("rows", count) /\ ops[4] = Operation("gather", count)
    BY <1>1, <2>1 DEF Kinds
  <2>3. 1..Len(ops) = {1, 2, 3, 4} /\ 2..Len(ops) = {2, 3, 4}
    BY <2>2
  <2>4. /\ ops[1].kind = "ids" /\ ops[2].kind = "lookup"
        /\ ops[3].kind = "rows" /\ ops[4].kind = "gather"
    BY <1>1, <2>2 DEF Kinds
  <2>5. \A i \in {1, 2, 3, 4} :
          ops[i].work = count /\ ops[i].count = count /\ ops[i].capacity = Capacity(count)
    BY <1>1, <2>2 DEF Kinds
  <2>6. ASSUME NEW i \in {2, 3, 4}
        PROVE  ops[i].kind # "ids" /\ ops[i - 1].kind = Before(ops[i].kind)
    <3>1. CASE i = 2
      BY <2>4, <3>1 DEF Before
    <3>2. CASE i = 3
      BY <2>4, <3>2 DEF Before
    <3>3. CASE i = 4
      BY <2>4, <3>3 DEF Before
    <3>4. QED
      BY <3>1, <3>2, <3>3
  <2>7. DOMAIN ops = 1..Len(ops) /\ ops # << >>
    BY <2>1
  <2>8. QED
    BY <2>2, <2>3, <2>4, <2>5, <2>6, <2>7
<1>3. CASE ops = <<Operation("ids", count)>>
  BY <1>1, <1>3 DEF Kinds
<1>4. QED
  BY <1>2, <1>3

\* What is enqueued as call k: the same operations, with the call filled in.
Stamped(ops, k) == [i \in DOMAIN ops |-> [ops[i] EXCEPT !.call = k]]

\* Stamping the operations of a call with its number changes nothing else.
LEMMA Numbered ==
  ASSUME NEW ops \in Seq(Entries), NEW k \in Nat
  PROVE  LET new == Stamped(ops, k) IN
         /\ new \in Seq(Entries) /\ Len(new) = Len(ops)
         /\ \A i \in 1..Len(ops) :
              /\ new[i].kind = ops[i].kind /\ new[i].count = ops[i].count
              /\ new[i].capacity = ops[i].capacity /\ new[i].work = ops[i].work
              /\ new[i].call = k
<1> USE DEF Stamped
<1> DEFINE new == Stamped(ops, k)
<1>1. DOMAIN ops = 1..Len(ops) /\ Len(ops) \in Nat /\ \A i \in 1..Len(ops) : ops[i] \in Entries
  BY LenProperties, ElementOfSeq
<1>2. \A i \in 1..Len(ops) : [ops[i] EXCEPT !.call = k] \in Entries
  BY <1>1 DEF Entries
<1>3. new \in [1..Len(ops) -> Entries]
  BY <1>1, <1>2
<1>4. new \in Seq(Entries) /\ Len(new) = Len(ops)
  BY <1>1, <1>3
<1>5. ASSUME NEW i \in 1..Len(ops)
      PROVE  /\ new[i].kind = ops[i].kind /\ new[i].count = ops[i].count
             /\ new[i].capacity = ops[i].capacity /\ new[i].work = ops[i].work
             /\ new[i].call = k
  BY <1>1 DEF Entries
<1>6. QED
  BY <1>4, <1>5

\* A call or a replay goes to the end of the stream and leaves its head.
LEMMA Enqueued ==
  ASSUME BuffersInv, StateInv, StreamInv, HeadInv, WorksInv',
         NEW ids \in Requests, NEW count \in DOMAIN works', Len(ids) = count,
         NEW ops \in {Operations(count), <<Operation("ids", count)>>},
         Enqueue(ops, Len(calls) + 1), calls' = Append(calls, ids),
         \A key \in DOMAIN works : key \in DOMAIN works',
         \A c \in Capacities :
           /\ c \in Capacities' /\ pinnedIds'[c] = pinnedIds[c]
           /\ pinnedRows'[c] = pinnedRows[c] /\ deviceRows'[c] = deviceRows[c],
         UNCHANGED <<owned, request, busy>>, WorksInv
  PROVE  stream' \in Seq(Entries) /\ StreamInv' /\ HeadInv'
<1> DEFINE k == Len(calls) + 1
           new == Stamped(ops, k)
           n == Len(stream)
<1>1. count \in Nat \ {0} /\ k \in Nat /\ n \in Nat /\ calls \in Seq(Requests)
  BY LenProperties DEF WorksInv, StateInv
<1>2. /\ \A j \in 1..Len(calls) : calls'[j] = calls[j]
      /\ calls'[k] = ids /\ Len(calls') = k
  BY <1>1, AppendProperties
<1>3. /\ ops \in Seq(Entries) /\ Len(ops) \in Nat \ {0} /\ ops[1].kind = "ids"
      /\ \A i \in 1..Len(ops) :
           ops[i].work = count /\ ops[i].count = count /\ ops[i].capacity = Capacity(count)
      /\ \A i \in 2..Len(ops) :
           ops[i].kind # "ids" /\ ops[i - 1].kind = Before(ops[i].kind)
  BY <1>1, OperationsShape, EmptySeq
<1>4. /\ new \in Seq(Entries) /\ Len(new) = Len(ops)
      /\ \A i \in 1..Len(ops) :
           /\ new[i].kind = ops[i].kind /\ new[i].count = ops[i].count
           /\ new[i].capacity = ops[i].capacity /\ new[i].work = ops[i].work
           /\ new[i].call = k
  BY <1>1, <1>3, Numbered
<1>5. stream \in Seq(Entries) /\ stream' = stream \o new
  BY DEF StateInv, Enqueue, Stamped
<1> HIDE DEF new
<1>6. ASSUME NEW i \in 1..Len(ops)
      PROVE  /\ new[i].work = count /\ new[i].count = count
             /\ new[i].capacity = Capacity(count) /\ new[i].call = k
  <2>1. ops[i].work = count /\ ops[i].count = count /\ ops[i].capacity = Capacity(count)
    BY <1>3
  <2>2. /\ new[i].count = ops[i].count /\ new[i].capacity = ops[i].capacity
        /\ new[i].work = ops[i].work /\ new[i].call = k
    BY <1>4
  <2>3. QED
    BY <2>1, <2>2
<1>7. /\ stream' \in Seq(Entries) /\ Len(stream') = n + Len(ops)
      /\ \A i \in 1..n : stream'[i] = stream[i]
      /\ \A i \in 1..Len(ops) : stream'[n + i] = new[i]
  <2>1. \A i \in 1..(n + Len(ops)) : stream'[i] = IF i <= n THEN stream[i] ELSE new[i - n]
    BY <1>4, <1>5, ConcatProperties
  <2>2. stream' \in Seq(Entries) /\ Len(stream') = n + Len(ops)
    BY <1>4, <1>5, ConcatProperties
  <2> HIDE DEF n
  <2>3. ASSUME NEW i \in 1..Len(ops) PROVE stream'[n + i] = new[i]
    <3>1. n + i \in 1..(n + Len(ops)) /\ ~(n + i <= n) /\ (n + i) - n = i
      BY <1>1, <1>3
    <3>2. QED
      BY <2>1, <3>1
  <2>4. ASSUME NEW i \in 1..n PROVE stream'[i] = stream[i]
    <3>1. i \in 1..(n + Len(ops)) /\ i <= n
      BY <1>1, <1>3
    <3>2. QED
      BY <2>1, <3>1
  <2>5. QED
    BY <2>2, <2>3, <2>4
<1>8. StreamInv'
  <2>1. ASSUME NEW i \in 1..Len(stream') PROVE Fits(stream[i])'
    <3>1. CASE i \in 1..n
      <4>1. stream'[i] = stream[i] /\ Fits(stream[i])
        BY <1>7, <3>1 DEF StreamInv
      <4>2. QED
        BY <1>1, <1>2, <4>1 DEF Fits
    <3>2. CASE i \notin 1..n
      <4>1. i - n \in 1..Len(ops) /\ i = n + (i - n)
        BY <1>1, <1>3, <1>7, <3>2
      <4>2. stream'[i] = new[i - n]
        BY <1>7, <4>1
      <4>3. /\ stream'[i].work = count /\ stream'[i].count = count
            /\ stream'[i].capacity = Capacity(count) /\ stream'[i].call = k
        BY <1>6, <4>1, <4>2
      <4>4. QED
        BY <1>1, <1>2, <4>3 DEF Fits
    <3>3. QED
      BY <3>1, <3>2
  <2>2. ASSUME NEW i \in 2..Len(stream'), stream'[i].kind # "ids"
        PROVE  /\ stream'[i - 1].kind = Before(stream'[i].kind)
               /\ stream'[i - 1].work = stream'[i].work /\ stream'[i - 1].call = stream'[i].call
    <3>1. CASE i \in 1..n
      <4>1. i \in 2..n /\ i - 1 \in 1..n
        BY <1>1, <3>1
      <4>2. stream'[i] = stream[i] /\ stream'[i - 1] = stream[i - 1]
        BY <1>7, <3>1, <4>1
      <4>3. stream[i].kind # "ids" =>
              /\ stream[i - 1].kind = Before(stream[i].kind)
              /\ stream[i - 1].work = stream[i].work /\ stream[i - 1].call = stream[i].call
        BY <4>1 DEF StreamInv
      <4>4. QED
        BY <2>2, <4>2, <4>3
    <3>2. CASE i \notin 1..n
      <4>1. i - n \in 1..Len(ops) /\ i = n + (i - n)
        BY <1>1, <1>3, <1>7, <3>2
      <4>2. stream'[i] = new[i - n] /\ new[i - n].kind = ops[i - n].kind
        BY <1>4, <1>7, <4>1
      <4>3. i - n # 1
        BY <1>3, <2>2, <4>2
      <4>4. i - n \in 2..Len(ops) /\ i - 1 - n \in 1..Len(ops) /\ i - 1 = n + (i - 1 - n)
            /\ i - n - 1 = i - 1 - n
        BY <1>1, <1>3, <4>1, <4>3
      <4>5. ops[i - n - 1].kind = Before(ops[i - n].kind)
        BY <1>3, <4>4
      <4>6. stream'[i - 1] = new[i - 1 - n] /\ new[i - 1 - n].kind = ops[i - n - 1].kind
        BY <1>4, <1>7, <4>4
      <4>7. /\ new[i - n].work = count /\ new[i - n].call = k
            /\ new[i - 1 - n].work = count /\ new[i - 1 - n].call = k
        BY <1>6, <4>1, <4>4
      <4>8. QED
        BY <4>2, <4>5, <4>6, <4>7
    <3>3. QED
      BY <3>1, <3>2
  <2>3. QED
    BY <2>1, <2>2 DEF StreamInv
<1>9. HeadInv'
  <2>1. CASE stream = << >>
    <3>1. stream'[1] = new[1] /\ stream'[1].kind = "ids" /\ ~busy[Callback]
      BY <1>3, <1>4, <1>7, <2>1, EmptySeq DEF HeadInv
    <3>2. QED
      BY <3>1 DEF HeadInv, Ready
  <2>2. CASE stream # << >>
    <3>1. /\ n >= 1 /\ stream'[1] = stream[1] /\ stream' # << >>
      BY <1>1, <1>5, <1>7, <2>2, EmptySeq
    <3>2. /\ stream[1].call \in 1..Len(calls) /\ calls'[stream[1].call] = calls[stream[1].call]
          /\ stream[1].capacity \in Capacities
      BY <1>1, <1>2, <3>1 DEF StreamInv, Fits, WorksInv
    <3>3. Ready(stream[1])'
      <4>1. Ready(stream[1])
        BY <2>2 DEF HeadInv
      <4>2. Exact(calls[stream[1].call])' = Exact(calls[stream[1].call])
        BY <3>1, <3>2 DEF Exact
      <4>3. LET c == stream[1].capacity IN
            pinnedIds'[c] = pinnedIds[c] /\ pinnedRows'[c] = pinnedRows[c]
            /\ deviceRows'[c] = deviceRows[c]
        BY <3>2
      <4>4. \A f, h, g, op : f[op.capacity] = h[op.capacity] /\ Holds(f, g, op) => Holds(h, g, op)
        BY DEF Holds
      <4>5. CASE stream[1].kind = "lookup"
        BY <3>1, <3>2, <4>1, <4>3, <4>4, <4>5 DEF Ready
      <4>6. CASE stream[1].kind = "rows"
        BY <3>1, <4>1, <4>2, <4>3, <4>4, <4>6 DEF Ready
      <4>7. CASE stream[1].kind = "gather"
        BY <3>1, <4>1, <4>2, <4>3, <4>4, <4>7 DEF Ready
      <4>8. QED
        BY <3>1, <4>5, <4>6, <4>7 DEF Ready
    <3>4. QED
      BY <2>2, <3>1, <3>2, <3>3 DEF HeadInv
  <2>3. QED
    BY <2>1, <2>2
<1>10. QED
  BY <1>7, <1>8, <1>9

\* The exact rows of a call, one for each id.
LEMMA ExactRows ==
  ASSUME NEW ids \in Requests
  PROVE  /\ ids \in Seq(Int) /\ Len(ids) \in Nat /\ DOMAIN ids = 1..Len(ids)
         /\ Exact(ids) \in Seq({Store!Exact(owned, id) : id \in Int})
         /\ Len(Exact(ids)) = Len(ids)
         /\ Exact(ids) = [p \in 1..Len(ids) |-> Store!Exact(owned, ids[p])]
<1>1. ids \in Seq(Int) /\ Len(ids) \in Nat /\ DOMAIN ids = 1..Len(ids)
  BY RequestsAssumption, LenProperties
<1>2. Exact(ids) = [p \in 1..Len(ids) |-> Store!Exact(owned, ids[p])]
  BY <1>1 DEF Exact
<1>3. \A p \in 1..Len(ids) : ids[p] \in Int
  BY <1>1, ElementOfSeq
<1> DEFINE S == {Store!Exact(owned, id) : id \in Int}
<1>4. \A p \in 1..Len(ids) : Store!Exact(owned, ids[p]) \in S
  BY <1>3
<1> HIDE DEF S
<1>5. Exact(ids) \in [1..Len(ids) -> S]
  BY <1>2, <1>4
<1>6. Exact(ids) \in Seq(S) /\ Len(Exact(ids)) = Len(ids)
  BY <1>1, <1>5
<1>7. QED
  BY <1>1, <1>2, <1>6 DEF S

\* What the rank owns does not change, nor do the rows it must produce.
LEMMA ExactStays ==
  ASSUME UNCHANGED owned
  PROVE  Outputs' = Outputs /\ \A ids \in Requests : Exact(ids)' = Exact(ids)
<1>1. \A ids \in Requests : Exact(ids)' = Exact(ids)
  BY DEF Exact
<1>2. QED
  BY <1>1 DEF Outputs

\* A call that has just been made has no output, or has the exact one.
LEMMA CallNoted ==
  ASSUME StateInv, OutputsExact, NEW ids \in Requests, UNCHANGED owned,
         NEW v \in {Pending, Raised, Exact(ids)},
         calls' = Append(calls, ids), out' = Append(out, v)
  PROVE  /\ calls' \in Seq(Requests) /\ out' \in Seq(Outputs') /\ Len(out') = Len(calls')
         /\ OutputsExact'
         /\ Len(calls') = Len(calls) + 1 /\ \A k \in 1..Len(calls) : calls'[k] = calls[k]
<1>1. /\ calls \in Seq(Requests) /\ out \in Seq(Outputs) /\ Len(out) = Len(calls)
      /\ Len(calls) \in Nat /\ DOMAIN calls = 1..Len(calls)
  BY LenProperties DEF StateInv
<1>2. v \in Outputs
  BY DEF Outputs
<1>3. /\ calls' \in Seq(Requests) /\ Len(calls') = Len(calls) + 1
      /\ \A k \in 1..Len(calls) : calls'[k] = calls[k]
      /\ calls'[Len(calls) + 1] = ids
  BY <1>1, AppendProperties
<1>4. /\ out' \in Seq(Outputs) /\ Len(out') = Len(out) + 1
      /\ \A k \in 1..Len(out) : out'[k] = out[k]
      /\ out'[Len(out) + 1] = v
  BY <1>1, <1>2, AppendProperties
<1>5. DOMAIN calls' = 1..(Len(calls) + 1)
  BY <1>3, LenProperties
<1>6. ASSUME NEW k \in DOMAIN calls', out'[k] \notin {Pending, Raised}
      PROVE  out'[k] = Exact(calls[k])'
  <2>1. CASE k \in 1..Len(calls)
    <3>1. calls[k] \in Requests /\ out[k] = Exact(calls[k])
      BY <1>1, <1>4, <1>6, <2>1, ElementOfSeq DEF OutputsExact
    <3>2. Exact(calls[k])' = Exact(calls[k])
      BY <1>3, <2>1 DEF Exact
    <3>3. QED
      BY <1>1, <1>4, <2>1, <3>1, <3>2
  <2>2. CASE k = Len(calls) + 1
    <3>1. out'[k] = Exact(ids)
      BY <1>1, <1>4, <1>6, <2>2
    <3>2. Exact(calls[k])' = Exact(ids)
      BY <1>3, <2>2 DEF Exact
    <3>3. QED
      BY <3>1, <3>2
  <2>3. QED
    BY <1>1, <1>5, <2>1, <2>2
<1>7. OutputsExact'
  BY <1>6 DEF OutputsExact
<1>8. QED
  BY <1>1, <1>3, <1>4, <1>7, ExactStays

\* Buffers are added, never changed or removed, when a call is made.
LEMMA Staged ==
  ASSUME BuffersInv, NEW c \in Nat, Stage(c)
  PROVE  /\ BuffersInv' /\ Capacities' = Capacities \cup {c}
         /\ \A d \in Capacities :
              /\ pinnedIds'[d] = pinnedIds[d] /\ pinnedRows'[d] = pinnedRows[d]
              /\ deviceRows'[d] = deviceRows[d]
<1>1. Capacities \in SUBSET Nat
  BY DEF BuffersInv
<1>2. /\ IsFamily(pinnedIds', Capacities \cup {c})
      /\ \A d \in Capacities : pinnedIds'[d] = pinnedIds[d]
  BY <1>1, Allocated DEF BuffersInv, Stage
<1>3. /\ IsFamily(pinnedRows', Capacities \cup {c})
      /\ \A d \in Capacities : pinnedRows'[d] = pinnedRows[d]
  BY <1>1, Allocated DEF BuffersInv, Stage
<1>4. /\ IsFamily(deviceRows', Capacities \cup {c})
      /\ \A d \in Capacities : deviceRows'[d] = deviceRows[d]
  BY <1>1, Allocated DEF BuffersInv, Stage
<1>5. Capacities' = Capacities \cup {c}
  BY <1>2 DEF IsFamily, Capacities
<1>6. QED
  BY <1>1, <1>2, <1>3, <1>4, <1>5 DEF BuffersInv

\* So are the Works.
LEMMA Remembered ==
  ASSUME WorksInv, NEW count \in Nat \ {0}, Remember(count),
         Capacities \subseteq Capacities', Capacity(count) \in Capacities'
  PROVE  WorksInv' /\ DOMAIN works' = DOMAIN works \cup {count}
<1>1. works' = [key \in DOMAIN works \cup {count} |->
                  IF key \in DOMAIN works THEN works[key]
                  ELSE [count |-> count, capacity |-> Capacity(count)]]
  BY DEF Remember, IfNew, WorkKey
<1>2. QED
  BY <1>1 DEF WorksInv

\* What was recorded stays a whole call.
LEMMA GraphsStay ==
  ASSUME GraphsInv, UNCHANGED <<recorded, graphs>>, DOMAIN works \subseteq DOMAIN works'
  PROVE  GraphsInv'
  BY DEF GraphsInv

-----------------------------------------------------------------------------
(* Every step keeps the invariant                                          *)

\* The invariant holds before any call.
LEMMA AInit == Init => AInv
<1> SUFFICES ASSUME Init PROVE AInv
  OBVIOUS
<1>1. BuffersInv
  BY DEF Init, BuffersInv, IsFamily, Capacities
<1>2. StateInv
  <2>1. /\ calls \in Seq(Requests) /\ out \in Seq(Outputs) /\ stream \in Seq(Entries)
        /\ Len(out) = Len(calls)
    BY EmptySeq DEF Init
  <2>2. request \in [{Callback} -> Seq(Int)] /\ busy \in [{Callback} -> BOOLEAN]
    BY EmptySeq DEF Init
  <2>3. QED
    BY <2>1, <2>2 DEF Init, StateInv
<1>3. Len(stream) = 0 /\ ~busy[Callback] /\ DOMAIN calls = {}
  BY EmptySeq DEF Init
<1>4. WorksInv /\ GraphsInv
  BY DEF Init, WorksInv, GraphsInv
<1>5. StreamInv /\ HeadInv /\ OutputsExact
  BY <1>3 DEF Init, StreamInv, HeadInv, OutputsExact
<1>6. QED
  BY <1>1, <1>2, <1>4, <1>5 DEF AInv

\* A call without ids returns at once.
LEMMA EmptyCallKeeps ==
  ASSUME AInv, << >> \in Requests, calls' = Append(calls, << >>), out' = Append(out, << >>),
         UNCHANGED <<store, staging, works, stream, graph>>
  PROVE  AInv'
<1>1. UNCHANGED <<up, owned, request, busy, reply, pinnedIds, pinnedRows, deviceRows, works, stream,
                  capturing, recorded, graphs>>
  BY DEF store, staging, graph
<1>2. Exact(<< >>) = << >>
  BY DEF Exact
<1>3. /\ calls' \in Seq(Requests) /\ out' \in Seq(Outputs') /\ Len(out') = Len(calls')
      /\ OutputsExact'
      /\ Len(calls') = Len(calls) + 1 /\ \A k \in 1..Len(calls) : calls'[k] = calls[k]
  BY <1>1, <1>2, CallNoted DEF AInv
<1>4. BuffersInv' /\ StateInv' /\ WorksInv' /\ GraphsInv'
  BY <1>1, <1>3 DEF AInv, BuffersInv, Capacities, StateInv, WorksInv, GraphsInv
<1>5. ASSUME NEW i \in 1..Len(stream) PROVE Fits(stream[i])'
  <2>1. Fits(stream[i]) /\ Len(calls) \in Nat
    BY LenProperties DEF AInv, StateInv, StreamInv
  <2>2. QED
    BY <1>1, <1>3, <2>1 DEF Fits
<1>6. StreamInv'
  BY <1>1, <1>5 DEF AInv, StreamInv
<1>7. HeadInv'
  <2>1. ASSUME stream # << >> PROVE Ready(stream[1])'
    <3>1. Len(stream) \in Nat \ {0}
      BY <2>1, EmptySeq DEF AInv, StateInv
    <3>2. Ready(stream[1]) /\ Fits(stream[1])
      BY <2>1, <3>1 DEF AInv, HeadInv, StreamInv
    <3>3. calls'[stream[1].call] = calls[stream[1].call]
      BY <1>3, <3>2 DEF Fits
    <3>4. Exact(calls[stream[1].call])' = Exact(calls[stream[1].call])
      BY <1>1, <3>3 DEF Exact
    <3>5. QED
      BY <1>1, <3>2, <3>3, <3>4 DEF Ready, Holds
  <2>2. ASSUME busy[Callback] PROVE request[Callback] = calls'[stream[1].call]
    <3>1. stream # << >> /\ request[Callback] = calls[stream[1].call]
      BY <2>2 DEF AInv, HeadInv
    <3>2. Len(stream) \in Nat \ {0}
      BY <3>1, EmptySeq DEF AInv, StateInv
    <3>3. Fits(stream[1])
      BY <3>2 DEF AInv, StreamInv
    <3>4. QED
      BY <1>3, <3>1, <3>3 DEF Fits
  <2>3. QED
    BY <1>1, <2>1, <2>2 DEF AInv, HeadInv
<1>8. QED
  BY <1>3, <1>4, <1>6, <1>7 DEF AInv

\* A call with ids, or as much of it as was enqueued before it failed.
LEMMA EnqueueKeeps ==
  ASSUME AInv, NEW ids \in Requests, NEW v \in {Pending, Raised}, NEW count \in Nat \ {0},
         Len(ids) = count, calls' = Append(calls, ids), out' = Append(out, v),
         \/ Stage(Capacity(count)) /\ Remember(count)
         \/ count \in DOMAIN works /\ UNCHANGED <<staging, works>>,
         NEW ops \in {Operations(count), <<Operation("ids", count)>>},
         Enqueue(ops, Len(calls) + 1), UNCHANGED <<store, graph>>
  PROVE  AInv'
<1>1. UNCHANGED <<up, owned, request, busy, reply, capturing, recorded, graphs>>
  BY DEF store, graph
<1>2. /\ calls' \in Seq(Requests) /\ out' \in Seq(Outputs') /\ Len(out') = Len(calls')
      /\ OutputsExact'
  BY <1>1, CallNoted DEF AInv
<1>3. /\ BuffersInv' /\ Capacities \subseteq Capacities'
      /\ \A d \in Capacities :
           /\ pinnedIds'[d] = pinnedIds[d] /\ pinnedRows'[d] = pinnedRows[d]
           /\ deviceRows'[d] = deviceRows[d]
      /\ WorksInv' /\ DOMAIN works \subseteq DOMAIN works' /\ count \in DOMAIN works'
  <2>1. CASE Stage(Capacity(count)) /\ Remember(count)
    <3>1. /\ BuffersInv' /\ Capacities' = Capacities \cup {Capacity(count)}
          /\ \A d \in Capacities :
               /\ pinnedIds'[d] = pinnedIds[d] /\ pinnedRows'[d] = pinnedRows[d]
               /\ deviceRows'[d] = deviceRows[d]
      BY <2>1, CapacityBound, Staged DEF AInv
    <3>2. WorksInv' /\ DOMAIN works' = DOMAIN works \cup {count}
      BY <2>1, <3>1, Remembered DEF AInv
    <3>3. QED
      BY <3>1, <3>2
  <2>2. CASE count \in DOMAIN works /\ UNCHANGED <<staging, works>>
    BY <2>2 DEF AInv, BuffersInv, WorksInv, Capacities, staging
  <2>3. QED
    BY <2>1, <2>2
<1>4. stream' \in Seq(Entries) /\ StreamInv' /\ HeadInv'
  BY <1>1, <1>3, Enqueued DEF AInv
<1>5. GraphsInv'
  BY <1>1, <1>3, GraphsStay DEF AInv
<1>6. StateInv'
  BY <1>1, <1>2, <1>4 DEF AInv, StateInv
<1>7. QED
  BY <1>2, <1>3, <1>4, <1>5, <1>6 DEF AInv

\* What the Python thread does: calls, failed calls and replays.
LEMMA CallsKeep ==
  ASSUME AInv, NEW ids \in Requests,
         \/ Call(ids) \/ CallFails(ids)
         \/ \E ops \in graphs : Replay(ops, ids)
  PROVE  AInv'
<1>1. ids # << >> => Len(ids) \in Nat \ {0}
  BY RequestsAssumption, EmptySeq
<1>2. CASE Call(ids)
  <2>1. CASE ids = << >>
    BY <1>2, <2>1, EmptyCallKeeps DEF Call, Stage, staging
  <2>2. CASE ids # << >>
    <3>1. /\ calls' = Append(calls, ids) /\ out' = Append(out, Pending)
          /\ Stage(Capacity(Len(ids))) /\ Remember(Len(ids))
          /\ Enqueue(Operations(Len(ids)), Len(calls) + 1) /\ UNCHANGED <<store, graph>>
      BY <1>2, <2>2 DEF Call
    <3>2. Operations(Len(ids)) \in {Operations(Len(ids)), <<Operation("ids", Len(ids))>>}
      OBVIOUS
    <3>3. Pending \in {Pending, Raised}
      OBVIOUS
    <3>4. QED
      BY <1>1, <2>2, <3>1, <3>2, <3>3, EnqueueKeeps
  <2>3. QED
    BY <2>1, <2>2
<1>3. CASE CallFails(ids)
  <2>1. /\ ids # << >> /\ calls' = Append(calls, ids) /\ out' = Append(out, Raised)
        /\ Stage(Capacity(Len(ids))) /\ Remember(Len(ids))
        /\ Enqueue(<<Operation("ids", Len(ids))>>, Len(calls) + 1) /\ UNCHANGED <<store, graph>>
    BY <1>3 DEF CallFails
  <2>2. <<Operation("ids", Len(ids))>> \in {Operations(Len(ids)), <<Operation("ids", Len(ids))>>}
    OBVIOUS
  <2>3. Raised \in {Pending, Raised}
    OBVIOUS
  <2>4. QED
    BY <1>1, <2>1, <2>2, <2>3, EnqueueKeeps
<1>4. ASSUME NEW ops \in graphs, Replay(ops, ids) PROVE AInv'
  <2>1. PICK count \in DOMAIN works : ops = Operations(count)
    BY DEF AInv, GraphsInv
  <2>2. count \in Nat \ {0}
    BY DEF AInv, WorksInv
  <2>3. Len(ids) = count
    <3>1. Head(ops).count = count
      BY <2>1 DEF Operations, Operation
    <3>2. QED
      BY <1>4, <3>1 DEF Replay
  <2>4. /\ calls' = Append(calls, ids) /\ out' = Append(out, Pending)
        /\ Enqueue(Operations(count), Len(calls) + 1)
        /\ UNCHANGED <<store, staging, works, graph>>
    BY <1>4, <2>1 DEF Replay
  <2>5. QED
    BY <2>2, <2>3, <2>4, EnqueueKeeps
<1>5. QED
  BY <1>2, <1>3, <1>4

\* Capture adds Works and whole calls, and touches nothing else.
LEMMA CaptureKeeps ==
  ASSUME AInv, BeginCapture \/ EndCapture \/ \E count \in Counts : Record(count)
  PROVE  AInv'
<1>1. /\ UNCHANGED <<up, owned, request, busy, reply, pinnedIds, pinnedRows, deviceRows,
                     stream, calls, out>>
      /\ capturing' \in BOOLEAN
  BY DEF BeginCapture, EndCapture, Record, store, staging, AInv, StateInv
<1>2. /\ WorksInv' /\ DOMAIN works \subseteq DOMAIN works' /\ GraphsInv'
  <2>1. CASE BeginCapture
    BY <2>1 DEF BeginCapture, AInv, WorksInv, GraphsInv, Capacities, staging
  <2>2. CASE EndCapture
    BY <2>2 DEF EndCapture, AInv, WorksInv, GraphsInv, Capacities, staging
  <2>3. ASSUME NEW count \in Counts, Record(count)
        PROVE  WorksInv' /\ DOMAIN works \subseteq DOMAIN works' /\ GraphsInv'
    <3>1. count \in Nat \ {0} /\ Capacities' = Capacities
      BY <1>1, CountsAssumption DEF Capacities
    <3>2. CASE UNCHANGED <<works, recorded, graphs>>
      BY <3>1, <3>2 DEF AInv, WorksInv, GraphsInv
    <3>3. CASE ~UNCHANGED <<works, recorded, graphs>>
      <4>1. /\ Capacity(count) \in Capacities /\ Remember(count) /\ graphs' = graphs
            /\ recorded' \in {recorded, Operations(count)}
        BY <2>3, <3>3 DEF Record, Capacities
      <4>2. WorksInv' /\ DOMAIN works' = DOMAIN works \cup {count}
        BY <3>1, <4>1, Remembered DEF AInv
      <4>3. GraphsInv'
        BY <4>1, <4>2 DEF AInv, GraphsInv
      <4>4. QED
        BY <4>2, <4>3
    <3>4. QED
      BY <3>2, <3>3
  <2>4. QED
    BY <2>1, <2>2, <2>3
<1>3. BuffersInv' /\ StateInv'
  BY <1>1, ExactStays DEF AInv, BuffersInv, Capacities, StateInv
<1>4. StreamInv'
  BY <1>1, <1>2 DEF AInv, StreamInv, Fits
<1>5. HeadInv'
  BY <1>1 DEF AInv, HeadInv, Ready, Holds, Exact
<1>6. OutputsExact'
  BY <1>1 DEF AInv, OutputsExact, Exact
<1>7. QED
  BY <1>2, <1>3, <1>4, <1>5, <1>6 DEF AInv

\* What the operation at the head of the stream is known to be.
LEMMA AtHead ==
  ASSUME AInv, stream # << >>
  PROVE  LET op == stream[1] IN
         /\ Head(stream) = op /\ op \in Entries /\ Fits(op) /\ Ready(op)
         /\ works[op.work] = [count |-> op.count, capacity |-> op.capacity]
         /\ op.capacity \in Capacities /\ op.count \in Nat \ {0} /\ op.count <= op.capacity
         /\ calls[op.call] \in Requests /\ Len(calls[op.call]) = op.count
<1>1. stream \in Seq(Entries) /\ Len(stream) \in Nat \ {0}
  BY EmptySeq DEF AInv, StateInv
<1>2. Head(stream) = stream[1] /\ stream[1] \in Entries
  BY <1>1, ElementOfSeq
<1>3. Fits(stream[1]) /\ Ready(stream[1])
  BY <1>1 DEF AInv, StreamInv, HeadInv
<1>4. stream[1].count \in Nat \ {0}
  BY <1>2 DEF Entries
<1>5. /\ works[stream[1].work] = [count |-> stream[1].count, capacity |-> stream[1].capacity]
      /\ stream[1].capacity \in Capacities /\ stream[1].count <= stream[1].capacity
  BY <1>3, <1>4, CapacityBound DEF AInv, WorksInv, Fits
<1>6. calls[stream[1].call] \in Requests /\ Len(calls[stream[1].call]) = stream[1].count
  BY <1>3, ElementOfSeq DEF AInv, StateInv, Fits
<1>7. QED
  BY <1>2, <1>3, <1>4, <1>5, <1>6

\* When it has been executed, the next one is of another call, or is the
\* next of the same.
LEMMA Popped ==
  ASSUME AInv, stream # << >>, stream' = Tail(stream), UNCHANGED <<works, calls>>
  PROVE  /\ stream' \in Seq(Entries) /\ StreamInv'
         /\ stream' # << >> =>
              /\ stream'[1].kind \in Kinds
              /\ stream'[1].kind # "ids" =>
                   /\ stream[1].kind = Before(stream'[1].kind)
                   /\ stream'[1].call = stream[1].call /\ stream'[1].count = stream[1].count
                   /\ stream'[1].capacity = stream[1].capacity
<1>1. stream \in Seq(Entries) /\ Len(stream) \in Nat \ {0}
  BY EmptySeq DEF AInv, StateInv
<1>2. /\ stream' \in Seq(Entries) /\ Len(stream') = Len(stream) - 1
      /\ \A i \in 1..Len(stream') : stream'[i] = stream[i + 1]
  BY <1>1, HeadTailProperties
<1>3. ASSUME NEW i \in 1..Len(stream') PROVE Fits(stream[i])'
  <2>1. i + 1 \in 1..Len(stream)
    BY <1>1, <1>2
  <2>2. Fits(stream[i + 1])
    BY <2>1 DEF AInv, StreamInv
  <2>3. QED
    BY <1>2, <2>2 DEF Fits
<1>4. ASSUME NEW i \in 2..Len(stream'), stream'[i].kind # "ids"
      PROVE  /\ stream'[i - 1].kind = Before(stream'[i].kind)
             /\ stream'[i - 1].work = stream'[i].work /\ stream'[i - 1].call = stream'[i].call
  <2>1. /\ i + 1 \in 2..Len(stream) /\ i \in 1..Len(stream') /\ i - 1 \in 1..Len(stream')
        /\ (i - 1) + 1 = i /\ (i + 1) - 1 = i
    BY <1>1, <1>2
  <2>2. stream'[i] = stream[i + 1] /\ stream'[i - 1] = stream[i]
    BY <1>2, <2>1
  <2>3. stream[i + 1].kind # "ids" =>
          /\ stream[i].kind = Before(stream[i + 1].kind)
          /\ stream[i].work = stream[i + 1].work /\ stream[i].call = stream[i + 1].call
    BY <2>1 DEF AInv, StreamInv
  <2>4. QED
    BY <1>4, <2>2, <2>3
<1>5. StreamInv'
  BY <1>3, <1>4 DEF StreamInv
<1>6. ASSUME stream' # << >>
      PROVE  /\ stream'[1].kind \in Kinds
             /\ stream'[1].kind # "ids" =>
                  /\ stream[1].kind = Before(stream'[1].kind)
                  /\ stream'[1].call = stream[1].call /\ stream'[1].count = stream[1].count
                  /\ stream'[1].capacity = stream[1].capacity
  <2>1. Len(stream') \in Nat \ {0}
    BY <1>2, <1>6, EmptySeq
  <2>2. stream'[1] = stream[2] /\ 1 \in 1..Len(stream) /\ 2 \in 2..Len(stream)
    BY <1>1, <1>2, <2>1
  <2>3. stream[2] \in Entries
    BY <1>1, <2>2, ElementOfSeq
  <2>4. stream[2].kind \in Kinds
    BY <2>3 DEF Entries
  <2>5. stream[2].kind # "ids" =>
          /\ stream[1].kind = Before(stream[2].kind)
          /\ stream[1].work = stream[2].work /\ stream[1].call = stream[2].call
    <3>1. 2 - 1 = 1
      OBVIOUS
    <3>2. QED
      BY <2>2, <3>1 DEF AInv, StreamInv
  <2>6. Fits(stream[1]) /\ Fits(stream[2])
    BY <2>2 DEF AInv, StreamInv
  <2>7. QED
    BY <2>2, <2>4, <2>5, <2>6 DEF Fits
<1>7. QED
  BY <1>2, <1>5, <1>6

\* What an executed operation leaves to prove: that the operation after it
\* finds what it needs.
LEMMA ExecuteKeeps ==
  ASSUME AInv, stream # << >>, stream' = Tail(stream),
         UNCHANGED <<owned, request, works, capturing, recorded, graphs, calls>>,
         busy' \in [{Callback} -> BOOLEAN], ~busy'[Callback], reply' = [t \in {Callback} |-> reply'[t]],
         BuffersInv', Capacities' = Capacities,
         out' \in Seq(Outputs), Len(out') = Len(calls), OutputsExact',
         ASSUME NEW op \in Entries, op.kind # "ids", stream[1].kind = Before(op.kind),
                op.call = stream[1].call, op.count = stream[1].count,
                op.capacity = stream[1].capacity
         PROVE  Ready(op)'
  PROVE  AInv'
<1>1. /\ stream' \in Seq(Entries) /\ StreamInv'
      /\ stream' # << >> =>
           /\ stream'[1].kind \in Kinds
           /\ stream'[1].kind # "ids" =>
                /\ stream[1].kind = Before(stream'[1].kind)
                /\ stream'[1].call = stream[1].call /\ stream'[1].count = stream[1].count
                /\ stream'[1].capacity = stream[1].capacity
  BY Popped
<1>2. WorksInv' /\ GraphsInv' /\ StateInv'
  BY <1>1, ExactStays DEF AInv, WorksInv, GraphsInv, StateInv
<1>3. HeadInv'
  <2>1. ASSUME stream' # << >> PROVE Ready(stream[1])'
    <3>1. CASE stream'[1].kind = "ids"
      BY <3>1 DEF Ready
    <3>2. CASE stream'[1].kind # "ids"
      <4>1. stream'[1] \in Entries
        BY <1>1, <2>1, EmptySeq, ElementOfSeq
      <4>2. QED
        BY <1>1, <2>1, <3>2, <4>1
    <3>3. QED
      BY <3>1, <3>2
  <2>2. QED
    BY <2>1 DEF HeadInv
<1>4. QED
  BY <1>1, <1>2, <1>3 DEF AInv

\* The ids are copied: the lookup will find them.
LEMMA CopyIdsKeeps ==
  ASSUME AInv, CopyIds
  PROVE  AInv'
<1> DEFINE op == stream[1]
<1>1. /\ stream # << >> /\ op.kind = "ids" /\ stream' = Tail(stream)
      /\ pinnedIds' = Copied(pinnedIds, op.capacity, op.count, calls[op.call])
      /\ UNCHANGED <<up, owned, request, busy, reply, pinnedRows, deviceRows, works, capturing,
                     recorded, graphs, calls, out>>
  BY AtHead DEF CopyIds, Executing, Copied, store, graph
<1>2. /\ op.capacity \in Capacities /\ op.count \in Nat /\ op.count <= op.capacity
      /\ Capacities \in SUBSET Nat
  BY <1>1, AtHead DEF AInv, BuffersInv
<1> HIDE DEF op
<1>3. /\ IsFamily(pinnedIds', Capacities) /\ DOMAIN pinnedIds' = Capacities
      /\ \A p \in 1..op.count : pinnedIds'[op.capacity][p] = calls[op.call][p]
  <2>1. IsFamily(pinnedIds, Capacities)
    BY DEF AInv, BuffersInv
  <2>2. /\ IsFamily(pinnedIds', Capacities)
        /\ Begins(pinnedIds', op.capacity, op.count, calls[op.call])
    BY <1>1, <1>2, <2>1, Overwritten
  <2>3. QED
    BY <2>2 DEF IsFamily, Begins
<1>4. BuffersInv' /\ Capacities' = Capacities
  BY <1>1, <1>3 DEF AInv, BuffersInv, Capacities
<1>5. ASSUME NEW next \in Entries, next.kind # "ids", stream[1].kind = Before(next.kind),
             next.call = stream[1].call, next.count = stream[1].count,
             next.capacity = stream[1].capacity
      PROVE  Ready(next)'
  <2>1. next.kind = "lookup"
    BY <1>1, <1>5 DEF Before, Entries, Kinds, op
  <2>2. QED
    BY <1>1, <1>3, <1>5, <2>1 DEF Ready, Holds, op
<1>6. ~busy[Callback]
  BY <1>1 DEF AInv, HeadInv, op
<1>7. /\ busy' \in [{Callback} -> BOOLEAN] /\ reply' = [t \in {Callback} |-> reply'[t]]
      /\ out' \in Seq(Outputs) /\ Len(out') = Len(calls)
  BY <1>1 DEF AInv, StateInv
<1>8. OutputsExact'
  BY <1>1 DEF AInv, OutputsExact, Exact
<1>9. QED
  BY <1>1, <1>4, <1>5, <1>6, <1>7, <1>8, ExecuteKeeps

\* The callback passes its request, which is the ids of its call.
LEMMA StartLookupKeeps ==
  ASSUME AInv, StartLookup
  PROVE  AInv'
<1> DEFINE op == stream[1]
<1>1. /\ stream # << >> /\ op.kind = "lookup" /\ Head(stream) = op
      /\ works[op.work].capacity = op.capacity /\ works[op.work].count = op.count
      /\ UNCHANGED <<pinnedIds, pinnedRows, deviceRows, works, stream, capturing, recorded, graphs,
                     calls, out>>
  BY AtHead DEF StartLookup, Executing, staging, graph
<1>2. /\ request' = [request EXCEPT ![Callback] = SubSeq(pinnedIds[op.capacity], 1, op.count)]
      /\ busy' = [busy EXCEPT ![Callback] = TRUE] /\ reply' = [reply EXCEPT ![Callback] = << >>]
      /\ UNCHANGED owned
  BY <1>1 DEF StartLookup, Store!Begin
<1>3. SubSeq(pinnedIds[op.capacity], 1, op.count) = calls[op.call] /\ calls[op.call] \in Seq(Int)
  <2>1. /\ calls[op.call] \in Requests /\ op.count \in Nat /\ Len(calls[op.call]) = op.count
        /\ \A p \in 1..op.count : pinnedIds[op.capacity][p] = calls[op.call][p]
    BY <1>1, AtHead DEF Ready, Holds
  <2>2. calls[op.call] \in Seq(Int)
    BY <2>1, RequestsAssumption
  <2>3. QED
    BY <2>1, <2>2, Front
<1>4. StateInv'
  <2>1. /\ request' \in [{Callback} -> Seq(Int)] /\ busy' \in [{Callback} -> BOOLEAN]
        /\ reply' = [t \in {Callback} |-> reply'[t]]
    BY <1>2, <1>3 DEF AInv, StateInv
  <2>2. QED
    BY <1>1, <1>2, <2>1, ExactStays DEF AInv, StateInv
<1>5. HeadInv'
  <2>1. request'[Callback] = calls[op.call]
    BY <1>2, <1>3 DEF AInv, StateInv
  <2>2. QED
    BY <1>1, <1>2, <2>1 DEF AInv, HeadInv, Ready, Holds, Exact
<1>6. BuffersInv' /\ WorksInv' /\ GraphsInv' /\ StreamInv'
  BY <1>1 DEF AInv, BuffersInv, Capacities, WorksInv, GraphsInv, StreamInv, Fits
<1>7. OutputsExact'
  BY <1>1, <1>2 DEF AInv, OutputsExact, Exact
<1>8. QED
  BY <1>4, <1>5, <1>6, <1>7 DEF AInv

\* The lookup returns the exact rows of those ids.
LEMMA FinishLookupKeeps ==
  ASSUME AInv, FinishLookup
  PROVE  AInv'
<1> DEFINE op == stream[1]
<1>1. /\ stream # << >> /\ op.kind = "lookup" /\ Head(stream) = op /\ stream' = Tail(stream)
      /\ works[op.work].capacity = op.capacity /\ works[op.work].count = op.count
      /\ UNCHANGED <<pinnedIds, deviceRows, works, capturing, recorded, graphs, calls, out>>
  BY AtHead DEF FinishLookup, Executing, graph
<1>2. /\ busy[Callback] /\ busy' = [busy EXCEPT ![Callback] = FALSE]
      /\ reply' = [reply EXCEPT ![Callback] =
                     [p \in 1..Len(request[Callback]) |-> Store!Exact(owned, request[Callback][p])]]
      /\ UNCHANGED <<owned, request>>
  BY DEF FinishLookup, Store!Return
<1>3. pinnedRows' = Copied(pinnedRows, op.capacity, op.count, reply'[Callback])
  BY <1>1 DEF FinishLookup, Copied
<1>4. reply'[Callback] = Exact(calls[op.call])
  <2>1. request[Callback] = calls[op.call] /\ calls[op.call] \in Requests
    BY <1>1, <1>2, AtHead DEF AInv, HeadInv
  <2>2. reply'[Callback]
          = [p \in 1..Len(request[Callback]) |-> Store!Exact(owned, request[Callback][p])]
    BY <1>2 DEF AInv, StateInv
  <2>3. Exact(calls[op.call])
          = [p \in 1..Len(calls[op.call]) |-> Store!Exact(owned, calls[op.call][p])]
    BY <2>1, ExactRows
  <2>4. QED
    BY <2>1, <2>2, <2>3
<1>5. /\ op.capacity \in Capacities /\ op.count \in Nat /\ op.count <= op.capacity
      /\ Capacities \in SUBSET Nat
  BY <1>1, AtHead DEF AInv, BuffersInv
<1> HIDE DEF op
<1>6. /\ IsFamily(pinnedRows', Capacities)
      /\ \A p \in 1..op.count : pinnedRows'[op.capacity][p] = Exact(calls[op.call])[p]
  <2>1. IsFamily(pinnedRows, Capacities)
    BY DEF AInv, BuffersInv
  <2>2. /\ IsFamily(pinnedRows', Capacities)
        /\ Begins(pinnedRows', op.capacity, op.count, reply'[Callback])
    BY <1>3, <1>5, <2>1, Overwritten
  <2>3. QED
    BY <1>4, <2>2 DEF Begins
<1>7. BuffersInv' /\ Capacities' = Capacities
  BY <1>1, <1>6 DEF AInv, BuffersInv, Capacities
<1>8. ASSUME NEW next \in Entries, next.kind # "ids", stream[1].kind = Before(next.kind),
             next.call = stream[1].call, next.count = stream[1].count,
             next.capacity = stream[1].capacity
      PROVE  Ready(next)'
  <2>1. next.kind = "rows"
    BY <1>1, <1>8 DEF Before, Entries, Kinds, op
  <2>2. Exact(calls[next.call])' = Exact(calls[op.call])
    BY <1>1, <1>2, <1>8 DEF Exact, op
  <2>3. QED
    BY <1>6, <1>8, <2>1, <2>2 DEF Ready, Holds, op
<1>9. /\ busy' \in [{Callback} -> BOOLEAN] /\ ~busy'[Callback]
      /\ reply' = [t \in {Callback} |-> reply'[t]]
      /\ out' \in Seq(Outputs) /\ Len(out') = Len(calls)
  BY <1>1, <1>2 DEF AInv, StateInv
<1>10. OutputsExact'
  BY <1>1, <1>2 DEF AInv, OutputsExact, Exact
<1>11. QED
  BY <1>1, <1>2, <1>7, <1>8, <1>9, <1>10, ExecuteKeeps

\* The rows are copied to the device.
LEMMA CopyRowsKeeps ==
  ASSUME AInv, CopyRows
  PROVE  AInv'
<1> DEFINE op == stream[1]
<1>1. /\ stream # << >> /\ op.kind = "rows" /\ stream' = Tail(stream)
      /\ deviceRows' = Copied(deviceRows, op.capacity, op.count, pinnedRows[op.capacity])
      /\ UNCHANGED <<up, owned, request, busy, reply, pinnedIds, pinnedRows, works, capturing,
                     recorded, graphs, calls, out>>
  BY AtHead DEF CopyRows, Executing, Copied, store, graph
<1>2. /\ op.capacity \in Capacities /\ op.count \in Nat /\ op.count <= op.capacity
      /\ Capacities \in SUBSET Nat
      /\ \A p \in 1..op.count : pinnedRows[op.capacity][p] = Exact(calls[op.call])[p]
  BY <1>1, AtHead DEF AInv, BuffersInv, Ready, Holds
<1> HIDE DEF op
<1>3. /\ IsFamily(deviceRows', Capacities)
      /\ \A p \in 1..op.count : deviceRows'[op.capacity][p] = Exact(calls[op.call])[p]
  <2>1. IsFamily(deviceRows, Capacities)
    BY DEF AInv, BuffersInv
  <2>2. /\ IsFamily(deviceRows', Capacities)
        /\ Begins(deviceRows', op.capacity, op.count, pinnedRows[op.capacity])
    BY <1>1, <1>2, <2>1, Overwritten
  <2>3. QED
    BY <1>2, <2>2 DEF Begins
<1>4. BuffersInv' /\ Capacities' = Capacities
  BY <1>1, <1>3 DEF AInv, BuffersInv, Capacities
<1>5. ASSUME NEW next \in Entries, next.kind # "ids", stream[1].kind = Before(next.kind),
             next.call = stream[1].call, next.count = stream[1].count,
             next.capacity = stream[1].capacity
      PROVE  Ready(next)'
  <2>1. next.kind = "gather"
    BY <1>1, <1>5 DEF Before, Entries, Kinds, op
  <2>2. Exact(calls[next.call])' = Exact(calls[op.call])
    BY <1>1, <1>5 DEF Exact, op
  <2>3. QED
    BY <1>3, <1>5, <2>1, <2>2 DEF Ready, Holds, op
<1>6. ~busy[Callback]
  BY <1>1 DEF AInv, HeadInv, op
<1>7. /\ busy' \in [{Callback} -> BOOLEAN] /\ reply' = [t \in {Callback} |-> reply'[t]]
      /\ out' \in Seq(Outputs) /\ Len(out') = Len(calls)
  BY <1>1 DEF AInv, StateInv
<1>8. OutputsExact'
  BY <1>1 DEF AInv, OutputsExact, Exact
<1>9. QED
  BY <1>1, <1>4, <1>5, <1>6, <1>7, <1>8, ExecuteKeeps

\* And gathered into the output.
LEMMA GatherKeeps ==
  ASSUME AInv, Gather
  PROVE  AInv'
<1> DEFINE op == stream[1]
<1>1. /\ stream # << >> /\ op.kind = "gather" /\ stream' = Tail(stream)
      /\ out' = [out EXCEPT ![op.call] = SubSeq(deviceRows[op.capacity], 1, op.count)]
      /\ UNCHANGED <<up, owned, request, busy, reply, pinnedIds, pinnedRows, deviceRows, works,
                     capturing, recorded, graphs, calls>>
  BY AtHead DEF Gather, Executing, store, staging, graph
<1>2. /\ calls[op.call] \in Requests /\ op.count \in Nat /\ Len(calls[op.call]) = op.count
      /\ op.call \in 1..Len(calls)
      /\ \A p \in 1..op.count : deviceRows[op.capacity][p] = Exact(calls[op.call])[p]
  BY <1>1, AtHead DEF Ready, Holds, Fits
<1> HIDE DEF op
<1>3. SubSeq(deviceRows[op.capacity], 1, op.count) = Exact(calls[op.call])
  <2>1. /\ Exact(calls[op.call]) \in Seq({Store!Exact(owned, id) : id \in Int})
        /\ Len(Exact(calls[op.call])) = op.count
    BY <1>2, ExactRows
  <2>2. QED
    BY <1>2, <2>1, Front
<1>4. /\ out \in Seq(Outputs) /\ Len(out) = Len(calls) /\ op.call \in 1..Len(out)
      /\ Exact(calls[op.call]) \in Outputs
  BY <1>2 DEF AInv, StateInv, Outputs
<1>5. /\ out' \in Seq(Outputs) /\ Len(out') = Len(calls)
      /\ \A k \in 1..Len(out) : out'[k] = IF k = op.call THEN Exact(calls[op.call]) ELSE out[k]
  <2>1. out' = [out EXCEPT ![op.call] = Exact(calls[op.call])]
    BY <1>1, <1>3
  <2>2. /\ [out EXCEPT ![op.call] = Exact(calls[op.call])] \in Seq(Outputs)
        /\ Len([out EXCEPT ![op.call] = Exact(calls[op.call])]) = Len(out)
    BY <1>4, ExceptSeq
  <2>3. QED
    BY <1>4, <2>1, <2>2, LenProperties
<1>6. OutputsExact'
  <2>1. DOMAIN calls = 1..Len(out)
    BY <1>4, LenProperties DEF AInv, StateInv
  <2>2. \A k \in DOMAIN calls : Exact(calls[k])' = Exact(calls[k])
    BY <1>1 DEF Exact
  <2>3. QED
    BY <1>1, <1>5, <2>1, <2>2 DEF AInv, OutputsExact
<1>7. BuffersInv' /\ Capacities' = Capacities
  BY <1>1 DEF AInv, BuffersInv, Capacities
<1>8. ASSUME NEW next \in Entries, next.kind # "ids", stream[1].kind = Before(next.kind)
      PROVE  FALSE
  BY <1>1, <1>8 DEF Before, Entries, Kinds, op
<1>9. ~busy[Callback]
  BY <1>1 DEF AInv, HeadInv, op
<1>10. busy' \in [{Callback} -> BOOLEAN] /\ reply' = [t \in {Callback} |-> reply'[t]]
  BY <1>1 DEF AInv, StateInv
<1>11. QED
  BY <1>1, <1>5, <1>6, <1>7, <1>8, <1>9, <1>10, ExecuteKeeps

\* Every step keeps the invariant.
LEMMA ANext == AInv /\ [Next]_vars => AInv'
<1> SUFFICES ASSUME AInv, [Next]_vars PROVE AInv'
  OBVIOUS
<1>1. CASE \E ids \in Requests :
             Call(ids) \/ CallFails(ids) \/ \E ops \in graphs : Replay(ops, ids)
  BY <1>1, CallsKeep
<1>2. CASE BeginCapture \/ EndCapture \/ \E count \in Counts : Record(count)
  BY <1>2, CaptureKeeps
<1>3. CASE CopyIds \/ StartLookup \/ FinishLookup \/ CopyRows \/ Gather
  BY <1>3, CopyIdsKeeps, StartLookupKeeps, FinishLookupKeeps, CopyRowsKeeps, GatherKeeps
<1>4. CASE LookupAborts \/ Stopped \/ UNCHANGED vars
  <2>1. UNCHANGED <<owned, request, busy, reply, pinnedIds, pinnedRows, deviceRows, works, stream,
                    capturing, recorded, graphs, calls, out>>
    BY <1>4 DEF LookupAborts, Store!Halt, Stopped, vars, store, staging, graph
  <2>2. BuffersInv' /\ StateInv' /\ WorksInv' /\ GraphsInv' /\ StreamInv'
    BY <2>1, ExactStays DEF AInv, BuffersInv, Capacities, StateInv, WorksInv, GraphsInv, StreamInv, Fits
  <2>3. HeadInv'
    BY <2>1 DEF AInv, HeadInv, Ready, Holds, Exact
  <2>4. OutputsExact'
    BY <2>1 DEF AInv, OutputsExact, Exact
  <2>5. QED
    BY <2>2, <2>3, <2>4 DEF AInv
<1>5. QED
  BY <1>1, <1>2, <1>3, <1>4 DEF Next, Execute

\* The invariant of the adapter holds in every state (engram_backend.py:72-103).
THEOREM AdapterInvariance == Spec => []AInv
  BY AInit, ANext, PTL DEF Spec

\* The invariant implies the types.
LEMMA TypesHold == AInv => TypeOK
<1>1. SUFFICES ASSUME AInv PROVE TypeOK
  OBVIOUS
<1>2. /\ DOMAIN pinnedRows = DOMAIN pinnedIds /\ DOMAIN deviceRows = DOMAIN pinnedIds
      /\ \A c \in DOMAIN pinnedIds : DOMAIN pinnedIds[c] = 1..c
  BY <1>1 DEF AInv, BuffersInv, IsFamily, Capacities
<1>3. \A key \in DOMAIN works : works[key].capacity \in DOMAIN pinnedIds
  BY <1>1 DEF AInv, WorksInv, Capacities
<1>4. capturing \in BOOLEAN /\ Len(out) = Len(calls)
  BY <1>1 DEF AInv, StateInv
<1>5. \A i \in DOMAIN stream : stream[i].call \in DOMAIN calls
  <2>1. DOMAIN stream = 1..Len(stream) /\ DOMAIN calls = 1..Len(calls)
    BY <1>1, LenProperties DEF AInv, StateInv
  <2>2. QED
    BY <1>1, <2>1 DEF AInv, StreamInv, Fits
<1>6. QED
  BY <1>2, <1>3, <1>4, <1>5 DEF TypeOK

\* The buffers of a capacity exist together, and everything enqueued is of a
\* call that was made.
THEOREM AdapterTypes == Spec => []TypeOK
  BY TypesHold, AdapterInvariance, PTL

\* Whatever is enqueued or recorded fits the buffers it addresses and the
\* Work it will be read through, for any counts: the buffers of a rounded
\* count hold the count, and a Work never changes (engram_backend.py:77-91).
THEOREM OperationsAlwaysFit == Spec => []OperationsFit
<1> DEFINE FitsNow(op) ==
      /\ op.capacity \in DOMAIN pinnedIds /\ op.count <= op.capacity
      /\ works[op.work] = [count |-> op.count, capacity |-> op.capacity]
<1>1. AInv => OperationsFit
  <2>1. SUFFICES ASSUME AInv PROVE OperationsFit
    OBVIOUS
  <2>2. ASSUME NEW key \in DOMAIN works, NEW op, op.work = key, op.count = key,
               op.capacity = Capacity(key)
        PROVE  FitsNow(op)
    BY <2>1, <2>2, CapacityBound DEF AInv, WorksInv, Capacities
  <2>3. ASSUME NEW i \in DOMAIN stream PROVE FitsNow(stream[i])
    <3>1. i \in 1..Len(stream)
      BY <2>1, LenProperties DEF AInv, StateInv
    <3>2. Fits(stream[i])
      BY <2>1, <3>1 DEF AInv, StreamInv
    <3>3. QED
      BY <2>2, <3>2 DEF Fits
  <2>4. ASSUME NEW ops \in {recorded} \cup graphs, NEW i \in DOMAIN ops PROVE FitsNow(ops[i])
    <3>1. ops \in graphs \cup ({recorded} \ {<< >>})
      BY <2>4
    <3>2. PICK count \in DOMAIN works : ops = Operations(count)
      BY <2>1, <3>1 DEF AInv, GraphsInv
    <3>3. count \in Nat \ {0}
      BY <2>1 DEF AInv, WorksInv
    <3>4. ops[i].work = count /\ ops[i].count = count /\ ops[i].capacity = Capacity(count)
      BY <2>4, <3>2, <3>3, OperationsShape
    <3>5. QED
      BY <2>2, <3>4
  <2>5. QED
    BY <2>1, <2>3, <2>4, TypesHold DEF OperationsFit
<1>2. QED
  BY <1>1, AdapterInvariance, PTL

\* Every output is the exact rows of its call, for any table, any mix of
\* calls, captures and replays, and any interleaving with the stream
\* (engram_backend.py:73-103).
THEOREM OutputsAreExact == Spec => []OutputsExact
<1>1. AInv => OutputsExact
  BY DEF AInv
<1>2. QED
  BY <1>1, AdapterInvariance, PTL
-----------------------------------------------------------------------------
(* Outputs in order, once each: the adapter implements ExactGather         *)

\* The gathers wait on the stream in the order of the calls, no operation
\* waits behind the gather of its own call, and the calls without an output
\* are exactly those whose gather waits.
OrderInv ==
  /\ owned \in Ranges
  /\ \A i, j \in 1..Len(stream) : i < j =>
       /\ stream[i].call <= stream[j].call
       /\ stream[i].kind = "gather" => stream[i].call < stream[j].call
  /\ \A i \in 1..Len(stream) : stream[i].kind = "gather" => out[stream[i].call] = Pending
  /\ \A k \in 1..Len(calls) : out[k] = Pending =>
       \E i \in 1..Len(stream) : stream[i].kind = "gather" /\ stream[i].call = k

\* The ids of a call whose rows are on their way are in the table.
InTable(ids) == \A p \in 1..Len(ids) : ids[p] \in 0..(Rows - 1)
TableInv ==
  stream # << >> /\ stream[1].kind \in {"rows", "gather"} => InTable(calls[stream[1].call])

\* No exact output is the mark of a missing one.
LEMMA NoMark ==
  ASSUME owned \in Ranges, NEW ids \in Requests
  PROVE  Exact(ids) \notin {Pending, Raised}
  BY MarksAssumption DEF Exact

\* An operation of a call is followed by another of it, unless it is the last.
LEMMA GatherLast ==
  ASSUME NEW count \in Nat \ {0}, NEW ops \in {Operations(count), <<Operation("ids", count)>>},
         NEW i \in 1..Len(ops)
  PROVE  /\ i < Len(ops) => ops[i].kind # "gather"
         /\ ops = Operations(count) => Len(ops) \in 1..Len(ops) /\ ops[Len(ops)].kind = "gather"
         /\ ops = <<Operation("ids", count)>> => ops[i].kind = "ids"
<1>1. /\ ops \in Seq(Entries) /\ Len(ops) \in Nat /\ ops[1].kind = "ids"
      /\ \A j \in 2..Len(ops) : ops[j - 1].kind = Before(ops[j].kind)
  BY OperationsShape, LenProperties
<1>2. ASSUME i < Len(ops) PROVE ops[i].kind # "gather"
  <2>1. i + 1 \in 2..Len(ops) /\ (i + 1) - 1 = i
    BY <1>1, <1>2
  <2>2. ops[i].kind = Before(ops[i + 1].kind)
    BY <1>1, <2>1
  <2>3. QED
    BY <2>2 DEF Before
<1>3. ASSUME ops = Operations(count) PROVE Len(ops) \in 1..Len(ops) /\ ops[Len(ops)].kind = "gather"
  <2>1. Len(ops) = 4 /\ ops[4] = Operation("gather", count)
    BY <1>3 DEF Operations
  <2>2. QED
    BY <2>1 DEF Operation
<1>4. ASSUME ops = <<Operation("ids", count)>> PROVE ops[i].kind = "ids"
  BY <1>1, <1>4
<1>5. QED
  BY <1>2, <1>3, <1>4

\* What is enqueued stands behind what was there.
LEMMA EnqueuedBehind ==
  ASSUME stream \in Seq(Entries), NEW k \in Nat, NEW ops \in Seq(Entries),
         stream' = stream \o Stamped(ops, k)
  PROVE  /\ Len(stream) \in Nat /\ Len(ops) \in Nat
         /\ stream' \in Seq(Entries) /\ Len(stream') = Len(stream) + Len(ops)
         /\ \A i \in 1..Len(stream) : stream'[i] = stream[i]
         /\ \A i \in 1..Len(ops) :
              /\ stream'[Len(stream) + i].kind = ops[i].kind
              /\ stream'[Len(stream) + i].call = k
<1> DEFINE n == Len(stream)
           new == Stamped(ops, k)
<1>1. n \in Nat /\ ops \in Seq(Entries) /\ Len(ops) \in Nat /\ stream \in Seq(Entries)
  BY LenProperties
<1>2. /\ new \in Seq(Entries) /\ Len(new) = Len(ops)
      /\ \A i \in 1..Len(ops) : new[i].kind = ops[i].kind /\ new[i].call = k
  BY <1>1, Numbered
<1>3. stream' = stream \o new
  OBVIOUS
<1> HIDE DEF new
<1>4. /\ stream' \in Seq(Entries) /\ Len(stream') = n + Len(ops)
      /\ \A i \in 1..(n + Len(ops)) : stream'[i] = IF i <= n THEN stream[i] ELSE new[i - n]
  <2> DEFINE both == stream \o new
  <2>1. both \in Seq(Entries) /\ Len(both) = Len(stream) + Len(new)
    BY ONLY stream \in Seq(Entries), <1>2, ConcatProperties
  <2>2. \A i \in 1..(n + Len(ops)) : stream'[i] = IF i <= n THEN stream[i] ELSE new[i - n]
    BY <1>1, <1>2, <1>3, ConcatProperties
  <2>3. QED
    BY <1>2, <1>3, <2>1, <2>2
<1> HIDE DEF n
<1>5. ASSUME NEW i \in 1..n PROVE stream'[i] = stream[i]
  <2>1. i \in 1..(n + Len(ops)) /\ i <= n
    BY <1>1
  <2>2. QED
    BY <1>4, <2>1
<1>6. ASSUME NEW i \in 1..Len(ops) PROVE stream'[n + i].kind = ops[i].kind /\ stream'[n + i].call = k
  <2>1. n + i \in 1..(n + Len(ops)) /\ ~(n + i <= n) /\ (n + i) - n = i
    BY <1>1
  <2>2. stream'[n + i] = new[i]
    BY <1>4, <2>1
  <2>3. QED
    BY <1>2, <2>2
<1>7. QED
  BY <1>1, <1>4, <1>5, <1>6 DEF n

\* A call goes behind the earlier ones, and waits for its output if its
\* gather does.
LEMMA EnqueueOrder ==
  ASSUME AInv, OrderInv, TableInv, NEW ids \in Requests, NEW count \in Nat \ {0},
         NEW v \in {Pending, Raised}, calls' = Append(calls, ids), out' = Append(out, v),
         NEW ops, ops = IF v = Pending THEN Operations(count) ELSE <<Operation("ids", count)>>,
         Enqueue(ops, Len(calls) + 1), UNCHANGED owned
  PROVE  OrderInv' /\ TableInv'
<1> DEFINE n == Len(stream)
           k == Len(calls) + 1
<1>1. /\ calls \in Seq(Requests) /\ out \in Seq(Outputs) /\ Len(out) = Len(calls)
      /\ Len(calls) \in Nat /\ k \in Nat /\ stream \in Seq(Entries)
  BY LenProperties DEF AInv, StateInv
<1>2. /\ Len(calls') = k /\ (\A j \in 1..Len(calls) : calls'[j] = calls[j])
      /\ (\A j \in 1..Len(calls) : out'[j] = out[j]) /\ out'[k] = v
  <2>1. v \in Outputs
    BY DEF Outputs
  <2>2. QED
    BY <1>1, <2>1, AppendProperties
<1>3. ops \in {Operations(count), <<Operation("ids", count)>>}
  OBVIOUS
<1>4. /\ n \in Nat /\ Len(ops) \in Nat \ {0}
      /\ stream' \in Seq(Entries) /\ Len(stream') = n + Len(ops)
      /\ \A i \in 1..n : stream'[i] = stream[i]
      /\ \A i \in 1..Len(ops) : stream'[n + i].kind = ops[i].kind /\ stream'[n + i].call = k
  <2>1. ops \in Seq(Entries) /\ Len(ops) # 0
    <3>1. ops \in Seq(Entries) /\ ops # << >>
      BY <1>3, OperationsShape
    <3>2. QED
      BY ONLY <3>1, EmptySeq
  <2>2. stream' = stream \o Stamped(ops, k) /\ stream \in Seq(Entries) /\ k \in Nat
    BY <1>1 DEF Enqueue, Stamped
  <2> HIDE DEF k, n
  <2>3. /\ Len(stream) \in Nat /\ Len(ops) \in Nat
        /\ stream' \in Seq(Entries) /\ Len(stream') = Len(stream) + Len(ops)
        /\ \A i \in 1..Len(stream) : stream'[i] = stream[i]
        /\ \A i \in 1..Len(ops) :
             /\ stream'[Len(stream) + i].kind = ops[i].kind
             /\ stream'[Len(stream) + i].call = k
    BY ONLY <2>1, <2>2, EnqueuedBehind
  <2>4. QED
    BY <2>1, <2>3 DEF n
<1>5. \A i \in 1..n : stream[i].call \in 1..Len(calls)
  BY DEF AInv, StreamInv, Fits
<1>6. /\ \A i \in 1..Len(ops) : i < Len(ops) => ops[i].kind # "gather"
      /\ v = Pending => Len(ops) \in 1..Len(ops) /\ ops[Len(ops)].kind = "gather"
      /\ v # Pending => \A i \in 1..Len(ops) : ops[i].kind # "gather"
  <2>1. /\ \A i \in 1..Len(ops) : i < Len(ops) => ops[i].kind # "gather"
        /\ ops = Operations(count) => Len(ops) \in 1..Len(ops) /\ ops[Len(ops)].kind = "gather"
        /\ ops = <<Operation("ids", count)>> => \A i \in 1..Len(ops) : ops[i].kind = "ids"
    <3>1. 1 \in 1..Len(ops)
      BY <1>4
    <3>2. QED
      BY ONLY <1>3, <3>1, count \in Nat \ {0}, GatherLast
  <2>2. QED
    BY <2>1
<1> HIDE DEF n, k
<1>7. \A i \in 1..Len(stream') : i \in 1..n \/ (i - n \in 1..Len(ops) /\ i = n + (i - n))
  BY <1>4
<1>8. ASSUME NEW i \in 1..Len(stream'), i \notin 1..n
      PROVE  /\ i - n \in 1..Len(ops) /\ stream'[i].kind = ops[i - n].kind /\ stream'[i].call = k
  <2>1. i - n \in 1..Len(ops) /\ i = n + (i - n)
    BY <1>7, <1>8
  <2>2. stream'[n + (i - n)].kind = ops[i - n].kind /\ stream'[n + (i - n)].call = k
    BY <1>4, <2>1
  <2>3. QED
    BY <2>1, <2>2
<1>9. ASSUME NEW i \in 1..Len(stream'), NEW j \in 1..Len(stream'), i < j
      PROVE  /\ stream'[i].call <= stream'[j].call
             /\ stream'[i].kind = "gather" => stream'[i].call < stream'[j].call
  <2>1. CASE j \in 1..n
    <3>1. i \in 1..n
      BY <1>4, <1>9, <2>1
    <3>2. QED
      BY <1>4, <1>9, <2>1, <3>1 DEF OrderInv, n
  <2>2. CASE j \notin 1..n /\ i \in 1..n
    <3>1. stream'[j].call = k /\ stream'[i].call \in 1..Len(calls)
      BY <1>4, <1>5, <1>8, <2>2
    <3>2. QED
      BY <1>1, <3>1 DEF k
  <2>3. CASE j \notin 1..n /\ i \notin 1..n
    <3>1. stream'[j].call = k /\ stream'[i].call = k /\ stream'[i].kind = ops[i - n].kind
          /\ i - n \in 1..Len(ops) /\ j - n \in 1..Len(ops)
      BY <1>8, <2>3
    <3>2. i - n < Len(ops)
      BY <1>4, <1>9, <3>1
    <3>3. QED
      BY <1>1, <1>6, <3>1, <3>2
  <2>4. QED
    BY <2>1, <2>2, <2>3
<1>10. ASSUME NEW i \in 1..Len(stream'), stream'[i].kind = "gather"
       PROVE  out'[stream'[i].call] = Pending
  <2>1. CASE i \in 1..n
    <3>1. stream'[i] = stream[i] /\ stream[i].call \in 1..Len(calls)
      BY <1>4, <1>5, <2>1
    <3>2. out[stream[i].call] = Pending
      BY <1>10, <2>1, <3>1 DEF OrderInv, n
    <3>3. QED
      BY <1>2, <3>1, <3>2
  <2>2. CASE i \notin 1..n
    <3>1. i - n \in 1..Len(ops) /\ ops[i - n].kind = "gather" /\ stream'[i].call = k
      BY <1>8, <1>10, <2>2
    <3>2. QED
      BY <1>2, <1>6, <3>1
  <2>3. QED
    BY <2>1, <2>2
<1>11. ASSUME NEW j \in 1..Len(calls'), out'[j] = Pending
       PROVE  \E i \in 1..Len(stream') : stream'[i].kind = "gather" /\ stream'[i].call = j
  <2>1. CASE j \in 1..Len(calls)
    <3>1. PICK i \in 1..n : stream[i].kind = "gather" /\ stream[i].call = j
      BY <1>2, <1>11, <2>1 DEF OrderInv, n
    <3>2. i \in 1..Len(stream') /\ stream'[i] = stream[i]
      BY <1>4, <3>1
    <3>3. QED
      BY <3>1, <3>2
  <2>2. CASE j \notin 1..Len(calls)
    <3>1. j = k
      BY <1>1, <1>2, <2>2 DEF k
    <3>2. Len(ops) \in 1..Len(ops) /\ ops[Len(ops)].kind = "gather"
      BY <1>2, <1>6, <1>11, <3>1
    <3>3. n + Len(ops) \in 1..Len(stream')
      BY <1>4
    <3>4. stream'[n + Len(ops)].kind = "gather" /\ stream'[n + Len(ops)].call = k
      BY <1>4, <3>2
    <3>5. QED
      BY <3>1, <3>3, <3>4
  <2>3. QED
    BY <2>1, <2>2
<1>12. OrderInv'
  BY <1>9, <1>10, <1>11 DEF OrderInv
<1>13. TableInv'
  <2>1. CASE n = 0
    <3>1. stream'[1].kind = "ids"
      <4>1. 1 \in 1..Len(ops) /\ n + 1 = 1 /\ ops[1].kind = "ids"
        BY <1>3, <1>4, <2>1, OperationsShape
      <4>2. stream'[n + 1].kind = ops[1].kind
        BY <1>4, <4>1
      <4>3. QED
        BY <4>1, <4>2
    <3>2. QED
      BY <3>1 DEF TableInv
  <2>2. CASE n # 0
    <3>1. 1 \in 1..n /\ stream # << >>
      BY <1>4, <2>2, EmptySeq DEF n
    <3>2. stream'[1] = stream[1] /\ stream[1].call \in 1..Len(calls)
      BY <1>4, <1>5, <3>1
    <3>3. calls'[stream[1].call] = calls[stream[1].call]
      BY <1>2, <3>2
    <3>4. QED
      BY <3>1, <3>2, <3>3 DEF TableInv
  <2>3. QED
    BY <2>1, <2>2
<1>14. QED
  BY <1>12, <1>13

\* A call without ids changes nothing that waits.
LEMMA EmptyCallOrder ==
  ASSUME AInv, OrderInv, TableInv, NEW ids \in Requests, ids = << >>,
         calls' = Append(calls, ids), out' = Append(out, << >>), UNCHANGED <<owned, stream>>
  PROVE  OrderInv' /\ TableInv'
<1>1. /\ calls \in Seq(Requests) /\ out \in Seq(Outputs) /\ Len(out) = Len(calls)
      /\ Len(calls) \in Nat /\ stream \in Seq(Entries)
  BY LenProperties DEF AInv, StateInv
<1>2. Exact(ids) = << >> /\ Exact(ids) # Pending
  <2>1. Exact(ids) # Pending
    BY NoMark DEF OrderInv
  <2>2. Exact(<< >>) = << >>
    BY DEF Exact
  <2>3. QED
    BY <2>1, <2>2
<1>3. /\ Len(calls') = Len(calls) + 1 /\ (\A j \in 1..Len(calls) : calls'[j] = calls[j])
      /\ (\A j \in 1..Len(calls) : out'[j] = out[j]) /\ out'[Len(calls) + 1] = << >>
  <2>1. << >> \in Outputs
    BY <1>2 DEF Outputs
  <2>2. QED
    BY <1>1, <2>1, AppendProperties
<1>4. \A i \in 1..Len(stream) : stream[i].call \in 1..Len(calls)
  BY DEF AInv, StreamInv, Fits
<1>5. \A i \in 1..Len(stream) : stream[i].kind = "gather" => out'[stream[i].call] = Pending
  BY <1>3, <1>4 DEF OrderInv
<1>6. \A k \in 1..Len(calls') : out'[k] = Pending => k \in 1..Len(calls) /\ out[k] = Pending
  BY <1>1, <1>2, <1>3
<1>7. OrderInv'
  BY <1>5, <1>6 DEF OrderInv
<1>8. TableInv'
  <2>1. ASSUME stream # << >> PROVE calls'[stream[1].call] = calls[stream[1].call]
    <3>1. 1 \in 1..Len(stream)
      BY <1>1, <2>1, EmptySeq
    <3>2. QED
      BY <1>3, <1>4, <3>1
  <2>2. QED
    BY <2>1 DEF TableInv
<1>9. QED
  BY <1>7, <1>8

\* What a gather writes is exact.
LEMMA GatherExact ==
  ASSUME AInv, Gather
  PROVE  /\ stream # << >> /\ stream[1].kind = "gather"
         /\ out' = [out EXCEPT ![stream[1].call] = Exact(calls[stream[1].call])]
<1> DEFINE op == stream[1]
<1>1. /\ stream # << >> /\ op.kind = "gather"
      /\ out' = [out EXCEPT ![op.call] = SubSeq(deviceRows[op.capacity], 1, op.count)]
  BY AtHead DEF Gather, Executing
<1>2. /\ calls[op.call] \in Requests /\ op.count \in Nat /\ Len(calls[op.call]) = op.count
      /\ \A p \in 1..op.count : deviceRows[op.capacity][p] = Exact(calls[op.call])[p]
  BY <1>1, AtHead DEF Ready, Holds
<1> HIDE DEF op
<1>3. /\ Exact(calls[op.call]) \in Seq({Store!Exact(owned, id) : id \in Int})
      /\ Len(Exact(calls[op.call])) = op.count
  BY <1>2, ExactRows
<1>4. SubSeq(deviceRows[op.capacity], 1, op.count) = Exact(calls[op.call])
  BY <1>2, <1>3, Front
<1>5. QED
  BY <1>1, <1>4 DEF op

\* Executing an operation leaves the order of the rest; a gather writes the
\* output it has been waiting for.
LEMMA ExecuteOrder ==
  ASSUME AInv, OrderInv, stream # << >>, stream' = Tail(stream), UNCHANGED <<calls, owned>>,
         IF stream[1].kind = "gather"
         THEN out' = [out EXCEPT ![stream[1].call] = Exact(calls[stream[1].call])]
         ELSE out' = out
  PROVE  OrderInv'
<1> DEFINE op == stream[1]
<1>1. /\ stream \in Seq(Entries) /\ Len(stream) \in Nat \ {0}
      /\ calls \in Seq(Requests) /\ out \in Seq(Outputs) /\ Len(out) = Len(calls) /\ Len(calls) \in Nat
  BY EmptySeq, LenProperties DEF AInv, StateInv
<1>2. /\ stream' \in Seq(Entries) /\ Len(stream') = Len(stream) - 1
      /\ \A i \in 1..Len(stream') : stream'[i] = stream[i + 1]
  BY <1>1, HeadTailProperties
<1>3. \A i \in 1..Len(stream) : stream[i].call \in 1..Len(calls)
  BY DEF AInv, StreamInv, Fits
<1>4. op.call \in 1..Len(calls) /\ Exact(calls[op.call]) # Pending
  <2>1. op.call \in 1..Len(calls)
    BY <1>1, <1>3
  <2>2. calls[op.call] \in Requests
    BY <1>1, <2>1, ElementOfSeq
  <2>3. QED
    BY <2>1, <2>2, NoMark DEF OrderInv
<1>5. \A k \in 1..Len(calls) :
        out'[k] = IF op.kind = "gather" /\ k = op.call THEN Exact(calls[k]) ELSE out[k]
  <2>1. DOMAIN out = 1..Len(calls)
    BY <1>1, LenProperties
  <2>2. QED
    BY <1>4, <2>1
<1> HIDE DEF op
<1>6. ASSUME NEW i \in 1..Len(stream')
      PROVE  /\ i + 1 \in 1..Len(stream) /\ stream'[i] = stream[i + 1]
             /\ op.kind = "gather" => op.call < stream[i + 1].call
  <2>1. i + 1 \in 1..Len(stream) /\ 1 \in 1..Len(stream) /\ 1 < i + 1
    BY <1>1, <1>2
  <2>2. QED
    BY <1>2, <2>1 DEF OrderInv, op
<1>7. ASSUME NEW i \in 1..Len(stream'), NEW j \in 1..Len(stream'), i < j
      PROVE  /\ stream'[i].call <= stream'[j].call
             /\ stream'[i].kind = "gather" => stream'[i].call < stream'[j].call
  <2>1. i + 1 < j + 1
    BY <1>2, <1>7
  <2>2. QED
    BY <1>6, <2>1 DEF OrderInv
<1>8. ASSUME NEW i \in 1..Len(stream'), stream'[i].kind = "gather"
      PROVE  out'[stream'[i].call] = Pending
  <2>1. /\ i + 1 \in 1..Len(stream) /\ stream'[i] = stream[i + 1]
        /\ stream[i + 1].call \in 1..Len(calls)
        /\ op.kind = "gather" => stream[i + 1].call # op.call
    BY <1>3, <1>4, <1>6
  <2>2. out[stream[i + 1].call] = Pending
    BY <1>8, <2>1 DEF OrderInv
  <2>3. QED
    BY <1>5, <2>1, <2>2
<1>9. ASSUME NEW k \in 1..Len(calls), out'[k] = Pending
      PROVE  \E i \in 1..Len(stream') : stream'[i].kind = "gather" /\ stream'[i].call = k
  <2>1. out[k] = Pending /\ ~(op.kind = "gather" /\ op.call = k)
    BY <1>4, <1>5, <1>9
  <2>2. PICK i \in 1..Len(stream) : stream[i].kind = "gather" /\ stream[i].call = k
    BY <2>1 DEF OrderInv
  <2>3. i # 1
    BY <2>1, <2>2 DEF op
  <2>4. i - 1 \in 1..Len(stream') /\ (i - 1) + 1 = i
    BY <1>1, <1>2, <2>3
  <2>5. stream'[i - 1] = stream[i]
    BY <1>2, <2>4
  <2>6. QED
    BY <2>2, <2>4, <2>5
<1>10. QED
  BY <1>7, <1>8, <1>9 DEF OrderInv

\* Every step keeps the order, and looks up nothing outside the table.
LEMMA OrderNext == AInv /\ OrderInv /\ TableInv /\ [Next]_vars => OrderInv' /\ TableInv'
<1> SUFFICES ASSUME AInv, OrderInv, TableInv, [Next]_vars PROVE OrderInv' /\ TableInv'
  OBVIOUS
<1>1. ASSUME NEW ids \in Requests, Call(ids) \/ CallFails(ids) PROVE OrderInv' /\ TableInv'
  <2>1. UNCHANGED owned /\ (ids # << >> => Len(ids) \in Nat \ {0})
    BY <1>1, RequestsAssumption, EmptySeq DEF Call, CallFails, store
  <2>2. CASE Call(ids) /\ ids = << >>
    BY <2>1, <2>2, EmptyCallOrder DEF Call
  <2>3. CASE Call(ids) /\ ids # << >>
    <3>1. /\ calls' = Append(calls, ids) /\ out' = Append(out, Pending)
          /\ Enqueue(Operations(Len(ids)), Len(calls) + 1)
      BY <2>3 DEF Call
    <3>2. QED
      BY <2>1, <2>3, <3>1, EnqueueOrder
  <2>4. CASE CallFails(ids)
    <3>1. /\ ids # << >> /\ calls' = Append(calls, ids) /\ out' = Append(out, Raised)
          /\ Enqueue(<<Operation("ids", Len(ids))>>, Len(calls) + 1)
      BY <2>4 DEF CallFails
    <3>2. QED
      BY <2>1, <3>1, EnqueueOrder, MarksAssumption
  <2>5. QED
    BY <1>1, <2>2, <2>3, <2>4
<1>2. ASSUME NEW ops \in graphs, NEW ids \in Requests, Replay(ops, ids) PROVE OrderInv' /\ TableInv'
  <2>1. PICK count \in DOMAIN works : ops = Operations(count)
    BY DEF AInv, GraphsInv
  <2>2. count \in Nat \ {0}
    BY DEF AInv, WorksInv
  <2>3. /\ calls' = Append(calls, ids) /\ out' = Append(out, Pending)
        /\ Enqueue(Operations(count), Len(calls) + 1) /\ UNCHANGED owned
    BY <1>2, <2>1 DEF Replay, store
  <2>4. QED
    BY <2>2, <2>3, EnqueueOrder
<1>3. CASE UNCHANGED <<owned, stream, calls, out>>
  BY <1>3 DEF OrderInv, TableInv, InTable
<1>4. CASE BeginCapture \/ EndCapture \/ \E count \in Counts : Record(count)
  BY <1>3, <1>4 DEF BeginCapture, EndCapture, Record, store
<1>5. CASE LookupAborts \/ Stopped \/ UNCHANGED vars
  BY <1>3, <1>5 DEF LookupAborts, Store!Halt, Stopped, vars, store
<1>6. CASE StartLookup
  BY <1>3, <1>6 DEF StartLookup, Store!Begin
<1>7. CASE CopyIds \/ FinishLookup \/ CopyRows \/ Gather
  <2>1. /\ stream # << >> /\ Head(stream) = stream[1] /\ stream' = Tail(stream)
        /\ UNCHANGED <<works, calls, owned>>
    <3>1. stream # << >>
      BY <1>7 DEF CopyIds, FinishLookup, CopyRows, Gather, Executing
    <3>2. QED
      BY <1>7, <3>1, AtHead DEF CopyIds, FinishLookup, CopyRows, Gather, Store!Return, store
  <2>2. IF stream[1].kind = "gather"
        THEN out' = [out EXCEPT ![stream[1].call] = Exact(calls[stream[1].call])]
        ELSE out' = out
    <3>1. CASE CopyIds \/ FinishLookup \/ CopyRows
      BY <2>1, <3>1 DEF CopyIds, FinishLookup, CopyRows, Executing
    <3>2. CASE Gather
      BY <3>2, GatherExact DEF Gather
    <3>3. QED
      BY <1>7, <3>1, <3>2
  <2>3. OrderInv'
    BY <2>1, <2>2, ExecuteOrder
  <2>4. ASSUME stream' # << >>, stream'[1].kind \in {"rows", "gather"}
        PROVE  InTable(calls[stream'[1].call])
    <3>1. stream[1].kind = Before(stream'[1].kind) /\ stream'[1].call = stream[1].call
      BY <2>1, <2>4, Popped
    <3>2. CASE stream'[1].kind = "gather"
      BY <2>1, <3>1, <3>2 DEF Before, TableInv
    <3>3. CASE stream'[1].kind = "rows"
      <4>1. stream[1].kind = "lookup"
        BY <3>1, <3>3 DEF Before
      <4>2. FinishLookup
        BY <1>7, <2>1, <4>1 DEF CopyIds, CopyRows, Gather, Executing
      <4>3. /\ busy[Callback]
            /\ \A p \in 1..Len(request[Callback]) : request[Callback][p] \in 0..(Rows - 1)
        BY <4>2 DEF FinishLookup, Store!Return
      <4>4. request[Callback] = calls[stream[1].call]
        BY <4>3 DEF AInv, HeadInv
      <4>5. QED
        BY <3>1, <4>3, <4>4 DEF InTable
    <3>4. QED
      BY <2>4, <3>2, <3>3
  <2>5. TableInv'
    BY <2>1, <2>4 DEF TableInv, InTable
  <2>6. QED
    BY <2>3, <2>5
<1>8. QED
  BY <1>1, <1>2, <1>4, <1>5, <1>6, <1>7 DEF Next, Execute

\* The order of the outputs, in every state.
THEOREM OrderInvariance == Spec => [](OrderInv /\ TableInv)
<1>1. Init => OrderInv /\ TableInv
  <2> SUFFICES ASSUME Init PROVE OrderInv /\ TableInv
    OBVIOUS
  <2>1. Len(stream) = 0 /\ Len(calls) = 0
    BY EmptySeq DEF Init
  <2>2. QED
    BY <2>1 DEF Init, OrderInv, TableInv
<1>2. QED
  BY <1>1, OrderNext, AdapterInvariance, PTL DEF Spec

-----------------------------------------------------------------------------
(* The abstract specifications: ExactGather, which the adapter implements, *)
(* and ExactLookup, which it uses                                          *)

\* The two ways of saying which rows are exact.
LEMMA SameExact == \A ids : Gathers!Exact(ids) = Exact(ids)
  BY DEF Gathers!Exact, Exact, Store!Exact, Store!ZeroRow

\* A call or a replay asks for rows.
LEMMA CallsAsk ==
  ASSUME AInv, NEW ids \in Requests,
         \/ Call(ids) \/ CallFails(ids)
         \/ \E ops \in graphs : Replay(ops, ids)
  PROVE  Gathers!Next
<1>1. Gathers!Ask(ids)
  <2>1. CASE Call(ids)
    <3>1. up /\ calls' = Append(calls, ids) /\ UNCHANGED <<up, owned>>
      BY <2>1 DEF Call, store
    <3>2. \E first \in IF ids = << >> THEN {<< >>} ELSE {Pending, Raised} : out' = Append(out, first)
      BY <2>1 DEF Call
    <3>3. QED
      BY <3>1, <3>2 DEF Gathers!Ask
  <2>2. CASE CallFails(ids)
    BY <2>2 DEF CallFails, Gathers!Ask, store
  <2>3. ASSUME NEW ops \in graphs, Replay(ops, ids) PROVE Gathers!Ask(ids)
    <3>1. PICK count \in DOMAIN works : ops = Operations(count)
      BY DEF AInv, GraphsInv
    <3>2. count \in Nat \ {0} /\ Head(ops).count = count
      BY <3>1 DEF AInv, WorksInv, Operations, Operation
    <3>3. ids # << >>
      <4>1. Len(ids) # 0
        BY <2>3, <3>2 DEF Replay
      <4>2. QED
        BY <4>1
    <3>4. QED
      BY <2>3, <3>3 DEF Replay, Gathers!Ask, store
  <2>4. QED
    BY <2>1, <2>2, <2>3
<1>2. QED
  BY <1>1 DEF Gathers!Next

\* A gather answers the first call without an output.
LEMMA GatherAnswers ==
  ASSUME AInv, OrderInv, TableInv, Gather
  PROVE  Gathers!Next
<1> DEFINE k == stream[1].call
<1>1. /\ stream # << >> /\ stream[1].kind = "gather"
      /\ out' = [out EXCEPT ![k] = Exact(calls[k])]
  BY GatherExact
<1>2. up /\ UNCHANGED <<up, owned, calls>>
  BY DEF Gather, Executing, store
<1>3. /\ Len(stream) \in Nat \ {0} /\ Len(calls) \in Nat
      /\ DOMAIN calls = 1..Len(calls)
  BY <1>1, EmptySeq, LenProperties DEF AInv, StateInv
<1>4. 1 \in 1..Len(stream) /\ k \in 1..Len(calls)
  <2>1. 1 \in 1..Len(stream)
    BY <1>3
  <2>2. QED
    BY <2>1 DEF AInv, StreamInv, Fits
<1>5. out[k] = Pending
  BY <1>1, <1>4 DEF OrderInv
<1>6. ASSUME NEW j \in 1..(k - 1) PROVE out[j] # Pending
  <2>1. SUFFICES ASSUME out[j] = Pending PROVE FALSE
    OBVIOUS
  <2>2. j \in 1..Len(calls) /\ j < k
    BY <1>3, <1>4
  <2>3. PICK i \in 1..Len(stream) : stream[i].call = j
    BY <2>1, <2>2 DEF OrderInv
  <2>4. i = 1 \/ 1 < i
    BY <1>3
  <2>5. CASE i = 1
    BY <2>2, <2>3, <2>5
  <2>6. CASE 1 < i
    <3>1. stream[1].call <= stream[i].call
      BY <1>4, <2>6 DEF OrderInv
    <3>2. k <= j
      BY <2>3, <3>1
    <3>3. QED
      BY <1>4, <2>2, <3>2
  <2>7. QED
    BY <2>4, <2>5, <2>6
<1>7. \A p \in DOMAIN calls[k] : calls[k][p] \in 0..(Rows - 1)
  <2>1. calls[k] \in Seq(Int)
    <3>1. calls[k] \in Requests
      BY <1>4, ElementOfSeq DEF AInv, StateInv
    <3>2. QED
      BY <3>1, RequestsAssumption
  <2>2. InTable(calls[k])
    BY <1>1 DEF TableInv
  <2>3. QED
    BY <2>1, <2>2, LenProperties DEF InTable
<1>8. out' = [out EXCEPT ![k] = Gathers!Exact(calls[k])]
  BY <1>1, SameExact
<1> HIDE DEF k
<1>9. Gathers!Answer(k)
  BY <1>2, <1>5, <1>6, <1>7, <1>8 DEF Gathers!Answer
<1>10. QED
  BY <1>3, <1>4, <1>9 DEF Gathers!Next

\* Every step of the adapter is a step of ExactGather, or changes nothing it
\* speaks of.
LEMMA GatherStep ==
  ASSUME AInv, OrderInv, TableInv, [Next]_vars
  PROVE  [Gathers!Next]_(Gathers!vars)
<1>1. ASSUME NEW ids \in Requests,
             \/ Call(ids) \/ CallFails(ids)
             \/ \E ops \in graphs : Replay(ops, ids)
      PROVE  Gathers!Next
  BY <1>1, CallsAsk
<1>2. CASE Gather
  BY <1>2, GatherAnswers
<1>3. CASE LookupAborts
  BY <1>3 DEF LookupAborts, Store!Halt, Gathers!Next, Gathers!Halt
<1>4. CASE BeginCapture \/ EndCapture \/ \E count \in Counts : Record(count)
  BY <1>4 DEF BeginCapture, EndCapture, Record, store, Gathers!vars
<1>5. CASE StartLookup
  BY <1>5 DEF StartLookup, Store!Begin, Gathers!vars
<1>6. CASE FinishLookup
  BY <1>6 DEF FinishLookup, Store!Return, Gathers!vars
<1>7. CASE CopyIds \/ CopyRows
  BY <1>7 DEF CopyIds, CopyRows, store, Gathers!vars
<1>8. CASE Stopped \/ UNCHANGED vars
  BY <1>8 DEF Stopped, vars, store, Gathers!vars
<1>9. QED
  BY <1>1, <1>2, <1>3, <1>4, <1>5, <1>6, <1>7, <1>8 DEF Next, Execute

\* The adapter implements ExactGather: whatever is captured, replayed or
\* refused, outputs come in the order of the calls, each once and exact, and
\* stay; a call with an id outside the table, or after it, gets none
\* (engram_backend.py:72-103).
THEOREM GatherRefinement == Spec => ImplementsExactGather
<1>1. Init => Gathers!Init
  BY DEF Init, Gathers!Init
<1>2. AInv /\ OrderInv /\ TableInv /\ [Next]_vars => [Gathers!Next]_(Gathers!vars)
  BY GatherStep
<1>3. QED
  BY <1>1, <1>2, AdapterInvariance, OrderInvariance, PTL DEF Spec, ImplementsExactGather, Gathers!Spec

\* A lookup starts with the ids of the call it is for.
LEMMA LookupReads ==
  ASSUME AInv, StartLookup
  PROVE  \E work \in Requests : Store!Begin(Callback, work)
<1> DEFINE op == stream[1]
<1>1. /\ stream # << >> /\ op.kind = "lookup" /\ Head(stream) = op
      /\ works[op.work].capacity = op.capacity /\ works[op.work].count = op.count
  BY AtHead DEF StartLookup, Executing
<1>2. /\ calls[op.call] \in Requests /\ op.count \in Nat /\ Len(calls[op.call]) = op.count
      /\ \A p \in 1..op.count : pinnedIds[op.capacity][p] = calls[op.call][p]
  BY <1>1, AtHead DEF Ready, Holds
<1>3. SubSeq(pinnedIds[op.capacity], 1, op.count) = calls[op.call]
  <2>1. calls[op.call] \in Seq(Int)
    BY <1>2, RequestsAssumption
  <2>2. QED
    BY <1>2, <2>1, Front
<1>4. Store!Begin(Callback, SubSeq(pinnedIds[op.capacity], 1, op.count))
  BY <1>1 DEF StartLookup
<1>5. QED
  BY <1>2, <1>3, <1>4

\* The callback uses the store only as ExactLookup lets its callers: with the
\* ids of a request, and one lookup at a time (engram_backend.py:94-97).
THEOREM StoreUsed == Spec => [][Store!Next]_(Store!vars)
<1>1. ASSUME AInv, [Next]_vars PROVE [Store!Next]_(Store!vars)
  <2>1. CASE StartLookup
    <3>1. PICK work \in Requests : Store!Begin(Callback, work)
      BY <1>1, <2>1, LookupReads
    <3>2. QED
      BY <3>1 DEF Store!Next
  <2>2. CASE FinishLookup
    BY <2>2 DEF FinishLookup, Store!Next
  <2>3. CASE LookupAborts
    BY <2>3 DEF LookupAborts, Store!Next
  <2>4. CASE \E ids \in Requests :
               Call(ids) \/ CallFails(ids) \/ \E ops \in graphs : Replay(ops, ids)
    BY <2>4 DEF Call, CallFails, Replay, store, Store!vars
  <2>5. CASE BeginCapture \/ EndCapture \/ \E count \in Counts : Record(count)
    BY <2>5 DEF BeginCapture, EndCapture, Record, store, Store!vars
  <2>6. CASE CopyIds \/ CopyRows \/ Gather
    BY <2>6 DEF CopyIds, CopyRows, Gather, store, Store!vars
  <2>7. CASE Stopped \/ UNCHANGED vars
    BY <2>7 DEF Stopped, vars, store, Store!vars
  <2>8. QED
    BY <1>1, <2>1, <2>2, <2>3, <2>4, <2>5, <2>6, <2>7 DEF Next, Execute
<1>2. QED
  BY <1>1, AdapterInvariance, PTL DEF Spec
=============================================================================
