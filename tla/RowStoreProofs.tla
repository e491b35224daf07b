-------------------------- MODULE RowStoreProofs --------------------------
(***************************************************************************)
(* Proofs about RowStore, for any number of threads, rows, slots and locks *)
(* and any requests: the inductive invariant IInv, what follows from it,   *)
(* and that RowStore implements ExactLookup.  One lemma per conjunct of    *)
(* IInv shows that a step of a thread keeps it; StepFrame and CacheFrame   *)
(* say what such a step leaves alone.  The counters are about how many     *)
(* threads are where, so they have an invariant of their own, CountInv.    *)
(* The last part is about DirectRead.                                      *)
(***************************************************************************)
EXTENDS RowStore, DirectRead, FiniteSetTheorems, SequenceTheorems, TLAPS

\* The steps at which a thread is working on an owned row.
Active == Steps \ {"idle", "loop"}

\* The loop index is inside the request, and a row is only handled when it
\* exists and is this rank's.
PositionInv ==
  \A t \in Threads :
    /\ next[t] <= Len(ids[t]) + 1 /\ Len(out[t]) = Len(ids[t])
    /\ pc[t] \in Active =>
         next[t] <= Len(ids[t]) /\ Id(t) \in RowIds /\ Owned(Id(t))

\* A thread between lock and unlock holds the lock of its row's slot.
LockInv == \A t \in Threads : pc[t] \in Holding => locks[LockOf(Id(t))] = t

\* What the local row, and the slot being copied or filled, hold at each step.
RowInv ==
  \A t \in Threads :
    /\ pc[t] \in {"copyW", "copyS"} =>
         slots > 0 /\ keys[SlotOf(Id(t))] = KeyOf(Id(t))
    /\ pc[t] \in {"fillW", "fillS", "key"} => slots > 0
    /\ pc[t] \in {"copyS", "readS"} => row[t]["w"] = Table[Id(t)]["w"]
    /\ pc[t] \in {"hit", "miss", "fillW", "fillS", "key", "unlock", "emit"} =>
         row[t] = Table[Id(t)]
    /\ pc[t] = "fillS" => cache[SlotOf(Id(t))]["w"] = Table[Id(t)]["w"]
    /\ pc[t] = "key" => cache[SlotOf(Id(t))] = Table[Id(t)]

\* Before the first lookup the cache is empty, so the owned range may change.
FreshInv ==
  /\ status = "unopened" => calls = 0
  /\ calls = 0 => /\ \A t \in Threads : pc[t] = "idle" /\ next[t] = 1
                  /\ \A k \in 0..(slots - 1) : keys[k] = 0

\* A lookup only gets past an id that is in the table.
PassedInv == \A t \in Threads : \A p \in 1..(next[t] - 1) : ids[t][p] \in RowIds

IInv ==
  /\ TypeOK /\ PositionInv /\ LockInv /\ RowInv /\ FreshInv
  /\ PassedInv /\ CacheExact /\ OutputExact

-----------------------------------------------------------------------------
(* Lemmas about slots, rows and outputs                                    *)

\* Slots and stripes are in range.
LEMMA SlotType ==
  ASSUME slots \in Nat, slots > 0, NEW id \in RowIds
  PROVE  SlotOf(id) \in 0..(slots - 1)
  BY RowsAssumption DEF RowIds, SlotOf

\* So are the stripes the ids are locked by.
LEMMA StripeType ==
  ASSUME slots \in Nat, NEW id \in RowIds
  PROVE  LockOf(id) \in 0..(NumLocks - 1)
<1>1. SlotOf(id) \in Nat
  BY RowsAssumption, SlotType DEF RowIds, SlotOf
<1>2. QED
  BY <1>1, LocksAssumption DEF LockOf

\* Writing one block of a row, or one row of an output, keeps its type.
LEMMA WriteBlock ==
  ASSUME NEW S, NEW f \in [S -> Row], NEW x \in S, NEW b \in Blocks, NEW c \in Fields
  PROVE  [f EXCEPT ![x][c] = b] \in [S -> Row]
<1>1. [f[x] EXCEPT ![c] = b] \in Row
  BY DEF Row
<1>2. QED
  BY <1>1

\* So does writing one row of an output.
LEMMA WriteOut ==
  ASSUME NEW f \in [Threads -> Seq(Row)], NEW t \in Threads, NEW r \in Row,
         NEW i \in 1..Len(f[t])
  PROVE  /\ [f EXCEPT ![t][i] = r] \in [Threads -> Seq(Row)]
         /\ Len([f EXCEPT ![t][i] = r][t]) = Len(f[t])
<1>1. [f[t] EXCEPT ![i] = r] \in Seq(Row) /\ Len([f[t] EXCEPT ![i] = r]) = Len(f[t])
  BY ExceptSeq
<1>2. QED
  BY <1>1

\* The blocks a thread reads have the type of blocks.
LEMMA BlockTypes ==
  ASSUME TypeOK, PositionInv, NEW t \in Threads, pc[t] \in Active, NEW f \in Fields
  PROVE  /\ Table[Id(t)][f] \in Blocks
         /\ row[t][f] \in Blocks
         /\ slots > 0 => cache[SlotOf(Id(t))][f] \in Blocks
  BY SlotType, TableAssumption DEF TypeOK, PositionInv, Row

\* The row of zeroes is a row.
LEMMA ZeroRowType == ZeroRow \in Row
  BY TableAssumption DEF ZeroRow, Row

\* A step of a thread keeps every variable in its type.
LEMMA TypeStep ==
  ASSUME IInv, NEW t \in Threads, Step(t)
  PROVE  TypeOK'
<1> USE DEF IInv, TypeOK, Goto, Steps, config, counters, observer
<1>1. CASE Return(t)
  BY <1>1 DEF Return
<1>2. CASE Reject(t) \/ ReadFails(t)
  BY <1>2 DEF Reject, ReadFails, Halt, afterStatus
<1>3. CASE Foreign(t)
  <2>1. AtId(t) /\ Deliver(t, "loop", ZeroRow) /\ UNCHANGED served
    BY <1>3 DEF Foreign
  <2>2. next[t] \in 1..Len(out[t])
    BY <2>1 DEF AtId, PositionInv
  <2>3. out' \in [Threads -> Seq(Row)]
    BY <2>1, <2>2, ZeroRowType, WriteOut DEF Deliver
  <2>4. /\ next' = [next EXCEPT ![t] = @ + 1] /\ pc' = [pc EXCEPT ![t] = "loop"]
        /\ UNCHANGED <<cache, keys, locks, hits, misses, reads, row, served>>
    BY <1>3, <2>1 DEF Foreign, Deliver
  <2>5. next' \in [Threads -> Nat \ {0}] /\ pc' \in [Threads -> Steps]
    BY <2>4
  <2>6. QED
    BY <1>3, <2>3, <2>4, <2>5 DEF Foreign, Deliver
<1>4. CASE Lock(t)
  BY <1>4, StripeType DEF Lock, AtId
<1>5. CASE Probe(t)
  BY <1>5 DEF Probe
<1>6. CASE Copy(t, "w", "copyW", "copyS")
  BY <1>6, BlockTypes, WriteBlock DEF Copy, RowInv, Active, Fields
<1>7. CASE Copy(t, "s", "copyS", "hit")
  BY <1>7, BlockTypes, WriteBlock DEF Copy, RowInv, Active, Fields
<1>8. CASE CountHit(t)
  BY <1>8 DEF CountHit
<1>9. CASE CountMiss(t)
  <2>1. pc' \in [Threads -> Steps] /\ misses' \in Nat
    BY <1>9 DEF CountMiss
  <2>2. QED
    BY <1>9, <2>1 DEF CountMiss
<1>10. CASE Read(t, "w", "readW", "readS") \/ Read(t, "s", "readS", "miss")
  <2>1. PICK f \in Fields : row' = [row EXCEPT ![t][f] = Table[Id(t)][f]]
    BY <1>10 DEF Read, Fields
  <2>2. pc[t] \in Active
    BY <1>10 DEF Read, Active
  <2>3. row' \in [Threads -> Row]
    <3>1. Table[Id(t)][f] \in Blocks /\ row \in [Threads -> Row]
      BY <2>2, BlockTypes
    <3>2. QED
      BY ONLY <2>1, <3>1, t \in Threads, f \in Fields, WriteBlock
  <2>4. reads' \in Nat
    <3>1. reads \in Nat /\ (reads' = reads \/ reads' = reads + 1)
      BY <1>10 DEF Read
    <3>2. QED
      BY ONLY <3>1
  <2>5. QED
    BY <1>10, <2>3, <2>4 DEF Read
<1>11. CASE Fill(t, "w", "fillW", "fillS")
  BY <1>11, BlockTypes, WriteBlock, SlotType DEF Fill, Active, Fields, RowInv, PositionInv
<1>12. CASE Fill(t, "s", "fillS", "key")
  BY <1>12, BlockTypes, WriteBlock, SlotType DEF Fill, Active, Fields, RowInv, PositionInv
<1>13. CASE SetKey(t)
  <2>1. pc[t] = "key" /\ slots > 0 /\ Id(t) \in RowIds
    BY <1>13 DEF SetKey, RowInv, PositionInv, Active
  <2>2. KeyOf(Id(t)) \in 0..Rows
    BY <2>1, RowsAssumption DEF RowIds, KeyOf
  <2>3. QED
    BY <1>13, <2>1, <2>2, SlotType DEF SetKey
<1>14. CASE Unlock(t)
  BY <1>14, StripeType DEF Unlock, PositionInv, Active
<1>15. CASE Emit(t)
  <2>1. pc[t] = "emit" /\ Deliver(t, "emit", row[t]) /\ served' = served + 1
    BY <1>15 DEF Emit, Deliver
  <2>2. next[t] \in 1..Len(out[t])
    <3>1. next[t] <= Len(ids[t]) /\ Len(out[t]) = Len(ids[t])
      BY <2>1 DEF PositionInv, Active
    <3>2. QED
      BY <3>1
  <2>3. out' \in [Threads -> Seq(Row)]
    BY <2>1, <2>2, WriteOut DEF Deliver
  <2>4. QED
    BY <2>1, <2>3 DEF Deliver
<1>16. QED
  BY <1>1, <1>2, <1>3, <1>4, <1>5, <1>6, <1>7, <1>8, <1>9, <1>10, <1>11, <1>12,
     <1>13, <1>14, <1>15 DEF Step

\* A step of a thread keeps the loop index where it belongs.
LEMMA PositionStep ==
  ASSUME IInv, NEW t \in Threads, Step(t)
  PROVE  PositionInv'
<1> USE DEF IInv, TypeOK, PositionInv, Goto, Steps, Active, config, counters, observer, Owned, Id
<1>1. CASE Return(t)
  BY <1>1 DEF Return
<1>2. CASE Reject(t) \/ ReadFails(t)
  <2>1. UNCHANGED <<slots, rowLo, rowHi, pc, ids, next, out>>
    BY ONLY <1>2 DEF Reject, ReadFails, Halt, afterStatus, config
  <2>2. PositionInv
    OBVIOUS
  <2>3. QED
    BY ONLY <2>1, <2>2 DEF PositionInv, Owned, Id, Active
<1>3. CASE Foreign(t)
  <2>1. next[t] \in 1..Len(out[t]) /\ out \in [Threads -> Seq(Row)]
    BY <1>3 DEF Foreign, AtId
  <2>2. /\ out' = [out EXCEPT ![t][next[t]] = ZeroRow]
        /\ next' = [next EXCEPT ![t] = next[t] + 1] /\ pc' = [pc EXCEPT ![t] = "loop"]
        /\ UNCHANGED <<rowLo, rowHi, ids>>
    BY <1>3 DEF Foreign, Deliver
  <2>3. Len(out'[t]) = Len(out[t])
    BY ONLY <2>1, <2>2, t \in Threads, ZeroRowType, WriteOut
  <2>4. ASSUME NEW u \in Threads \ {t}
        PROVE  pc'[u] = pc[u] /\ next'[u] = next[u] /\ ids'[u] = ids[u] /\ out'[u] = out[u]
    BY <2>2
  <2>5. next'[t] = next[t] + 1 /\ pc'[t] = "loop" /\ ids'[t] = ids[t] /\ next[t] <= Len(ids[t])
    BY <1>3, <2>2 DEF Foreign, AtId
  <2>6. PositionInv /\ Len(ids[t]) \in Nat /\ next[t] \in Nat
    OBVIOUS
  <2>7. QED
    BY ONLY <2>2, <2>3, <2>4, <2>5, <2>6, t \in Threads DEF PositionInv, Active, Owned, Id, Steps
<1>4. CASE Lock(t)
  BY <1>4 DEF Lock, AtId
<1>5. CASE Probe(t)
  BY <1>5 DEF Probe
<1>6. ASSUME pc[t] \in Active, NEW to \in Steps, pc' = [pc EXCEPT ![t] = to],
             UNCHANGED <<config, ids, next, out>>
      PROVE  PositionInv'
  BY <1>6
<1>7. CASE \/ Copy(t, "w", "copyW", "copyS") \/ Copy(t, "s", "copyS", "hit")
           \/ CountHit(t)
  BY <1>6, <1>7 DEF Copy, CountHit
<1>8. CASE Read(t, "w", "readW", "readS") \/ Read(t, "s", "readS", "miss")
  BY <1>6, <1>8 DEF Read
<1>9. CASE CountMiss(t)
  BY <1>6, <1>9 DEF CountMiss
<1>10. CASE Fill(t, "w", "fillW", "fillS") \/ Fill(t, "s", "fillS", "key")
  BY <1>6, <1>10 DEF Fill
<1>11. CASE SetKey(t) \/ Unlock(t)
  BY <1>6, <1>11 DEF SetKey, Unlock
<1>12. CASE Emit(t)
  BY <1>12, WriteOut DEF Emit, Deliver
<1>13. QED
  BY <1>1, <1>2, <1>3, <1>4, <1>5, <1>7, <1>8, <1>9, <1>10, <1>11, <1>12 DEF Step

\* What every step of thread t leaves alone.
LEMMA StepFrame ==
  ASSUME IInv, NEW t \in Threads, Step(t)
  PROVE  /\ UNCHANGED <<mode, slots, rowLo, rowHi, ids, calls>>
         /\ \A u \in Threads \ {t} :
              pc'[u] = pc[u] /\ next'[u] = next[u] /\ row'[u] = row[u] /\ out'[u] = out[u]
<1> USE DEF IInv, TypeOK, Goto, config
<1>1. CASE Return(t) \/ Lock(t) \/ Probe(t) \/ CountHit(t)
  BY <1>1 DEF Return, Lock, Probe, CountHit
<1>2. CASE Reject(t) \/ ReadFails(t)
  BY <1>2 DEF Reject, ReadFails, Halt, afterStatus
<1>3. CASE Foreign(t) \/ Emit(t)
  BY <1>3 DEF Foreign, Emit, Deliver
<1>4. CASE Copy(t, "w", "copyW", "copyS") \/ Copy(t, "s", "copyS", "hit")
  BY <1>4 DEF Copy
<1>5. CASE Read(t, "w", "readW", "readS") \/ Read(t, "s", "readS", "miss")
  BY <1>5 DEF Read
<1>6. CASE CountMiss(t)
  BY <1>6 DEF CountMiss
<1>7. CASE Fill(t, "w", "fillW", "fillS") \/ Fill(t, "s", "fillS", "key")
  BY <1>7 DEF Fill
<1>8. CASE SetKey(t) \/ Unlock(t)
  BY <1>8 DEF SetKey, Unlock
<1>9. QED
  BY <1>1, <1>2, <1>3, <1>4, <1>5, <1>6, <1>7, <1>8 DEF Step

\* Threads inside the critical section are on different slots.
LEMMA Exclusive == IInv => SlotExclusive
  BY DEF IInv, LockInv, SlotExclusive, LockOf

\* A step of a thread keeps every lock with its holder.
LEMMA LockStep ==
  ASSUME IInv, NEW t \in Threads, Step(t)
  PROVE  LockInv'
<1> DEFINE L(u) == LockOf(Id(u))
<1>1. \A u \in Threads : pc[u] \in Holding => locks[L(u)] = u
  BY DEF IInv, LockInv
<1>2. \A u \in Threads \ {t} : pc'[u] = pc[u] /\ L(u)' = L(u)
  BY StepFrame DEF LockOf, SlotOf, Id
<1>3. \A u \in Threads : pc[u] \in Holding => L(u) \in 0..(NumLocks - 1)
  BY StripeType DEF IInv, TypeOK, PositionInv, Active, Holding
<1>4. next' = next => L(t)' = L(t)
  BY StepFrame DEF LockOf, SlotOf, Id
<1> HIDE DEF L
<1> SUFFICES \A u \in Threads : pc'[u] \in Holding => locks'[L(u)'] = u
  BY DEF LockInv, L
<1> USE DEF Holding, Steps
<1>5. ASSUME locks' = locks, pc'[t] \notin Holding \/ (pc[t] \in Holding /\ next' = next)
      PROVE  \A u \in Threads : pc'[u] \in Holding => locks'[L(u)'] = u
  BY <1>1, <1>2, <1>4, <1>5
<1>6. CASE Return(t) \/ Foreign(t) \/ Emit(t)
  BY <1>5, <1>6 DEF Return, Foreign, Emit, Deliver, Goto, IInv, TypeOK
<1>7. CASE Reject(t) \/ ReadFails(t)
  BY <1>1, <1>2, <1>4, <1>7 DEF Reject, ReadFails, Halt, afterStatus
<1>8. CASE Lock(t)
  <2>1. locks[L(t)] = NoThread /\ locks' = [locks EXCEPT ![L(t)] = t] /\ next' = next
    BY <1>8 DEF Lock, L
  <2>2. L(t) \in 0..(NumLocks - 1)
    BY <1>8, StripeType DEF Lock, L, AtId, IInv, TypeOK
  <2>3. \A u \in Threads \ {t} : pc[u] \in Holding => L(u) # L(t)
    BY <1>1, <2>1, LocksAssumption
  <2>4. ASSUME NEW u \in Threads \ {t}, pc'[u] \in Holding PROVE locks'[L(u)'] = u
    <3>1. pc[u] \in Holding /\ L(u)' = L(u) /\ L(u) \in 0..(NumLocks - 1)
      BY <1>2, <1>3, <2>4
    <3>2. QED
      BY <1>1, <2>1, <2>3, <3>1 DEF IInv, TypeOK
  <2>5. locks'[L(t)'] = t
    BY <1>4, <2>1, <2>2 DEF IInv, TypeOK
  <2>6. QED
    BY <2>4, <2>5
<1>9. CASE \/ Probe(t) \/ CountHit(t) \/ SetKey(t)
  BY <1>5, <1>9 DEF Probe, CountHit, SetKey, Goto
<1>10. CASE Copy(t, "w", "copyW", "copyS") \/ Copy(t, "s", "copyS", "hit")
  BY <1>5, <1>10 DEF Copy, Goto
<1>11. CASE Read(t, "w", "readW", "readS") \/ Read(t, "s", "readS", "miss")
  BY <1>5, <1>11 DEF Read, Goto
<1>12. CASE CountMiss(t)
  BY <1>5, <1>12 DEF CountMiss, Goto
<1>13. CASE Fill(t, "w", "fillW", "fillS") \/ Fill(t, "s", "fillS", "key")
  BY <1>5, <1>13 DEF Fill, Goto
<1>14. CASE Unlock(t)
  <2>1. locks' = [locks EXCEPT ![L(t)] = NoThread] /\ pc[t] \in Holding /\ pc'[t] \notin Holding
    BY <1>14 DEF Unlock, Goto, L, IInv, TypeOK
  <2>2. \A u \in Threads \ {t} : pc[u] \in Holding => L(u) # L(t)
    BY <1>1, <2>1
  <2>3. ASSUME NEW u \in Threads \ {t}, pc'[u] \in Holding PROVE locks'[L(u)'] = u
    <3>1. pc[u] \in Holding /\ L(u)' = L(u) /\ L(u) \in 0..(NumLocks - 1)
      BY <1>2, <1>3, <2>3
    <3>2. QED
      BY <1>1, <2>1, <2>2, <3>1 DEF IInv, TypeOK
  <2>4. QED
    BY <2>1, <2>3
<1>15. QED
  BY <1>6, <1>7, <1>8, <1>9, <1>10, <1>11, <1>12, <1>13, <1>14 DEF Step

\* Only a thread that fills a slot changes the cache, and only that slot.
LEMMA CacheFrame ==
  ASSUME IInv, NEW t \in Threads, Step(t)
  PROVE  \/ UNCHANGED <<cache, keys>>
         \/ /\ pc[t] \in {"fillW", "fillS", "key"}
            /\ \A k \in 0..(slots - 1) : k # SlotOf(Id(t)) =>
                 cache'[k] = cache[k] /\ keys'[k] = keys[k]
<1> USE DEF IInv, TypeOK, Goto
<1>1. CASE Return(t) \/ Lock(t) \/ Probe(t) \/ CountHit(t) \/ CountMiss(t) \/ Unlock(t)
  BY <1>1 DEF Return, Lock, Probe, CountHit, CountMiss, Unlock
<1>2. CASE Reject(t) \/ ReadFails(t)
  BY <1>2 DEF Reject, ReadFails, Halt, afterStatus
<1>3. CASE Foreign(t) \/ Emit(t)
  BY <1>3 DEF Foreign, Emit, Deliver
<1>4. CASE Copy(t, "w", "copyW", "copyS") \/ Copy(t, "s", "copyS", "hit")
  BY <1>4 DEF Copy
<1>5. CASE Read(t, "w", "readW", "readS") \/ Read(t, "s", "readS", "miss")
  BY <1>5 DEF Read
<1>6. CASE Fill(t, "w", "fillW", "fillS") \/ Fill(t, "s", "fillS", "key")
  BY <1>6 DEF Fill
<1>7. CASE SetKey(t)
  BY <1>7 DEF SetKey
<1>8. QED
  BY <1>1, <1>2, <1>3, <1>4, <1>5, <1>6, <1>7 DEF Step

\* A hit finds the exact row in its slot.
LEMMA HitExact ==
  ASSUME IInv, NEW t \in Threads, pc[t] \in {"copyW", "copyS"}
  PROVE  cache[SlotOf(Id(t))] = Table[Id(t)]
<1> DEFINE k == SlotOf(Id(t))
<1>1. Id(t) \in RowIds /\ slots > 0 /\ keys[k] = KeyOf(Id(t))
  BY DEF IInv, PositionInv, RowInv, Active, Steps
<1>2. k \in 0..(slots - 1)
  BY <1>1, SlotType DEF IInv, TypeOK
<1>3. keys[k] # 0
  BY <1>1, RowsAssumption DEF KeyOf, RowIds
<1>4. PICK id \in RowIds :
        /\ KeyOf(id) = keys[k]
        /\ (\A u \in Threads : ~Filling(u, k)) => cache[k] = Table[id]
  BY <1>2, <1>3 DEF IInv, CacheExact, SlotExact
<1>5. id = Id(t)
  BY <1>1, <1>4, RowsAssumption DEF KeyOf, RowIds
<1>6. \A u \in Threads : ~Filling(u, k)
  BY Exclusive DEF SlotExclusive, Filling, Holding, Steps
<1>7. QED
  BY <1>4, <1>5, <1>6

\* A step of a thread keeps the local rows, its own and the others', exact.
LEMMA RowStep ==
  ASSUME IInv, NEW t \in Threads, Step(t)
  PROVE  RowInv'
<1> DEFINE
      RowOk(u) ==
        /\ pc[u] \in {"copyW", "copyS"} =>
             slots > 0 /\ keys[SlotOf(Id(u))] = KeyOf(Id(u))
        /\ pc[u] \in {"fillW", "fillS", "key"} => slots > 0
        /\ pc[u] \in {"copyS", "readS"} => row[u]["w"] = Table[Id(u)]["w"]
        /\ pc[u] \in {"hit", "miss", "fillW", "fillS", "key", "unlock", "emit"} =>
             row[u] = Table[Id(u)]
        /\ pc[u] = "fillS" => cache[SlotOf(Id(u))]["w"] = Table[Id(u)]["w"]
        /\ pc[u] = "key" => cache[SlotOf(Id(u))] = Table[Id(u)]
<1>1. \A u \in Threads : RowOk(u)
  BY DEF IInv, RowInv
<1>2. ASSUME NEW u \in Threads \ {t} PROVE RowOk(u)'
  <2>1. /\ pc'[u] = pc[u] /\ row'[u] = row[u] /\ slots' = slots
        /\ Id(u)' = Id(u) /\ SlotOf(Id(u))' = SlotOf(Id(u)) /\ KeyOf(Id(u))' = KeyOf(Id(u))
    BY StepFrame DEF Id, SlotOf, KeyOf
  <2>2. CASE UNCHANGED <<cache, keys>>
    BY <1>1, <2>1, <2>2
  <2>3. CASE /\ pc[t] \in {"fillW", "fillS", "key"}
             /\ \A k \in 0..(slots - 1) : k # SlotOf(Id(t)) =>
                  cache'[k] = cache[k] /\ keys'[k] = keys[k]
    <3>1. ASSUME pc[u] \in {"copyW", "copyS", "fillS", "key"}
          PROVE  /\ cache'[SlotOf(Id(u))] = cache[SlotOf(Id(u))]
                 /\ keys'[SlotOf(Id(u))] = keys[SlotOf(Id(u))]
      <4>1. SlotOf(Id(u)) # SlotOf(Id(t))
        BY <2>3, <3>1, Exclusive DEF SlotExclusive, Holding, Steps
      <4>2. slots > 0 /\ Id(u) \in RowIds
        BY <1>1, <3>1 DEF IInv, PositionInv, Active, Steps
      <4>3. QED
        BY <2>3, <4>1, <4>2, SlotType DEF IInv, TypeOK
    <3>2. QED
      BY <1>1, <2>1, <3>1
  <2>4. QED
    BY <2>2, <2>3, CacheFrame
<1>3. RowOk(t)'
  <2> USE DEF IInv, TypeOK, Goto, Steps
  <2>1. pc[t] \in Active => /\ Id(t) \in RowIds /\ Table[Id(t)] \in Row
                            /\ slots > 0 => SlotOf(Id(t)) \in 0..(slots - 1)
    BY SlotType, TableAssumption DEF PositionInv
  <2>2. next' = next => Id(t)' = Id(t) /\ SlotOf(Id(t))' = SlotOf(Id(t)) /\ KeyOf(Id(t))' = KeyOf(Id(t))
    BY StepFrame DEF Id, SlotOf, KeyOf
  <2>3. CASE Return(t) \/ Foreign(t) \/ Emit(t) \/ Lock(t)
    BY <2>3 DEF Return, Foreign, Emit, Deliver, Lock
  <2>4. CASE Reject(t) \/ ReadFails(t)
    BY <1>1, <2>2, <2>4 DEF Reject, ReadFails, Halt, afterStatus, config
  <2>5. CASE Probe(t)
    BY <2>2, <2>5 DEF Probe, config
  <2>6. CASE Copy(t, "w", "copyW", "copyS")
    <3>1. /\ pc[t] = "copyW" /\ pc'[t] = "copyS" /\ next' = next
          /\ row' = [row EXCEPT ![t]["w"] = cache[SlotOf(Id(t))]["w"]]
      BY <2>6 DEF Copy
    <3>2. cache[SlotOf(Id(t))] = Table[Id(t)] /\ row[t] \in Row
      BY <3>1, HitExact
    <3>3. row'[t]["w"] = Table[Id(t)]["w"] /\ Id(t)' = Id(t)
      BY <2>2, <3>1, <3>2 DEF Row, Fields
    <3>4. RowOk(t)
      BY <1>1
    <3>5. UNCHANGED <<cache, keys, slots>> /\ SlotOf(Id(t))' = SlotOf(Id(t))
          /\ KeyOf(Id(t))' = KeyOf(Id(t))
      BY <2>2, <2>6, <3>1 DEF Copy, config
    <3>6. QED
      BY ONLY <3>1, <3>3, <3>4, <3>5
  <2>7. CASE Copy(t, "s", "copyS", "hit")
    <3>1. /\ pc[t] = "copyS" /\ pc'[t] = "hit" /\ next' = next
          /\ row' = [row EXCEPT ![t]["s"] = cache[SlotOf(Id(t))]["s"]]
      BY <2>7 DEF Copy
    <3>2. /\ cache[SlotOf(Id(t))] = Table[Id(t)] /\ row[t] \in Row /\ Table[Id(t)] \in Row
          /\ row[t]["w"] = Table[Id(t)]["w"]
      BY <1>1, <2>1, <3>1, HitExact DEF Active
    <3>3. row'[t] = [row[t] EXCEPT !["s"] = Table[Id(t)]["s"]] /\ Id(t)' = Id(t)
      BY <2>2, <3>1, <3>2
    <3>4. row'[t] = Table[Id(t)]
      BY ONLY <3>2, <3>3 DEF Row, Fields
    <3>5. QED
      BY <3>1, <3>3, <3>4
  <2>8. CASE CountHit(t)
    BY <1>1, <2>2, <2>8 DEF CountHit, config
  <2>9. CASE Read(t, "w", "readW", "readS")
    BY <1>1, <2>2, <2>9 DEF Read, config, Row, Fields
  <2>10. CASE Read(t, "s", "readS", "miss")
    BY <1>1, <2>1, <2>2, <2>10 DEF Read, config, Row, Fields, Active
  <2>11. CASE CountMiss(t)
    BY <1>1, <2>2, <2>11 DEF CountMiss, config
  <2>12. CASE Fill(t, "w", "fillW", "fillS")
    BY <1>1, <2>1, <2>2, <2>12 DEF Fill, config, Row, Fields, Active
  <2>13. CASE Fill(t, "s", "fillS", "key")
    <3>1. /\ pc[t] = "fillS" /\ pc'[t] = "key" /\ next' = next /\ row' = row
          /\ cache' = [cache EXCEPT ![SlotOf(Id(t))]["s"] = row[t]["s"]]
          /\ UNCHANGED <<keys, slots>>
      BY <2>13 DEF Fill, config
    <3>2. /\ slots > 0 /\ row[t] = Table[Id(t)] /\ cache[SlotOf(Id(t))]["w"] = Table[Id(t)]["w"]
          /\ Table[Id(t)] \in Row /\ cache[SlotOf(Id(t))] \in Row
          /\ SlotOf(Id(t)) \in 0..(slots - 1)
      BY <1>1, <2>1, <3>1 DEF Active
    <3>3. /\ Id(t)' = Id(t) /\ SlotOf(Id(t))' = SlotOf(Id(t)) /\ KeyOf(Id(t))' = KeyOf(Id(t))
          /\ cache'[SlotOf(Id(t))] = [cache[SlotOf(Id(t))] EXCEPT !["s"] = Table[Id(t)]["s"]]
      BY <2>2, <3>1, <3>2
    <3>4. cache'[SlotOf(Id(t))] = Table[Id(t)]
      BY ONLY <3>2, <3>3 DEF Row, Fields
    <3>5. QED
      BY <3>1, <3>2, <3>3, <3>4
  <2>14. CASE SetKey(t) \/ Unlock(t)
    BY <1>1, <2>2, <2>14 DEF SetKey, Unlock, config
  <2>15. QED
    BY <2>3, <2>4, <2>5, <2>6, <2>7, <2>8, <2>9, <2>10, <2>11, <2>12, <2>13, <2>14 DEF Step
<1>4. QED
  BY <1>2, <1>3 DEF RowInv

\* A step of a thread keeps the occupied slots exact.
LEMMA CacheStep ==
  ASSUME IInv, NEW t \in Threads, Step(t)
  PROVE  CacheExact'
<1> DEFINE k0 == SlotOf(Id(t))
<1>1. \A k \in 0..(slots - 1) : SlotExact(k)
  BY DEF IInv, CacheExact
<1>2. /\ slots' = slots
      /\ \A id : SlotOf(id)' = SlotOf(id) /\ Owned(id)' = Owned(id) /\ KeyOf(id)' = KeyOf(id)
      /\ \A u \in Threads \ {t} : \A k : Filling(u, k)' = Filling(u, k)
  BY StepFrame DEF SlotOf, Owned, KeyOf, Filling, Id
<1>3. SUFFICES ASSUME NEW k \in 0..(slots - 1) PROVE SlotExact(k)'
  BY <1>2 DEF CacheExact
<1>4. SlotExact(k)
  BY <1>1
<1>5. ASSUME UNCHANGED <<cache, keys>>, Filling(t, k)' = Filling(t, k) PROVE SlotExact(k)'
  BY <1>2, <1>4, <1>5 DEF SlotExact
<1> USE DEF IInv, TypeOK, Goto, Steps
<1>6. next' = next => k0' = k0
  BY StepFrame DEF SlotOf, Id
<1>7. CASE Return(t) \/ Foreign(t) \/ Emit(t) \/ Lock(t)
  BY <1>5, <1>7 DEF Return, Foreign, Emit, Deliver, Lock, AtId, Filling
<1>8. CASE Reject(t) \/ ReadFails(t)
  BY <1>5, <1>6, <1>8 DEF Reject, ReadFails, Halt, afterStatus, Filling
<1>9. CASE Probe(t) \/ CountHit(t) \/ Unlock(t)
  BY <1>5, <1>6, <1>9 DEF Probe, CountHit, Unlock, Filling
<1>10. CASE Copy(t, "w", "copyW", "copyS") \/ Copy(t, "s", "copyS", "hit")
  BY <1>5, <1>6, <1>10 DEF Copy, Filling
<1>11. CASE Read(t, "w", "readW", "readS") \/ Read(t, "s", "readS", "miss")
  BY <1>5, <1>6, <1>11 DEF Read, Filling
<1>12. CASE CountMiss(t)
  BY <1>5, <1>6, <1>12 DEF CountMiss, Filling
<1>13. CASE Fill(t, "w", "fillW", "fillS") \/ Fill(t, "s", "fillS", "key")
  <2>1. k # k0 => cache'[k] = cache[k] /\ Filling(t, k)' = Filling(t, k)
    BY <1>6, <1>13 DEF Fill, Filling
  <2>2. keys' = keys
    BY <1>13 DEF Fill
  <2>3. CASE k # k0
    BY <1>2, <1>4, <2>1, <2>2, <2>3 DEF SlotExact
  <2>4. CASE k = k0
    <3>1. Filling(t, k)'
      BY <1>6, <1>13, <2>4 DEF Fill, Filling
    <3>2. QED
      BY <1>2, <1>4, <2>2, <3>1 DEF SlotExact
  <2>5. QED
    BY <2>3, <2>4
<1>14. CASE SetKey(t)
  <2>1. k # k0 => keys'[k] = keys[k] /\ Filling(t, k)' = Filling(t, k)
    BY <1>6, <1>14 DEF SetKey, Filling
  <2>2. cache' = cache /\ pc[t] = "key" /\ keys' = [keys EXCEPT ![k0] = KeyOf(Id(t))]
    BY <1>14 DEF SetKey
  <2>3. CASE k # k0
    BY <1>2, <1>4, <2>1, <2>2, <2>3 DEF SlotExact
  <2>4. CASE k = k0
    <3>1. Id(t) \in RowIds /\ Owned(Id(t)) /\ cache[k] = Table[Id(t)]
      BY <2>2, <2>4 DEF PositionInv, RowInv, Active
    <3>2. keys'[k] = KeyOf(Id(t))
      BY <2>2, <2>4
    <3>3. QED
      BY <1>2, <2>2, <2>4, <3>1, <3>2 DEF SlotExact
  <2>5. QED
    BY <2>3, <2>4
<1>15. QED
  BY <1>7, <1>8, <1>9, <1>10, <1>11, <1>12, <1>13, <1>14 DEF Step

\* A step of a thread keeps the written output exact.
LEMMA OutputStep ==
  ASSUME IInv, NEW t \in Threads, Step(t)
  PROVE  OutputExact'
<1> DEFINE Ok(u) == \A p \in 1..(next[u] - 1) : out[u][p] = Expected(ids[u][p])
<1>1. \A u \in Threads : Ok(u)
  BY DEF IInv, OutputExact
<1>2. ids' = ids /\ \A id : Expected(id)' = Expected(id)
  BY StepFrame DEF Expected, Owned
<1>3. ASSUME NEW u \in Threads \ {t} PROVE Ok(u)'
  <2>1. next'[u] = next[u] /\ out'[u] = out[u]
    BY StepFrame
  <2>2. QED
    BY <1>1, <1>2, <2>1
<1>4. Ok(t)'
  <2> USE DEF Goto
  <2>1. ASSUME UNCHANGED <<next, out>> PROVE Ok(t)'
    BY <1>1, <1>2, <2>1
  <2>2. ASSUME NEW r \in Row, r = Expected(Id(t)), next[t] <= Len(ids[t]),
               out' = [out EXCEPT ![t][next[t]] = r], next' = [next EXCEPT ![t] = @ + 1]
        PROVE  Ok(t)'
    <3>1. next[t] \in 1..Len(out[t]) /\ next'[t] = next[t] + 1
      BY <2>2 DEF IInv, TypeOK, PositionInv
    <3>2. out'[t] = [out[t] EXCEPT ![next[t]] = r] /\ out[t] \in Seq(Row)
      BY <2>2 DEF IInv, TypeOK
    <3>3. \A p \in 1..Len(out[t]) : out'[t][p] = IF p = next[t] THEN r ELSE out[t][p]
      BY <3>1, <3>2, ExceptSeq
    <3>4. ASSUME NEW p \in 1..next[t] PROVE out'[t][p] = Expected(ids[t][p])
      <4>1. out'[t][p] = IF p = next[t] THEN r ELSE out[t][p]
        BY <3>1, <3>3
      <4>2. CASE p = next[t]
        BY <2>2, <4>1, <4>2 DEF Id
      <4>3. CASE p # next[t]
        BY <1>1, <3>1, <4>1, <4>3
      <4>4. QED
        BY <4>2, <4>3
    <3>5. QED
      BY <1>2, <3>1, <3>4
  <2>3. CASE Foreign(t)
    BY <2>2, <2>3, ZeroRowType DEF Foreign, Deliver, AtId, Expected
  <2>4. CASE Emit(t)
    <3>1. /\ row[t] = Table[Id(t)] /\ Owned(Id(t)) /\ next[t] <= Len(ids[t])
          /\ row[t] \in Row
      BY <2>4 DEF Emit, Deliver, IInv, TypeOK, PositionInv, RowInv, Active, Steps
    <3>2. QED
      BY <2>2, <2>4, <3>1 DEF Emit, Deliver, Expected
  <2>5. CASE Return(t) \/ Lock(t) \/ Probe(t) \/ CountHit(t) \/ SetKey(t) \/ Unlock(t)
    BY <2>1, <2>5 DEF Return, Lock, Probe, CountHit, SetKey, Unlock
  <2>6. CASE Reject(t) \/ ReadFails(t)
    BY <2>1, <2>6 DEF Reject, ReadFails, Halt, afterStatus
  <2>7. CASE Copy(t, "w", "copyW", "copyS") \/ Copy(t, "s", "copyS", "hit")
    BY <2>1, <2>7 DEF Copy
  <2>8. CASE Read(t, "w", "readW", "readS") \/ Read(t, "s", "readS", "miss")
    BY <2>1, <2>8 DEF Read
  <2>9. CASE CountMiss(t)
    BY <2>1, <2>9 DEF CountMiss
  <2>10. CASE Fill(t, "w", "fillW", "fillS") \/ Fill(t, "s", "fillS", "key")
    BY <2>1, <2>10 DEF Fill
  <2>11. QED
    BY <2>3, <2>4, <2>5, <2>6, <2>7, <2>8, <2>9, <2>10 DEF Step
<1>5. QED
  BY <1>3, <1>4 DEF OutputExact

\* A step of a thread passes no id outside the table.
LEMMA PassedStep ==
  ASSUME IInv, NEW t \in Threads, Step(t)
  PROVE  PassedInv'
<1>1. ids' = ids /\ \A u \in Threads \ {t} : next'[u] = next[u]
  BY StepFrame
<1>2. next'[t] = next[t] \/ (next'[t] = next[t] + 1 /\ Id(t) \in RowIds)
  <2> USE DEF IInv, TypeOK
  <2>1. CASE Foreign(t)
    BY <2>1 DEF Foreign, Deliver
  <2>2. CASE Emit(t)
    BY <2>2 DEF Emit, Deliver, Goto, PositionInv, Active, Steps
  <2>3. CASE Reject(t) \/ ReadFails(t)
    BY <2>3 DEF Reject, ReadFails, Halt, afterStatus
  <2>4. QED
    BY <2>1, <2>2, <2>3 DEF Step, Return, Lock, Probe, Copy, CountHit, Read, CountMiss, Fill,
       SetKey, Unlock
<1>3. ASSUME NEW p \in 1..(next'[t] - 1) PROVE ids[t][p] \in RowIds
  BY <1>2, <1>3 DEF IInv, TypeOK, PassedInv, Id
<1>4. QED
  BY <1>1, <1>3 DEF IInv, PassedInv, RowIds

\* A step of a thread is not taken before the first lookup.
LEMMA FreshStep ==
  ASSUME IInv, NEW t \in Threads, Step(t)
  PROVE  FreshInv'
<1>1. calls' = calls /\ calls # 0 /\ (status' = "unopened" => status = "unopened")
  <2>1. calls' = calls
    BY StepFrame
  <2>2. pc[t] # "idle" /\ status' # "unopened"
    BY DEF Step, Return, Reject, Foreign, Lock, Probe, Copy, CountHit, Read, ReadFails,
           CountMiss, Fill, SetKey, Unlock, Emit, Deliver, Goto, Halt, AtId
  <2>3. QED
    BY <2>1, <2>2 DEF IInv, FreshInv
<1>2. QED
  BY <1>1 DEF IInv, FreshInv

-----------------------------------------------------------------------------
(* The invariant holds initially and every step keeps it                   *)

\* The initial state satisfies the invariant.
LEMMA InitInv == Init => IInv
<1> SUFFICES ASSUME Init PROVE IInv
  OBVIOUS
<1> USE DEF Init
<1>1. TypeOK
  BY ZeroRowType, RowsAssumption, LocksAssumption DEF TypeOK, Steps
<1>2. PositionInv /\ LockInv /\ RowInv /\ FreshInv /\ PassedInv
  BY DEF PassedInv, PositionInv, LockInv, RowInv, FreshInv, Active, Holding, Steps
<1>3. CacheExact /\ OutputExact
  BY DEF CacheExact, OutputExact
<1>4. QED
  BY <1>1, <1>2, <1>3 DEF IInv

\* Opening: every slot is empty and no thread has begun.
LEMMA OpenInv ==
  ASSUME IInv, NEW m \in {"nvme", "ram"}, NEW budget \in Budgets, Open(m, budget)
  PROVE  IInv'
<1>1. /\ calls = 0 /\ \A t \in Threads : pc[t] = "idle" /\ next[t] = 1
      /\ UNCHANGED <<locks, counters, pc, ids, next, row, out, observer, calls, served>>
      /\ status' = "open" /\ mode' = m /\ rowLo' = 0 /\ rowHi' = Rows
  BY DEF IInv, FreshInv, Open
<1>2. slots' \in Nat
  BY BudgetsAssumption DEF Open, SlotCount, EntryBytes
<1>3. cache' \in [0..(slots' - 1) -> Row] /\ keys' \in [0..(slots' - 1) -> 0..Rows]
  BY ZeroRowType, RowsAssumption DEF Open
<1>4. TypeOK'
  <2>1. rowLo' \in Nat /\ rowHi' \in 0..Rows /\ rowLo' <= rowHi'
    BY <1>1, RowsAssumption
  <2>2. TypeOK
    BY DEF IInv
  <2>3. QED
    BY ONLY <1>1, <1>2, <1>3, <2>1, <2>2, m \in {"nvme", "ram"} DEF TypeOK, counters, observer
<1>5. PositionInv' /\ LockInv' /\ RowInv' /\ FreshInv' /\ PassedInv'
  BY <1>1 DEF Open, IInv, PositionInv, LockInv, RowInv, FreshInv, PassedInv,
     Active, Holding, Steps, RowIds
<1>6. CacheExact' /\ OutputExact'
  BY <1>1 DEF Open, CacheExact, SlotExact, OutputExact
<1>7. QED
  BY <1>4, <1>5, <1>6 DEF IInv

\* Narrowing the range: no slot is occupied and no output is written yet.
LEMMA SetRangeInv ==
  ASSUME IInv, NEW range \in Ranges, SetRange(range.lo, range.hi), status' # "aborted"
  PROVE  IInv'
<1>1. /\ range.lo <= range.hi /\ range.hi <= Rows
      /\ rowLo' = range.lo /\ rowHi' = range.hi
      /\ UNCHANGED <<status, mode, slots, cache, keys, locks, counters, pc, ids,
                     next, row, out, observer, calls, served>>
  BY DEF SetRange, Halt
<1>2. /\ calls = 0 /\ \A t \in Threads : pc[t] = "idle" /\ next[t] = 1
      /\ \A k \in 0..(slots - 1) : keys[k] = 0
  BY DEF SetRange, IInv, FreshInv
<1>3. TypeOK'
  BY <1>1, RangesAssumption, RowsAssumption DEF IInv, TypeOK, counters, observer
<1>4. PositionInv' /\ LockInv' /\ RowInv' /\ FreshInv' /\ PassedInv'
  BY <1>1, <1>2 DEF IInv, PositionInv, LockInv, RowInv, FreshInv, PassedInv,
     Active, Holding, Steps, RowIds
<1>5. CacheExact' /\ OutputExact'
  BY <1>1, <1>2 DEF CacheExact, SlotExact, OutputExact
<1>6. QED
  BY <1>3, <1>4, <1>5 DEF IInv

\* A new request starts at its first id with nothing delivered.
LEMMA BeginInv ==
  ASSUME IInv, NEW t \in Threads, NEW work \in Works, Begin(t, work)
  PROVE  IInv'
<1>1. /\ pc' = [pc EXCEPT ![t] = "loop"] /\ ids' = [ids EXCEPT ![t] = work]
      /\ next' = [next EXCEPT ![t] = 1] /\ calls' = calls + 1 /\ pc[t] = "idle"
      /\ UNCHANGED <<status, config, cache, keys, locks, counters, row, observer, served>>
  BY DEF Begin
<1>2. out' = [out EXCEPT ![t] = [p \in 1..Len(work) |-> [f \in Fields |-> Stale]]]
  BY DEF Begin
<1>3. work \in Seq(Int) /\ Len(work) \in Nat
  BY WorksAssumption
<1>4. out'[t] \in Seq(Row) /\ Len(out'[t]) = Len(work) /\ out' \in [Threads -> Seq(Row)]
  <2>1. [f \in Fields |-> Stale] \in Row
    BY TableAssumption DEF Row
  <2>2. /\ [p \in 1..Len(work) |-> [f \in Fields |-> Stale]] \in Seq(Row)
        /\ Len([p \in 1..Len(work) |-> [f \in Fields |-> Stale]]) = Len(work)
    BY <1>3, <2>1
  <2>3. QED
    BY <1>2, <2>2 DEF IInv, TypeOK
<1>5. \A u \in Threads \ {t} : /\ pc'[u] = pc[u] /\ next'[u] = next[u] /\ ids'[u] = ids[u]
                                /\ out'[u] = out[u] /\ row'[u] = row[u]
  BY <1>1, <1>2 DEF IInv, TypeOK
<1>6. pc'[t] = "loop" /\ next'[t] = 1 /\ ids'[t] = work
  BY <1>1 DEF IInv, TypeOK
<1>7. TypeOK'
  <2>1. TypeOK
    BY DEF IInv
  <2>2. /\ pc' \in [Threads -> Steps] /\ ids' \in [Threads -> Seq(Int)]
        /\ next' \in [Threads -> Nat \ {0}] /\ calls' \in Nat
    BY <1>1, <1>3, <2>1 DEF TypeOK, Steps
  <2>3. QED
    BY ONLY <1>1, <1>4, <2>1, <2>2 DEF TypeOK, config, counters, observer
<1>8. PositionInv'
  BY <1>1, <1>3, <1>4, <1>5, <1>6 DEF IInv, PositionInv, Active, Id, Owned, config
<1>9. LockInv' /\ RowInv'
  <2>1. LockInv'
    BY <1>1, <1>5, <1>6 DEF IInv, LockInv, Holding, Id, config, LockOf, SlotOf
  <2>2. RowInv'
    BY <1>1, <1>5, <1>6 DEF IInv, RowInv, Id, config, SlotOf, KeyOf
  <2>3. QED
    BY <2>1, <2>2
<1>10. FreshInv'
  BY <1>1 DEF IInv, FreshInv, TypeOK, Begin
<1>11. CacheExact'
  BY <1>1, <1>5, <1>6 DEF IInv, CacheExact, SlotExact, Filling, Id, Owned, SlotOf, KeyOf, config
<1>12. OutputExact' /\ PassedInv'
  BY <1>1, <1>5, <1>6 DEF IInv, OutputExact, PassedInv, RowIds, Expected, Owned, config
<1>13. QED
  BY <1>7, <1>8, <1>9, <1>10, <1>11, <1>12 DEF IInv

\* Steps that change neither the store nor a lookup.
LEMMA QuietInv ==
  ASSUME IInv,
         UNCHANGED <<config, cache, keys, locks, counters, pc, ids, next, row, out, calls, served>>,
         status' = status \/ status' \in {"refused", "aborted", "closed"},
         statsPc' \in {"idle", "misses", "reads"}, stats' \in [hits : Nat, misses : Nat, reads : Nat],
         snapshots' \in Nat
  PROVE  IInv'
<1> USE DEF config, counters
<1>1. TypeOK' /\ PositionInv'
  BY DEF IInv, TypeOK, PositionInv, Id, Owned
<1>2. LockInv' /\ RowInv' /\ FreshInv'
  BY DEF IInv, LockInv, RowInv, FreshInv, Id, LockOf, SlotOf, KeyOf
<1>3. CacheExact' /\ OutputExact' /\ PassedInv'
  BY DEF IInv, PassedInv, RowIds, CacheExact, SlotExact, Filling, Id, Owned, SlotOf, KeyOf, OutputExact, Expected
<1>4. QED
  BY <1>1, <1>2, <1>3 DEF IInv

\* The step lemmas together.
LEMMA StepInv ==
  ASSUME IInv, NEW t \in Threads, Step(t)
  PROVE  IInv'
  BY TypeStep, PositionStep, LockStep, RowStep, FreshStep, PassedStep, CacheStep,
     OutputStep DEF IInv

\* Every step of the store keeps the invariant.
LEMMA NextInv == IInv /\ [Next]_vars => IInv'
<1> SUFFICES ASSUME IInv, [Next]_vars PROVE IInv'
  OBVIOUS
<1>1. ASSUME NEW how \in {"refused", "aborted", "closed"}, Halt(how) PROVE IInv'
  BY <1>1, QuietInv DEF Halt, afterStatus, observer, IInv, TypeOK
<1>2. CASE OpenFails \/ Close
  BY <1>1, <1>2 DEF OpenFails, Close
<1>3. CASE \E m \in {"nvme", "ram"}, budget \in Budgets : Open(m, budget)
  BY <1>3, OpenInv
<1>4. CASE \E range \in Ranges : SetRange(range.lo, range.hi)
  <2>1. PICK range \in Ranges : SetRange(range.lo, range.hi)
    BY <1>4
  <2>2. CASE status' = "aborted"
    BY <1>1, <2>1, <2>2 DEF SetRange
  <2>3. CASE status' # "aborted"
    BY <2>1, <2>3, SetRangeInv
  <2>4. QED
    BY <2>2, <2>3
<1>5. CASE \E t \in Threads : Step(t)
  BY <1>5, StepInv
<1>6. CASE \E t \in Threads : \E work \in Works : Begin(t, work)
  BY <1>6, BeginInv
<1>7. CASE Stats
  <2>1. TypeOK
    BY DEF IInv
  <2>2. /\ status' = status /\ statsPc' \in {"idle", "misses", "reads"}
        /\ snapshots' \in Nat
        /\ UNCHANGED <<config, cache, keys, locks, counters, pc, ids, next, row, out,
                       calls, served>>
    BY <1>7, <2>1 DEF Stats, Load, TypeOK
  <2>3. stats' \in [hits : Nat, misses : Nat, reads : Nat]
    BY <1>7, <2>1 DEF Stats, Load, TypeOK
  <2>4. QED
    BY <2>2, <2>3, QuietInv
<1>8. CASE Stopped \/ UNCHANGED vars
  BY <1>8, QuietInv DEF Stopped, vars, afterStatus, observer, IInv, TypeOK
<1>9. QED
  BY <1>2, <1>3, <1>4, <1>5, <1>6, <1>7, <1>8 DEF Next

\* Every reachable state of the store satisfies the inductive invariant.
THEOREM Invariance == Spec => []IInv
  BY InitInv, NextInv, PTL DEF Spec

\* Every variable keeps its type; in particular the owned range stays inside
\* the table whatever the constructor passes (row_store.cpp:124).
THEOREM TypeCorrect == Spec => []TypeOK
<1>1. IInv => TypeOK
  BY DEF IInv
<1>2. QED
  BY <1>1, Invariance, PTL

\* No two threads are inside the critical section of one slot, for any number
\* of locks (row_store.cpp:99-113).
THEOREM SlotExclusion == Spec => []SlotExclusive
  BY Exclusive, Invariance, PTL

\* Occupied slots hold exact rows of this rank (row_store.cpp:101-111).
THEOREM CacheCorrect == Spec => []CacheExact
<1>1. IInv => CacheExact
  BY DEF IInv
<1>2. QED
  BY <1>1, Invariance, PTL

\* Whatever the interleaving, every position a lookup has passed holds the
\* exact row of its id (row_store.cpp:1, 87-117).
THEOREM OutputCorrect == Spec => []OutputExact
<1>1. IInv => OutputExact
  BY DEF IInv
<1>2. QED
  BY <1>1, Invariance, PTL
-----------------------------------------------------------------------------
(* The counters                                                            *)

\* While the counters are loaded, the misses loaded are not more than there
\* are by now; nothing is counted before the store is open.
SnapshotInv ==
  /\ SnapshotOrdered
  /\ statsPc = "reads" => stats.misses <= misses
  /\ status = "unopened" =>
       /\ hits = 0 /\ misses = 0 /\ reads = 0 /\ served = 0
       /\ statsPc = "idle" /\ stats.misses = 0

CountInv == CountersBalance /\ SnapshotInv

\* How many threads a step function has at some steps.
Number(f, steps) == Cardinality({t \in Threads : f[t] \in steps})
One(step, steps) == IF step \in steps THEN 1 ELSE 0

Moved(f, g, from, to, steps) ==
  /\ Number(f, steps) \in Nat /\ Number(g, steps) \in Nat
  /\ Number(g, steps) - Number(f, steps) = One(to, steps) - One(from, steps)

\* The number of threads at some steps depends only on where they are.
LEMMA AtNumber == \A steps : At(steps) = Number(pc, steps) /\ At(steps)' = Number(pc', steps)
  BY DEF At, Number

\* A thread that moves leaves one step and enters another.
LEMMA Moves ==
  ASSUME NEW f \in [Threads -> Steps], NEW t \in Threads, NEW to, NEW steps,
         NEW g, g = [f EXCEPT ![t] = to]
  PROVE  Moved(f, g, f[t], to, steps)
<1> DEFINE old == {u \in Threads : f[u] \in steps}
           new == {u \in Threads : g[u] \in steps}
<1>1. \A u \in Threads : g[u] = IF u = t THEN to ELSE f[u]
  OBVIOUS
<1>2. IsFiniteSet(old) /\ IsFiniteSet(new)
  BY ThreadsAssumption, FS_Subset
<1>3. Cardinality(old) \in Nat /\ Cardinality(new) \in Nat
  BY <1>2, FS_CardinalityType
<1>4. ASSUME f[t] \in steps <=> to \in steps
      PROVE  new = old
  BY <1>1, <1>4
<1>5. ASSUME f[t] \notin steps, to \in steps
      PROVE  Cardinality(new) = Cardinality(old) + 1
  <2>1. new = old \cup {t} /\ t \notin old
    BY <1>1, <1>5
  <2>2. QED
    BY <1>2, <2>1, FS_AddElement
<1>6. ASSUME f[t] \in steps, to \notin steps
      PROVE  Cardinality(old) = Cardinality(new) + 1
  <2>1. old = new \cup {t} /\ t \notin new
    BY <1>1, <1>6
  <2>2. QED
    BY <1>2, <2>1, FS_AddElement
<1>7. Cardinality(new) - Cardinality(old) = One(to, steps) - One(f[t], steps)
  BY <1>3, <1>4, <1>5, <1>6 DEF One
<1>8. QED
  BY <1>3, <1>7 DEF Number, Moved

\* The steps of a row that is counted but not delivered.
Counted == {"unlock", "emit", "fillW", "fillS", "key"}

\* How many direct reads of the row under way are not yet those of a miss.
Early(step) == IF step = "readS" THEN 1 ELSE IF step = "miss" THEN 2 ELSE 0

\* The counters follow a thread's move from one step to another.
Follows(from, to) ==
  /\ (hits' + misses' - served') - (hits + misses - served)
       = One(to, Counted) - One(from, Counted)
  /\ IF mode = "ram" THEN reads' = reads
     ELSE (reads' - 2 * misses') - (reads - 2 * misses) = Early(to) - Early(from)

\* Where the move of a thread shows in the balance.
LEMMA Balanced ==
  ASSUME TypeOK, CountersBalance, NEW t \in Threads, NEW to, pc' = [pc EXCEPT ![t] = to],
         hits' \in Nat, misses' \in Nat, reads' \in Nat, served' \in Nat, mode' = mode,
         Follows(pc[t], to)
  PROVE  CountersBalance'
<1> DEFINE counted(f) == Number(f, Counted)
           second(f) == Number(f, {"readS"})
           both(f) == Number(f, {"miss"})
<1>1. \A steps : Moved(pc, pc', pc[t], to, steps)
  BY Moves DEF TypeOK
<1>2. /\ counted(pc) \in Nat /\ counted(pc') \in Nat
      /\ counted(pc') - counted(pc) = One(to, Counted) - One(pc[t], Counted)
  BY <1>1 DEF Moved
<1>3. /\ second(pc) \in Nat /\ second(pc') \in Nat
      /\ second(pc') - second(pc) = One(to, {"readS"}) - One(pc[t], {"readS"})
  BY <1>1 DEF Moved
<1>4. /\ both(pc) \in Nat /\ both(pc') \in Nat
      /\ both(pc') - both(pc) = One(to, {"miss"}) - One(pc[t], {"miss"})
  BY <1>1 DEF Moved
<1>5. hits \in Nat /\ misses \in Nat /\ reads \in Nat /\ served \in Nat
  BY DEF TypeOK
<1>6. /\ CountersBalance <=> /\ hits + misses = served + counted(pc)
                             /\ reads = IF mode = "ram" THEN 0
                                        ELSE 2 * misses + second(pc) + 2 * both(pc)
      /\ CountersBalance' <=> /\ hits' + misses' = served' + counted(pc')
                              /\ reads' = IF mode' = "ram" THEN 0
                                          ELSE 2 * misses' + second(pc') + 2 * both(pc')
  BY AtNumber DEF CountersBalance, Counted
<1> HIDE DEF counted, second, both
<1>7. hits' + misses' = served' + counted(pc')
  <2>1. (hits' + misses' - served') - (hits + misses - served) = counted(pc') - counted(pc)
    BY <1>2 DEF Follows
  <2>2. hits + misses = served + counted(pc)
    BY <1>6
  <2>3. /\ counted(pc) \in Nat /\ counted(pc') \in Nat
        /\ hits' \in Nat /\ misses' \in Nat /\ served' \in Nat
    BY <1>2
  <2>4. QED
    BY ONLY <1>5, <2>1, <2>2, <2>3
<1>8. reads' = IF mode' = "ram" THEN 0 ELSE 2 * misses' + second(pc') + 2 * both(pc')
  <2>1. CASE mode = "ram"
    BY <1>6, <2>1 DEF Follows
  <2>2. CASE mode # "ram"
    <3>1. Early(to) - Early(pc[t])
            = (One(to, {"readS"}) - One(pc[t], {"readS"}))
              + 2 * (One(to, {"miss"}) - One(pc[t], {"miss"}))
      BY DEF Early, One
    <3>2. QED
      BY <1>3, <1>4, <1>5, <1>6, <2>2, <3>1 DEF Follows
  <2>3. QED
    BY <2>1, <2>2
<1>9. QED
  BY <1>6, <1>7, <1>8

\* A step that leaves the counters and the steps of all threads alone.
LEMMA BalanceStays ==
  ASSUME CountersBalance, UNCHANGED <<counters, mode, pc, served>>
  PROVE  CountersBalance'
  BY DEF CountersBalance, counters, At

\* A step of a thread keeps the balance.
LEMMA BalanceStep ==
  ASSUME IInv, CountersBalance, NEW t \in Threads, Step(t)
  PROVE  CountersBalance'
<1>1. /\ TypeOK /\ UNCHANGED mode
      /\ hits' \in Nat /\ misses' \in Nat /\ reads' \in Nat /\ served' \in Nat
      /\ hits \in Nat /\ misses \in Nat /\ reads \in Nat /\ served \in Nat
  BY TypeStep, StepFrame DEF IInv, TypeOK
<1>2. CASE Reject(t) \/ ReadFails(t)
  BY <1>2, BalanceStays DEF Reject, ReadFails, Halt, afterStatus, config
<1>3. CASE Return(t) \/ Foreign(t) \/ Lock(t) \/ Probe(t)
  <2>1. PICK to \in {"idle", "loop", "probe", "copyW", "readW"} :
          /\ pc' = [pc EXCEPT ![t] = to] /\ pc[t] \in {"loop", "probe"}
          /\ UNCHANGED <<hits, misses, reads, served>>
    BY <1>3 DEF Return, Foreign, Lock, Probe, Deliver, Goto, counters
  <2>2. Follows(pc[t], to)
    BY <1>1, <2>1 DEF Follows, One, Early, Counted
  <2>3. QED
    BY <1>1, <2>1, <2>2, Balanced
<1>4. CASE Copy(t, "w", "copyW", "copyS") \/ Copy(t, "s", "copyS", "hit")
  <2>1. PICK to \in {"copyS", "hit"} :
          /\ pc' = [pc EXCEPT ![t] = to] /\ pc[t] \in {"copyW", "copyS"}
          /\ UNCHANGED <<hits, misses, reads, served>>
    BY <1>4 DEF Copy, Goto, counters
  <2>2. Follows(pc[t], to)
    BY <1>1, <2>1 DEF Follows, One, Early, Counted
  <2>3. QED
    BY <1>1, <2>1, <2>2, Balanced
<1>5. CASE CountHit(t)
  <2>1. /\ pc' = [pc EXCEPT ![t] = "unlock"] /\ pc[t] = "hit" /\ hits' = hits + 1
        /\ UNCHANGED <<misses, reads, served>>
    BY <1>5 DEF CountHit, Goto
  <2>2. Follows(pc[t], "unlock")
    BY <1>1, <2>1 DEF Follows, One, Early, Counted
  <2>3. QED
    BY <1>1, <2>1, <2>2, Balanced
<1>6. CASE Read(t, "w", "readW", "readS")
  <2>1. /\ pc' = [pc EXCEPT ![t] = "readS"] /\ pc[t] = "readW"
        /\ reads' = IF mode = "nvme" THEN reads + 1 ELSE reads
        /\ UNCHANGED <<hits, misses, served>>
    BY <1>6 DEF Read, Goto
  <2>2. mode \in {"nvme", "ram"}
    BY <1>1 DEF TypeOK
  <2>3. Follows(pc[t], "readS")
    BY <1>1, <2>1, <2>2 DEF Follows, One, Early, Counted
  <2>4. QED
    BY <1>1, <2>1, <2>3, Balanced
<1>7. CASE Read(t, "s", "readS", "miss")
  <2>1. /\ pc' = [pc EXCEPT ![t] = "miss"] /\ pc[t] = "readS"
        /\ reads' = IF mode = "nvme" THEN reads + 1 ELSE reads
        /\ UNCHANGED <<hits, misses, served>>
    BY <1>7 DEF Read, Goto
  <2>2. mode \in {"nvme", "ram"}
    BY <1>1 DEF TypeOK
  <2>3. Follows(pc[t], "miss")
    BY <1>1, <2>1, <2>2 DEF Follows, One, Early, Counted
  <2>4. QED
    BY <1>1, <2>1, <2>3, Balanced
<1>8. CASE CountMiss(t)
  <2>1. PICK to \in {"fillW", "unlock"} :
          /\ pc' = [pc EXCEPT ![t] = to] /\ pc[t] = "miss" /\ misses' = misses + 1
          /\ UNCHANGED <<hits, reads, served>>
    BY <1>8 DEF CountMiss, Goto
  <2>2. Follows(pc[t], to)
    BY <1>1, <2>1 DEF Follows, One, Early, Counted
  <2>3. QED
    BY <1>1, <2>1, <2>2, Balanced
<1>9. CASE \/ Fill(t, "w", "fillW", "fillS") \/ Fill(t, "s", "fillS", "key")
           \/ SetKey(t) \/ Unlock(t)
  <2>1. PICK to \in Counted :
          /\ pc' = [pc EXCEPT ![t] = to] /\ pc[t] \in Counted
          /\ UNCHANGED <<hits, misses, reads, served>>
    BY <1>9 DEF Fill, SetKey, Unlock, Goto, counters, Counted
  <2>2. Follows(pc[t], to)
    BY <1>1, <2>1 DEF Follows, One, Early, Counted
  <2>3. QED
    BY <1>1, <2>1, <2>2, Balanced
<1>10. CASE Emit(t)
  <2>1. /\ pc' = [pc EXCEPT ![t] = "loop"] /\ pc[t] = "emit" /\ served' = served + 1
        /\ UNCHANGED <<hits, misses, reads>>
    BY <1>10 DEF Emit, Deliver, Goto, counters
  <2>2. Follows(pc[t], "loop")
    BY <1>1, <2>1 DEF Follows, One, Early, Counted
  <2>3. QED
    BY <1>1, <2>1, <2>2, Balanced
<1>11. QED
  BY <1>2, <1>3, <1>4, <1>5, <1>6, <1>7, <1>8, <1>9, <1>10 DEF Step

\* The misses only grow, so a load of them is never more than there are.
LEMMA SnapshotStays ==
  ASSUME IInv, SnapshotInv, UNCHANGED <<mode, observer>>, misses' \in Nat, misses' >= misses,
         status' # "unopened"
  PROVE  SnapshotInv'
  BY DEF IInv, TypeOK, SnapshotInv, SnapshotOrdered, observer

\* Loading one more counter keeps the snapshot in order: the reads are at
\* least twice the misses there are now, so twice those loaded before.
LEMMA StatsStep ==
  ASSUME IInv, CountInv, Stats
  PROVE  CountInv'
<1>1. /\ status = "open" /\ status' = "open"
      /\ UNCHANGED <<mode, counters, pc, served>>
  BY DEF Stats, Load, config
<1>2. /\ stats \in [hits : Nat, misses : Nat, reads : Nat]
      /\ hits \in Nat /\ misses \in Nat /\ reads \in Nat
  BY DEF IInv, TypeOK
<1>3. CountersBalance'
  BY <1>1, BalanceStays DEF CountInv
<1>4. CASE Load("idle", "misses", [stats EXCEPT !.hits = hits])
  BY <1>1, <1>2, <1>3, <1>4 DEF Load, CountInv, SnapshotInv, SnapshotOrdered
<1>5. CASE Load("misses", "reads", [stats EXCEPT !.misses = misses])
  BY <1>1, <1>2, <1>3, <1>5 DEF Load, CountInv, SnapshotInv, SnapshotOrdered, counters
<1>6. CASE Load("reads", "idle", [stats EXCEPT !.reads = reads])
  <2>1. /\ stats'.reads = reads /\ stats'.misses = stats.misses /\ stats.misses <= misses
        /\ statsPc' = "idle"
    BY <1>2, <1>6 DEF Load, CountInv, SnapshotInv
  <2>2. mode = "nvme" => reads >= 2 * misses
    <3>1. At({"readS"}) \in Nat /\ At({"miss"}) \in Nat
      BY ThreadsAssumption, FS_Subset, FS_CardinalityType DEF At
    <3>2. QED
      BY <1>2, <3>1 DEF CountInv, CountersBalance
  <2>3. SnapshotInv'
    BY <1>1, <1>2, <2>1, <2>2 DEF SnapshotInv, SnapshotOrdered
  <2>4. QED
    BY <1>3, <2>3 DEF CountInv
<1>7. QED
  BY <1>3, <1>4, <1>5, <1>6 DEF Stats, CountInv

\* Before the first lookup nothing has been counted.
LEMMA InitCount == Init => CountInv
<1> SUFFICES ASSUME Init PROVE CountInv
  OBVIOUS
<1>1. \A t \in Threads : pc[t] = "idle"
  BY DEF Init
<1>2. ASSUME NEW steps, "idle" \notin steps
      PROVE  At(steps) = 0
  <2>1. {t \in Threads : pc[t] \in steps} = {}
    BY <1>1, <1>2
  <2>2. QED
    BY <2>1, FS_EmptySet DEF At
<1>3. /\ At({"unlock", "emit", "fillW", "fillS", "key"}) = 0
      /\ At({"readS"}) = 0 /\ At({"miss"}) = 0
  BY <1>2
<1>4. QED
  BY <1>3 DEF Init, CountInv, CountersBalance, SnapshotInv, SnapshotOrdered

\* Opening the store in either mode.
LEMMA OpenCount ==
  ASSUME IInv, CountInv, NEW m, NEW budget, Open(m, budget)
  PROVE  CountInv'
<1>1. /\ status = "unopened" /\ status' = "open"
      /\ UNCHANGED <<counters, pc, observer, served>>
      /\ hits = 0 /\ misses = 0 /\ reads = 0 /\ served = 0
  BY DEF Open, CountInv, SnapshotInv
<1>2. \A t \in Threads : pc[t] = "idle"
  BY <1>1 DEF IInv, FreshInv
<1>3. ASSUME NEW steps, "idle" \notin steps
      PROVE  At(steps)' = 0
  <2>1. {t \in Threads : pc'[t] \in steps} = {}
    BY <1>1, <1>2, <1>3
  <2>2. QED
    BY <2>1, FS_EmptySet DEF At
<1>4. /\ At({"unlock", "emit", "fillW", "fillS", "key"})' = 0
      /\ At({"readS"})' = 0 /\ At({"miss"})' = 0
  BY <1>3
<1>5. CountersBalance'
  BY <1>1, <1>4 DEF CountersBalance, counters
<1>6. SnapshotInv'
  BY <1>1 DEF CountInv, SnapshotInv, SnapshotOrdered, IInv, TypeOK, observer, counters
<1>7. QED
  BY <1>5, <1>6 DEF CountInv

\* Every step keeps the invariant of the counters.
LEMMA NextCount == IInv /\ CountInv /\ [Next]_vars => CountInv'
<1> SUFFICES ASSUME IInv, CountInv, [Next]_vars PROVE CountInv'
  OBVIOUS
<1>1. misses \in Nat /\ TypeOK
  BY DEF IInv, TypeOK
<1>2. ASSUME UNCHANGED <<mode, counters, pc, served, observer>>, status' # "unopened"
      PROVE  CountInv'
  BY <1>1, <1>2, BalanceStays, SnapshotStays DEF CountInv, counters
<1>3. CASE OpenFails \/ Close
  BY <1>2, <1>3 DEF OpenFails, Close, Halt, afterStatus, config
<1>4. CASE \E m \in {"nvme", "ram"}, budget \in Budgets : Open(m, budget)
  BY <1>4, OpenCount
<1>5. CASE \E range \in Ranges : SetRange(range.lo, range.hi)
  BY <1>2, <1>5 DEF SetRange, Halt, afterStatus, config
<1>6. CASE \E t \in Threads : Step(t)
  <2>1. PICK t \in Threads : Step(t)
    BY <1>6
  <2>2. CountersBalance'
    BY <2>1, BalanceStep DEF CountInv
  <2>3. /\ UNCHANGED <<mode, observer>> /\ misses' \in Nat /\ misses' >= misses
        /\ status' # "unopened"
    <3>1. TypeOK' /\ UNCHANGED mode
      BY <2>1, TypeStep, StepFrame
    <3>2. UNCHANGED observer /\ status' # "unopened"
      BY <2>1 DEF Step, Return, Reject, Foreign, Lock, Probe, Copy, CountHit, Read, ReadFails,
                  CountMiss, Fill, SetKey, Unlock, Emit, Deliver, Goto, Halt, afterStatus
    <3>3. misses' = misses \/ misses' = misses + 1
      BY <2>1 DEF Step, Return, Reject, Foreign, Lock, Probe, Copy, CountHit, Read, ReadFails,
                  CountMiss, Fill, SetKey, Unlock, Emit, Deliver, Goto, Halt, afterStatus, counters
    <3>4. QED
      BY <1>1, <3>1, <3>2, <3>3 DEF TypeOK
  <2>4. QED
    BY <2>2, <2>3, SnapshotStays DEF CountInv
<1>7. CASE \E t \in Threads : \E work \in Works : Begin(t, work)
  <2>1. PICK t \in Threads, work \in Works : Begin(t, work)
    BY <1>7
  <2>2. /\ pc' = [pc EXCEPT ![t] = "loop"] /\ pc[t] = "idle" /\ status' = "open"
        /\ UNCHANGED <<mode, hits, misses, reads, served, observer>>
    BY <2>1 DEF Begin, counters, config
  <2>3. hits \in Nat /\ reads \in Nat /\ served \in Nat
    BY <1>1 DEF TypeOK
  <2>4. Follows(pc[t], "loop")
    BY <1>1, <2>2, <2>3 DEF Follows, One, Early, Counted
  <2>5. CountersBalance'
    BY <1>1, <2>2, <2>3, <2>4, Balanced DEF CountInv
  <2>6. QED
    BY <1>1, <2>2, <2>5, SnapshotStays DEF CountInv
<1>8. CASE Stats
  BY <1>8, StatsStep
<1>9. CASE Stopped \/ UNCHANGED vars
  <2>1. UNCHANGED <<status, mode, counters, pc, served, observer>>
    BY <1>9 DEF Stopped, vars, afterStatus, config
  <2>2. CASE status = "unopened"
    BY <2>1, <2>2, BalanceStays DEF CountInv, SnapshotInv, SnapshotOrdered, observer, counters
  <2>3. QED
    BY <1>2, <2>1, <2>2
<1>10. QED
  BY <1>3, <1>4, <1>5, <1>6, <1>7, <1>8, <1>9 DEF Next

\* The invariant of the counters holds in every state (row_store.cpp:51, 103-122).
THEOREM CountInvariance == Spec => []CountInv
  BY InitCount, NextCount, Invariance, PTL DEF Spec

\* The counters account for every row delivered, for any number of threads
\* and any interleaving (row_store.cpp:51, 103, 107).
THEOREM CountersAccount == Spec => []CountersBalance
<1>1. CountInv => CountersBalance
  BY DEF CountInv
<1>2. QED
  BY <1>1, CountInvariance, PTL

\* A snapshot never shows a miss without its two reads, although lookups run
\* between the loads (row_store.cpp:119-122).
THEOREM SnapshotsOrdered == Spec => []SnapshotOrdered
<1>1. CountInv => SnapshotOrdered
  BY DEF CountInv, SnapshotInv
<1>2. QED
  BY <1>1, CountInvariance, PTL
-----------------------------------------------------------------------------
(* The store implements ExactLookup                                        *)

\* The initial state is one of the abstract specification.
LEMMA RefineInit == Init => Abstract!Init
  BY DEF Init, Abstract!Init

\* A returning lookup delivers, position by position, the exact rows.
LEMMA RefineReturn ==
  ASSUME IInv, NEW t \in Threads, Return(t)
  PROVE  Abstract!Return(t)
<1> USE DEF IInv, TypeOK
<1>1. /\ status = "open" /\ pc[t] = "loop" /\ pc' = [pc EXCEPT ![t] = "idle"]
      /\ UNCHANGED <<status, rowLo, rowHi, ids, out>>
      /\ next[t] > Len(ids[t])
  BY DEF Return, Goto, config
<1>2. \A p \in 1..Len(ids[t]) : ids[t][p] \in RowIds /\ out[t][p] = Expected(ids[t][p])
  <2>1. ASSUME NEW p \in 1..Len(ids[t]) PROVE p \in 1..(next[t] - 1)
    BY <1>1
  <2>2. QED
    BY <2>1 DEF PassedInv, OutputExact
<1>3. out[t] = [p \in 1..Len(ids[t]) |-> Abstract!Exact([lo |-> rowLo, hi |-> rowHi], ids[t][p])]
  <2>1. out[t] \in Seq(Row) /\ Len(out[t]) = Len(ids[t])
    BY DEF PositionInv
  <2>2. \A id : Expected(id) = Abstract!Exact([lo |-> rowLo, hi |-> rowHi], id)
    BY DEF Expected, Owned, Abstract!Exact, ZeroRow, Abstract!ZeroRow, Fields
  <2>3. out[t] = [p \in 1..Len(ids[t]) |-> Expected(ids[t][p])]
    BY ONLY <1>2, <2>1
  <2>4. QED
    BY ONLY <2>2, <2>3
<1>4. QED
  BY <1>1, <1>2, <1>3 DEF Abstract!Return, RowIds

\* A step of a thread is a return, a halt or invisible.
LEMMA RefineStep ==
  ASSUME IInv, NEW t \in Threads, Step(t)
  PROVE  Abstract!Return(t) \/ Abstract!Halt \/ UNCHANGED Abstract!vars
<1> USE DEF IInv, TypeOK
<1>1. CASE Return(t)
  BY <1>1, RefineReturn
<1>2. CASE Reject(t) \/ ReadFails(t)
  BY <1>2 DEF Reject, ReadFails, Halt, afterStatus, config, Abstract!Halt
<1>3. ASSUME ~Return(t), ~Reject(t), ~ReadFails(t)
      PROVE  /\ status' = status /\ pc[t] # "idle" /\ pc'[t] # "idle"
  BY <1>3 DEF Step, Foreign, Lock, Probe, Copy, CountHit, Read, CountMiss, Fill,
           SetKey, Unlock, Emit, Deliver, Goto, AtId
<1>4. QED
  BY <1>1, <1>2, <1>3, StepFrame DEF Abstract!vars

\* Every step is an abstract step or invisible.
LEMMA RefineNext == IInv /\ [Next]_vars => [Abstract!Next]_(Abstract!vars)
<1> SUFFICES ASSUME IInv, [Next]_vars PROVE [Abstract!Next]_(Abstract!vars)
  OBVIOUS
<1> USE DEF IInv, TypeOK
<1>1. ASSUME NEW how, Halt(how), status \in {"unopened", "open"},
             how \notin {"unopened", "open"}
      PROVE  Abstract!Halt
  BY <1>1 DEF Halt, afterStatus, config, Abstract!Halt
<1>2. CASE OpenFails \/ Close
  BY <1>1, <1>2 DEF OpenFails, Close, Abstract!Next
<1>3. ASSUME NEW lo \in 0..Rows, NEW hi \in 0..Rows, rowLo' = lo, rowHi' = hi,
             calls = 0, status \in {"unopened", "open"}, status' = "open",
             UNCHANGED <<pc, ids, out>>
      PROVE  Abstract!Claim(lo, hi)
  BY <1>3 DEF FreshInv, Abstract!Claim
<1>4. CASE \E m \in {"nvme", "ram"}, budget \in Budgets : Open(m, budget)
  BY <1>3, <1>4, RowsAssumption DEF Open, FreshInv, Abstract!Next
<1>5. CASE \E range \in Ranges : SetRange(range.lo, range.hi)
  <2>1. PICK range \in Ranges : SetRange(range.lo, range.hi)
    BY <1>5
  <2>2. CASE Halt("aborted")
    BY <1>1, <2>1, <2>2 DEF SetRange, Abstract!Next
  <2>3. CASE ~Halt("aborted")
    BY <1>3, <2>1, <2>3, RangesAssumption, RowsAssumption DEF SetRange, Abstract!Next
  <2>4. QED
    BY <2>2, <2>3
<1>6. CASE \E t \in Threads : Step(t)
  BY <1>6, RefineStep DEF Abstract!Next
<1>7. CASE \E t \in Threads : \E work \in Works : Begin(t, work)
  <2>1. PICK t \in Threads, work \in Works : Begin(t, work)
    BY <1>7
  <2>2. Abstract!Begin(t, work)
    BY <2>1 DEF Begin, config, Abstract!Begin
  <2>3. QED
    BY <2>2 DEF Abstract!Next
<1>8. CASE Stats \/ Stopped \/ UNCHANGED vars
  BY <1>8 DEF Stats, Load, Stopped, vars, afterStatus, config, Abstract!vars
<1>9. QED
  BY <1>2, <1>4, <1>5, <1>6, <1>7, <1>8 DEF Next

\* The store implements its abstract specification, for every request and
\* every number of callers, slots and locks.
THEOREM Refinement == Spec => ImplementsExactLookup
<1>1. Spec => Abstract!Init /\ [][Abstract!Next]_(Abstract!vars)
  BY RefineInit, RefineNext, Invariance, PTL DEF Spec
<1>2. QED
  BY <1>1 DEF ImplementsExactLookup, Abstract!Spec
-----------------------------------------------------------------------------
(* Waiting                                                                 *)

\* A lock is held by nobody but a thread that works on one of its slots.
HeldInv ==
  \A t \in Threads, l \in 0..(NumLocks - 1) :
    locks[l] = t => pc[t] \in Holding /\ LockOf(Id(t)) = l

\* A thread at a row whose stripe another thread has locked.
Waits(t) == AtId(t) /\ Id(t) \in RowIds /\ Owned(Id(t)) /\ locks[LockOf(Id(t))] # NoThread

\* Who waits holds no lock, and waits for a thread that does not wait itself:
\* waits cannot form a circle, nor a chain of more than one link.
WaitsForRunning ==
  \A t \in Threads : Waits(t) =>
    /\ \A l \in 0..(NumLocks - 1) : locks[l] # t
    /\ locks[LockOf(Id(t))] \in Threads
    /\ pc[locks[LockOf(Id(t))]] \in Holding /\ ~Waits(locks[LockOf(Id(t))])

\* A slot changes only under its lock: the thread that changes it fills that
\* very slot and holds the stripe.
ChangedUnderLock ==
  status = "open" =>
    \A k \in 0..(slots - 1) : cache'[k] # cache[k] \/ keys'[k] # keys[k] =>
      \E t \in Threads : /\ pc[t] \in {"fillW", "fillS", "key"} /\ SlotOf(Id(t)) = k
                         /\ locks[k % NumLocks] = t

\* A step of a thread takes a free lock for itself, gives its own back, or
\* leaves the locks alone.
LEMMA HeldStep ==
  ASSUME IInv, HeldInv, NEW t \in Threads, Step(t)
  PROVE  HeldInv'
<1> DEFINE L(u) == LockOf(Id(u))
<1>1. \A u \in Threads, l \in 0..(NumLocks - 1) : locks[l] = u => pc[u] \in Holding /\ L(u) = l
  BY DEF HeldInv
<1>2. \A u \in Threads \ {t} : pc'[u] = pc[u] /\ L(u)' = L(u)
  BY StepFrame DEF LockOf, SlotOf, Id
<1>3. next' = next => L(t)' = L(t)
  BY StepFrame DEF LockOf, SlotOf, Id
<1> HIDE DEF L
<1> SUFFICES \A u \in Threads, l \in 0..(NumLocks - 1) :
               locks'[l] = u => pc'[u] \in Holding /\ L(u)' = l
  BY DEF HeldInv, L
<1> USE DEF Holding, Steps
<1>4. ASSUME locks' = locks,
             pc[t] \notin Holding \/ (pc'[t] \in Holding /\ next' = next)
      PROVE  \A u \in Threads, l \in 0..(NumLocks - 1) :
               locks'[l] = u => pc'[u] \in Holding /\ L(u)' = l
  <2> SUFFICES ASSUME NEW u \in Threads, NEW l \in 0..(NumLocks - 1), locks[l] = u
               PROVE  pc'[u] \in Holding /\ L(u)' = l
    BY <1>4
  <2>1. CASE u = t
    BY <1>1, <1>3, <1>4, <2>1
  <2>2. CASE u # t
    BY <1>1, <1>2, <2>2
  <2>3. QED
    BY <2>1, <2>2
<1>5. CASE Return(t) \/ Foreign(t) \/ Emit(t)
  BY <1>4, <1>5 DEF Return, Foreign, Emit, Deliver, Goto, IInv, TypeOK
<1>6. CASE Reject(t) \/ ReadFails(t)
  <2>1. UNCHANGED <<locks, pc, next>>
    BY <1>6 DEF Reject, ReadFails, Halt, afterStatus
  <2>2. QED
    BY <1>4, <2>1
<1>7. CASE Lock(t)
  <2>1. /\ locks' = [locks EXCEPT ![L(t)] = t] /\ next' = next
        /\ pc[t] \notin Holding /\ pc'[t] \in Holding
    BY <1>7 DEF Lock, AtId, Goto, L, IInv, TypeOK
  <2> SUFFICES ASSUME NEW u \in Threads, NEW l \in 0..(NumLocks - 1), locks'[l] = u
               PROVE  pc'[u] \in Holding /\ L(u)' = l
    OBVIOUS
  <2>2. locks'[l] = IF l = L(t) THEN t ELSE locks[l]
    BY <2>1 DEF IInv, TypeOK
  <2>3. CASE l = L(t)
    BY <1>3, <2>1, <2>2, <2>3
  <2>4. CASE l # L(t)
    BY <1>1, <1>2, <2>1, <2>2, <2>4, LocksAssumption
  <2>5. QED
    BY <2>3, <2>4
<1>8. CASE \/ Probe(t) \/ CountHit(t) \/ SetKey(t)
  BY <1>4, <1>8 DEF Probe, CountHit, SetKey, Goto, IInv, TypeOK
<1>9. CASE Copy(t, "w", "copyW", "copyS") \/ Copy(t, "s", "copyS", "hit")
  BY <1>4, <1>9 DEF Copy, Goto, IInv, TypeOK
<1>10. CASE Read(t, "w", "readW", "readS") \/ Read(t, "s", "readS", "miss")
  BY <1>4, <1>10 DEF Read, Goto, IInv, TypeOK
<1>11. CASE CountMiss(t)
  BY <1>4, <1>11 DEF CountMiss, Goto, IInv, TypeOK
<1>12. CASE Fill(t, "w", "fillW", "fillS") \/ Fill(t, "s", "fillS", "key")
  BY <1>4, <1>12 DEF Fill, Goto, IInv, TypeOK
<1>13. CASE Unlock(t)
  <2>1. locks' = [locks EXCEPT ![L(t)] = NoThread]
    BY <1>13 DEF Unlock, L
  <2> SUFFICES ASSUME NEW u \in Threads, NEW l \in 0..(NumLocks - 1), locks'[l] = u
               PROVE  pc'[u] \in Holding /\ L(u)' = l
    OBVIOUS
  <2>2. locks[l] = u /\ l # L(t)
    BY <2>1, LocksAssumption DEF IInv, TypeOK
  <2>3. QED
    BY <1>1, <1>2, <2>2
<1>14. QED
  BY <1>5, <1>6, <1>7, <1>8, <1>9, <1>10, <1>11, <1>12, <1>13 DEF Step

\* A step that moves no thread past its lock keeps the holders.
LEMMA HeldStays ==
  ASSUME IInv, HeldInv, locks' = locks,
         \A u \in Threads : pc[u] \in Holding =>
           pc'[u] = pc[u] /\ ids'[u] = ids[u] /\ next'[u] = next[u] /\ slots' = slots
  PROVE  HeldInv'
  BY DEF HeldInv, LockOf, SlotOf, Id

\* Every step of the store keeps the holders.
LEMMA HeldNext == IInv /\ HeldInv /\ [Next]_vars => HeldInv'
<1> SUFFICES ASSUME IInv, HeldInv, [Next]_vars PROVE HeldInv'
  OBVIOUS
<1>1. ASSUME UNCHANGED <<locks, slots, pc, ids, next>> PROVE HeldInv'
  BY <1>1, HeldStays
<1>2. CASE OpenFails \/ Close \/ Stats \/ Stopped \/ UNCHANGED vars
  BY <1>1, <1>2 DEF OpenFails, Close, Stats, Load, Stopped, Halt, vars, afterStatus, config
<1>3. CASE \E m \in {"nvme", "ram"}, budget \in Budgets : Open(m, budget)
  <2>1. \A u \in Threads : pc[u] \notin Holding
    BY <1>3 DEF Open, IInv, FreshInv, Holding
  <2>2. QED
    BY <1>3, <2>1, HeldStays DEF Open
<1>4. CASE \E range \in Ranges : SetRange(range.lo, range.hi)
  BY <1>1, <1>4 DEF SetRange, Halt, afterStatus, config
<1>5. CASE \E t \in Threads : Step(t)
  BY <1>5, HeldStep
<1>6. CASE \E t \in Threads : \E work \in Works : Begin(t, work)
  <2>1. PICK t \in Threads, work \in Works : Begin(t, work)
    BY <1>6
  <2>2. pc[t] \notin Holding /\ locks' = locks /\ slots' = slots
    BY <2>1 DEF Begin, Holding, config
  <2>3. \A u \in Threads : u # t => pc'[u] = pc[u] /\ ids'[u] = ids[u] /\ next'[u] = next[u]
    BY <2>1 DEF Begin, IInv, TypeOK
  <2>4. QED
    BY <2>2, <2>3, HeldStays
<1>7. QED
  BY <1>2, <1>3, <1>4, <1>5, <1>6 DEF Next

\* Every lock has the holder it should have, in every state.
THEOREM HeldInvariance == Spec => []HeldInv
<1>1. Init => HeldInv
  BY LocksAssumption DEF Init, HeldInv
<1>2. QED
  BY <1>1, HeldNext, Invariance, PTL DEF Spec

\* No order in which the callers take the striped locks lets two wait for each
\* other: the safety part of LookupsReturn, for any number of threads and locks
\* (row_store.cpp:100).
THEOREM NoCircularWait == Spec => []WaitsForRunning
<1>1. IInv /\ HeldInv => WaitsForRunning
  <2> SUFFICES ASSUME IInv, HeldInv, NEW t \in Threads, Waits(t)
               PROVE  /\ \A l \in 0..(NumLocks - 1) : locks[l] # t
                      /\ locks[LockOf(Id(t))] \in Threads
                      /\ pc[locks[LockOf(Id(t))]] \in Holding
                      /\ ~Waits(locks[LockOf(Id(t))])
    BY DEF WaitsForRunning
  <2>1. pc[t] = "loop" /\ LockOf(Id(t)) \in 0..(NumLocks - 1) /\ locks[LockOf(Id(t))] # NoThread
    BY StripeType DEF Waits, AtId, IInv, TypeOK
  <2>2. \A u \in Threads, l \in 0..(NumLocks - 1) : locks[l] = u => pc[u] \in Holding
    BY DEF HeldInv
  <2>3. \A l \in 0..(NumLocks - 1) : locks[l] # t
    BY <2>1, <2>2, LocksAssumption DEF Holding
  <2>4. pc[locks[LockOf(Id(t))]] \in Holding /\ locks[LockOf(Id(t))] \in Threads
    BY <2>1, <2>2 DEF IInv, TypeOK
  <2>5. ~Waits(locks[LockOf(Id(t))])
    BY <2>4 DEF Waits, AtId, Holding
  <2>6. QED
    BY <2>3, <2>4, <2>5
<1>2. QED
  BY <1>1, HeldInvariance, Invariance, PTL

\* Nothing but its filler, under its stripe, ever changes a slot of an open
\* store (row_store.cpp:108-111).
THEOREM SlotsUnderLock == Spec => [][ChangedUnderLock]_vars
<1>1. IInv /\ [Next]_vars => [ChangedUnderLock]_vars
  <2> SUFFICES ASSUME IInv, [Next]_vars, status = "open", NEW k \in 0..(slots - 1),
                      cache'[k] # cache[k] \/ keys'[k] # keys[k]
               PROVE  \E t \in Threads : /\ pc[t] \in {"fillW", "fillS", "key"}
                                         /\ SlotOf(Id(t)) = k /\ locks[k % NumLocks] = t
    BY DEF ChangedUnderLock
  <2>1. \E t \in Threads : Step(t)
    BY DEF Next, OpenFails, Open, SetRange, Close, Begin, Stats, Load, Stopped, Halt, vars, afterStatus
  <2>2. PICK t \in Threads : Step(t)
    BY <2>1
  <2>3. pc[t] \in {"fillW", "fillS", "key"} /\ SlotOf(Id(t)) = k
    BY <2>2, CacheFrame
  <2>4. locks[LockOf(Id(t))] = t
    BY <2>3 DEF IInv, LockInv, Holding, Steps
  <2>5. QED
    BY <2>3, <2>4 DEF LockOf
<1>2. QED
  BY <1>1, Invariance, PTL DEF Spec
-----------------------------------------------------------------------------
(* Direct reads, for every page size, word size, block length up to a page, *)
(* file size and table offset                                              *)

\* A bound on a quotient is a bound on the dividend.
LEMMA DivBound ==
  ASSUME NEW a \in Int, NEW n \in Int, n > 0, NEW k \in Int, k <= a \div n
  PROVE  k * n <= a
  BY SMT

\* A multiple leaves no remainder.
LEMMA ModOfMultiple ==
  ASSUME NEW q \in Int, NEW n \in Int, n > 0
  PROVE  (q * n) % n = 0
  BY SMT

\* The window of a block no longer than a page: its start is the boundary of
\* the page the block begins in.
LEMMA StartLemma ==
  ASSUME NEW o \in Nat
  PROVE  /\ WindowStart(o) \in Nat /\ WindowStart(o) % Page = 0
         /\ o - WindowStart(o) \in 0..(Page - 1)
<1>1. Page \in Int /\ Page > 0
  BY PageAssumption
<1>2. WindowStart(o) = (o \div Page) * Page /\ o \div Page \in Int
  BY <1>1, SMT DEF WindowStart
<1>3. WindowStart(o) % Page = 0
  BY <1>1, <1>2, ModOfMultiple
<1>4. o - WindowStart(o) \in 0..(Page - 1)
  BY <1>1, SMT DEF WindowStart
<1>5. WindowStart(o) \in Nat
  BY <1>1, <1>2, SMT
<1>6. QED
  BY <1>3, <1>4, <1>5

\* It is whole pages, covers the block and fits two pages.
LEMMA PagesLemma ==
  ASSUME NEW d \in 0..(Page - 1), NEW n \in 1..Page
  PROVE  /\ Pages(d, n) \in Nat /\ Pages(d, n) % Page = 0
         /\ d + n <= Pages(d, n) /\ Pages(d, n) <= 2 * Page
<1>1. Page \in Int /\ Page > 0
  BY PageAssumption
<1> DEFINE a == d + n
<1>2. a \in Int /\ a >= 1 /\ a <= 2 * Page - 1
  BY <1>1
<1>3. Pages(d, n) = ((a + Page - 1) \div Page) * Page /\ (a + Page - 1) \div Page \in Int
  BY <1>1, SMT DEF Pages
<1> HIDE DEF a
<1>4. Pages(d, n) % Page = 0
  BY <1>1, <1>3, ModOfMultiple
<1>5. a <= Pages(d, n) /\ Pages(d, n) <= 2 * Page
  BY <1>1, <1>2, <1>3, SMT
<1>6. Pages(d, n) \in Int
  BY <1>1, <1>3
<1>7. QED
  BY <1>2, <1>4, <1>5, <1>6 DEF a

\* A table that passed the extent check lies inside the file.
LEMMA ExtentLemma ==
  ASSUME NEW count \in 0..(Word - 1), NEW soff \in 0..(Word - 1), NEW n \in 1..Page,
         size \in 0..(Word - 1), Extent(count, soff, n)
  PROVE  soff + count * n <= size
<1>1. n \in Int /\ n > 0 /\ Word \in Int /\ Word > 0
  BY PageAssumption, WordAssumption
<1>2. size - soff \in 0..(Word - 1)
  BY <1>1 DEF Extent
<1>3. Minus(size, soff) = size - soff
  BY <1>1, <1>2, SMT DEF Minus
<1>4. count <= (size - soff) \div n
  BY <1>3 DEF Extent
<1>5. count * n <= size - soff
  BY <1>1, <1>2, <1>4, DivBound
<1>6. QED
  BY <1>1, <1>5, SMT
-----------------------------------------------------------------------------
\* Both tables of an open file lie inside it, and so does the block of every
\* read, whose window is the one the code computes.
ReadInv ==
  /\ DirectTypeOK
  /\ phase \in {"open", "reading", "done"} =>
       \A block \in Block : start[block] + rows * Length(block) <= size
  /\ phase \in {"reading", "done"} =>
       /\ length \in 1..Page /\ offset + length <= size /\ offset = wanted
       /\ base % Page = 0 /\ delta \in 0..(Page - 1) /\ offset = base + delta
       /\ requested = Pages(delta, length)
  /\ SliceExact

\* The invariant holds before the table is opened.
LEMMA ReadInvInit == DirectInit => ReadInv
  BY InputsAssumption, WordAssumption DEF DirectInit, ReadInv, DirectTypeOK, SliceExact, Block

\* Opening keeps it: both tables passed the extent check.
LEMMA OpenKeeps ==
  ASSUME ReadInv, NEW count \in RowCounts, NEW woff \in Offsets, NEW soff \in Offsets,
         OpenTable(count, woff, soff)
  PROVE  ReadInv'
<1>1. DirectTypeOK'
  BY DEF OpenTable, ReadInv, DirectTypeOK, Block, arguments, window
<1>2. phase' = "open" => \A block \in Block : start'[block] + rows' * Length(block) <= size'
  <2>1. SUFFICES ASSUME phase' = "open"
                 PROVE  /\ woff + count * WeightBytes <= size
                        /\ soff + count * ScaleBytes <= size
    BY DEF OpenTable, Length, Block
  <2>2. Extent(count, woff, WeightBytes) /\ Extent(count, soff, ScaleBytes)
    BY <2>1 DEF OpenTable
  <2>3. /\ count \in 0..(Word - 1) /\ woff \in 0..(Word - 1) /\ soff \in 0..(Word - 1)
        /\ size \in 0..(Word - 1)
    BY InputsAssumption DEF ReadInv, DirectTypeOK
  <2>4. QED
    BY <2>2, <2>3, LengthAssumption, ExtentLemma
<1>3. phase' \in {"open", "aborted"}
  BY DEF OpenTable
<1>4. QED
  BY <1>1, <1>2, <1>3 DEF ReadInv, SliceExact

\* Computing a window keeps it.
LEMMA ReadKeeps ==
  ASSUME ReadInv, NEW id \in 0..(rows - 1), NEW block \in Block, ReadBytes(id, block)
  PROVE  ReadInv'
<1> DEFINE n == Length(block)
           o == start[block] + id * n
<1>1. n \in 1..Page /\ n \in Nat
  BY LengthAssumption, PageAssumption DEF Length
<1>2. rows \in Nat /\ start[block] \in Nat /\ size \in Nat
  <2>1. /\ rows \in RowCounts \cup {0} /\ start[block] \in Offsets \cup {0}
        /\ size \in FileSizes
    BY DEF ReadInv, DirectTypeOK
  <2>2. RowCounts \subseteq Nat /\ Offsets \subseteq Nat /\ FileSizes \subseteq Nat
    BY InputsAssumption, WordAssumption
  <2>3. 0 \in Nat
    OBVIOUS
  <2>4. QED
    BY ONLY <2>1, <2>2, <2>3, Zenon
<1>3. start[block] + rows * n <= size
  BY DEF ReadInv, ReadBytes
<1>4. o \in Nat /\ o + n <= size
  <2>1. id \in Nat /\ id + 1 <= rows
    BY <1>2
  <2> HIDE DEF n
  <2>2. (id + 1) * n <= rows * n /\ id * n \in Nat /\ (id + 1) * n = id * n + n
    BY <1>1, <1>2, <2>1, SMT
  <2>3. rows * n \in Nat
    BY <1>1, <1>2
  <2>4. QED
    BY <1>1, <1>2, <1>3, <2>2, <2>3
<1>w. wanted' = o /\ offset' = o % Word
  BY DEF ReadBytes
<1>m. o % Word = o /\ o \in 0..(Word - 1)
  <2>1. size \in FileSizes /\ FileSizes \subseteq 0..(Word - 1)
    BY InputsAssumption DEF ReadInv, DirectTypeOK
  <2>2. size \in 0..(Word - 1)
    BY ONLY <2>1, Zenon
  <2> HIDE DEF o, n
  <2>3. QED
    BY <1>1, <1>4, <2>2, WordAssumption, SMT
<1>5. /\ wanted' = o /\ offset' = o /\ length' = n /\ base' = WindowStart(o)
      /\ delta' = o - WindowStart(o) /\ requested' = Pages(o - WindowStart(o), n)
      /\ phase' = "reading" /\ UNCHANGED <<size, start, rows>>
  BY <1>w, <1>m DEF ReadBytes
<1> HIDE DEF n, o
<1>6. /\ base' \in Nat /\ base' % Page = 0 /\ delta' \in 0..(Page - 1) /\ offset' = base' + delta'
  BY <1>4, <1>5, StartLemma
<1>7. requested' \in Nat
  BY <1>1, <1>5, <1>6, PagesLemma
<1>8. delta' \in Nat
  BY <1>6, PageAssumption
<1>9. DirectTypeOK'
  BY <1>1, <1>4, <1>m, <1>5, <1>6, <1>7, <1>8 DEF ReadInv, DirectTypeOK
<1>10. QED
  BY <1>1, <1>4, <1>5, <1>6, <1>9 DEF ReadInv, SliceExact, ReadBytes

\* The answer of the kernel keeps it: what is copied was delivered.
LEMMA PreadKeeps ==
  ASSUME ReadInv, NEW got \in -1..Available, Pread(got)
  PROVE  ReadInv'
<1>1. /\ phase = "reading" /\ phase' \in {"done", "aborted"}
      /\ UNCHANGED <<size, start, rows, arguments, window, wanted>>
  BY DEF Pread
<1>2. SliceExact'
  <2>1. SUFFICES ASSUME phase' = "done"
                 PROVE  copied' = [j \in 0..(length - 1) |-> wanted + j]
    BY <1>1 DEF SliceExact, arguments
  <2>2. /\ delta + length <= got
        /\ copied' = [j \in 0..(length - 1) |->
                     IF delta + j < got THEN base + delta + j ELSE Garbage]
    BY <1>1, <2>1 DEF Pread, Available, ReadInv, DirectTypeOK
  <2>3. /\ length \in Int /\ delta \in Int /\ base \in Int /\ wanted = base + delta
        /\ got \in Int
    BY <1>1, PageAssumption DEF ReadInv, DirectTypeOK
  <2>4. \A j \in 0..(length - 1) : delta + j < got /\ base + delta + j = wanted + j
    BY <2>2, <2>3
  <2>5. QED
    BY <2>2, <2>4
<1>3. QED
  BY <1>1, <1>2 DEF ReadInv, DirectTypeOK, arguments, window

\* Every step keeps it.
LEMMA ReadInvNext == ReadInv /\ [DirectNext]_directVars => ReadInv'
<1> SUFFICES ASSUME ReadInv, [DirectNext]_directVars PROVE ReadInv'
  OBVIOUS
<1>1. CASE DirectStopped \/ UNCHANGED directVars
  BY <1>1 DEF DirectStopped, directVars, arguments, window, ReadInv, DirectTypeOK, SliceExact
<1>2. CASE \E count \in RowCounts, woff, soff \in Offsets : OpenTable(count, woff, soff)
  BY <1>2, OpenKeeps
<1>3. CASE \E id \in 0..(rows - 1), block \in Block : ReadBytes(id, block)
  BY <1>3, ReadKeeps
<1>4. CASE \E got \in -1..Available : Pread(got)
  BY <1>4, PreadKeeps
<1>5. QED
  BY <1>1, <1>2, <1>3, <1>4 DEF DirectNext

\* The invariant holds in every reachable state.
THEOREM ReadInvariance == DirectSpec => []ReadInv
  BY ReadInvInit, ReadInvNext, PTL DEF DirectSpec
-----------------------------------------------------------------------------
\* Every variable keeps its type.
THEOREM ReadTypes == DirectSpec => []DirectTypeOK
<1>1. ReadInv => DirectTypeOK
  BY DEF ReadInv
<1>2. QED
  BY <1>1, ReadInvariance, PTL

\* The direct-read window is legal, covers the block and fits the stack
\* buffer, wherever the table starts (row_store.cpp:43-46).
THEOREM Windows == DirectSpec => []WindowLegal
<1>1. ReadInv => WindowLegal
  BY PagesLemma DEF ReadInv, WindowLegal
<1>2. QED
  BY <1>1, ReadInvariance, PTL

\* A block that is copied out is exact, however little the kernel delivers
\* (row_store.cpp:47-50).
THEOREM Slices == DirectSpec => []SliceExact
<1>1. ReadInv => SliceExact
  BY DEF ReadInv
<1>2. QED
  BY <1>1, ReadInvariance, PTL

\* No read of an accepted table fails by itself (row_store.cpp:49, 62-64).
THEOREM Satisfiable == DirectSpec => []ReadSatisfiable
<1>1. ReadInv => ReadSatisfiable
  <2>1. SUFFICES ASSUME ReadInv, phase = "reading" PROVE delta + length <= Available
    BY DEF ReadSatisfiable
  <2>2. /\ length \in 1..Page /\ offset + length <= size /\ delta \in 0..(Page - 1)
        /\ offset = base + delta /\ requested = Pages(delta, length)
    BY <2>1 DEF ReadInv
  <2>3. delta + length <= requested
    BY <2>2, PagesLemma
  <2>4. size \in Int /\ base \in Nat /\ requested \in Nat
    BY <2>1, InputsAssumption DEF ReadInv, DirectTypeOK
  <2>5. QED
    BY <2>2, <2>3, <2>4, PageAssumption DEF Available
<1>2. QED
  BY <1>1, ReadInvariance, PTL
=============================================================================
