--------------------------- MODULE EngramAdapter ---------------------------
(***************************************************************************)
(* adapter/engram_backend.py, owned: the replacement of the Engram layer's *)
(* row gather on one rank.  A call only enqueues work on the CUDA stream   *)
(* and returns: copy the ids to pinned host memory, run row_store_lookup   *)
(* there as a host callback, copy the rows to the device, gather them into *)
(* the output.  The stream executes what is enqueued later, in order.  The *)
(* pinned and device buffers are shared by all calls whose count rounds up *)
(* to the same power of two, and the Work structure that the callback      *)
(* reads is shared by all calls of the same count, so everything rests on  *)
(* that order and on nothing changing under the callback.                  *)
(*                                                                         *)
(* Under CUDA graph capture a call is recorded instead of enqueued; the    *)
(* runtime replays a recorded call with new ids any number of times.  One  *)
(* stream executes the calls and the replays: the buffers are not keyed by *)
(* stream.                                                                 *)
(*                                                                         *)
(* The store is its abstract specification ExactLookup, which RowStore     *)
(* implements; the callback thread is its only caller here.  What the      *)
(* adapter promises in turn is ExactGather.                                *)
(***************************************************************************)
EXTENDS Integers, Sequences

CONSTANTS
  Rows, Table, Zero,  \* the table, as in ExactLookup
  Ranges,             \* ranges [lo, hi] the rank can own
  Junk,               \* what fresh memory holds, in place of an id or a row
  Pending, Raised,    \* no output yet; the call raised an exception
  Requests,           \* the id sequences the model can ask for
  Counts,             \* the counts the runtime captures graphs for
  Callback,           \* the thread that runs host callbacks
  MaxCalls            \* bound on calls and replays together

ASSUME RequestsAssumption == Requests \subseteq Seq(Int)
ASSUME CountsAssumption == Counts \subseteq Nat \ {0}  \* a call without ids records nothing
ASSUME BoundsAssumption == MaxCalls \in Nat

VARIABLES
  up, owned, request, busy, reply,  \* the row store, see ExactLookup
  pinnedIds, pinnedRows, deviceRows, \* _staging: capacity -> buffers
  works,      \* _works: work key -> [count, capacity]
  stream,     \* the operations enqueued and not yet executed
  capturing,  \* the stream is in graph capture
  recorded,   \* the operations of the capture under way
  graphs,     \* the captured graphs
  calls, out  \* history: the ids of each call or replay; its output

Store == INSTANCE ExactLookup WITH Threads <- {Callback}, Works <- Requests

\* The marks of a missing output are no outputs.
ASSUME MarksAssumption ==
  /\ Pending # Raised
  /\ \A range \in Ranges, ids \in Requests :
       [p \in DOMAIN ids |-> Store!Exact(range, ids[p])] \notin {Pending, Raised}

store == <<up, owned, request, busy, reply>>
staging == <<pinnedIds, pinnedRows, deviceRows>>
graph == <<capturing, recorded, graphs>>
vars == <<store, staging, works, stream, graph, calls, out>>

\* int.bit_length, and 1 << (count - 1).bit_length(): the next power of two.
BitLength(k) == CHOOSE b \in 0..k : k < 2^b /\ (b > 0 => 2^(b - 1) <= k)
Capacity_RoundedDown(count) == 2^(BitLength(count) - 1)  \* mutation
Capacity(count) == 2^BitLength(count - 1)

Init ==
  /\ up = TRUE /\ owned \in Ranges
  /\ request = [t \in {Callback} |-> << >>]
  /\ busy = [t \in {Callback} |-> FALSE]
  /\ reply = [t \in {Callback} |-> << >>]
  /\ pinnedIds = << >> /\ pinnedRows = << >> /\ deviceRows = << >>
  /\ works = << >>
  /\ stream = << >>
  /\ capturing = FALSE /\ recorded = << >> /\ graphs = {}
  /\ calls = << >> /\ out = << >>
-----------------------------------------------------------------------------
(* What a call does at once, on the Python thread                          *)

\* f with k mapped to v, when k is new to it.
IfNew(f, k, v) == [x \in DOMAIN f \cup {k} |-> IF x \in DOMAIN f THEN f[x] ELSE v]

\* torch.empty: buffers of capacity c, once per capacity.
Stage(c) ==
  /\ pinnedIds' = IfNew(pinnedIds, c, [i \in 1..c |-> Junk])
  /\ pinnedRows' = IfNew(pinnedRows, c, [i \in 1..c |-> Junk])
  /\ deviceRows' = IfNew(deviceRows, c, [i \in 1..c |-> Junk])

\* The Work of a call.
WorkKey_Capacity(count) == Capacity(count)  \* mutation: one Work for each capacity
WorkKey(count) == count

Remember(count) ==
  works' = IfNew(works, WorkKey(count), [count |-> count, capacity |-> Capacity(count)])

\* The operations of a call of count ids; the number of the call and its ids
\* are filled in when they are enqueued.
Operation(kind, count) ==
  [kind |-> kind, count |-> count, capacity |-> Capacity(count),
   work |-> WorkKey(count), call |-> 0]

Operations_NoGather(count) ==  \* mutation: the output is never written
  <<Operation("ids", count), Operation("lookup", count), Operation("rows", count)>>
Operations(count) ==
  <<Operation("ids", count), Operation("lookup", count),
    Operation("rows", count), Operation("gather", count)>>

\* Operations enqueued, as call number k.
Enqueue(ops, k) ==
  stream' = stream \o [i \in DOMAIN ops |-> [ops[i] EXCEPT !.call = k]]

\* A call outside a capture.  No id, no work.
Call(ids) ==
  /\ up /\ ~capturing /\ Len(calls) < MaxCalls
  /\ calls' = Append(calls, ids)
  /\ \/ /\ ids = << >>
        /\ out' = Append(out, << >>)
        /\ UNCHANGED <<staging, works, stream>>
     \/ /\ ids # << >>
        /\ out' = Append(out, Pending)
        /\ Stage(Capacity(Len(ids)))
        /\ Remember(Len(ids))
        /\ Enqueue(Operations(Len(ids)), Len(calls) + 1)
  /\ UNCHANGED <<store, graph>>

\* Mutation: the launch is checked when the rest has been enqueued.
CallFails_CheckedLast(ids) ==
  /\ up /\ ~capturing /\ Len(calls) < MaxCalls /\ ids # << >>
  /\ calls' = Append(calls, ids)
  /\ out' = Append(out, Raised)
  /\ Stage(Capacity(Len(ids)))
  /\ Remember(Len(ids))
  /\ Enqueue(<<Operation("ids", Len(ids)), Operation("rows", Len(ids)),
               Operation("gather", Len(ids))>>, Len(calls) + 1)
  /\ UNCHANGED <<store, graph>>
\* cudaLaunchHostFunc fails: the copy of the ids is already enqueued, and the
\* call raises.
CallFails(ids) ==
  /\ up /\ ~capturing /\ Len(calls) < MaxCalls /\ ids # << >>
  /\ calls' = Append(calls, ids)
  /\ out' = Append(out, Raised)
  /\ Stage(Capacity(Len(ids)))
  /\ Remember(Len(ids))
  /\ Enqueue(<<Operation("ids", Len(ids))>>, Len(calls) + 1)
  /\ UNCHANGED <<store, graph>>
-----------------------------------------------------------------------------
(* Graph capture and replay, driven by the runtime (external)              *)

BeginCapture ==
  /\ up /\ ~capturing
  /\ capturing' = TRUE /\ recorded' = << >>
  /\ UNCHANGED <<store, staging, works, stream, graphs, calls, out>>

\* The layer is called once while its graph is captured.  Buffers that were
\* never needed before cannot be allocated now: the call raises, as it does
\* when cudaLaunchHostFunc fails, and the capture is given up.
Record(count) ==
  /\ up /\ capturing /\ recorded = << >>
  /\ \/ /\ Capacity(count) \notin DOMAIN pinnedIds
        /\ capturing' = FALSE
        /\ UNCHANGED <<works, recorded>>
     \/ /\ Capacity(count) \in DOMAIN pinnedIds
        /\ Remember(count)
        /\ \/ recorded' = Operations(count) /\ capturing' = capturing
           \/ recorded' = recorded /\ capturing' = FALSE
  /\ UNCHANGED <<store, staging, stream, graphs, calls, out>>

EndCapture ==
  /\ up /\ capturing /\ recorded # << >>
  /\ capturing' = FALSE /\ recorded' = << >>
  /\ graphs' = graphs \cup {recorded}
  /\ UNCHANGED <<store, staging, works, stream, calls, out>>

\* A replay with new ids in the graph's input.
Replay(ops, ids) ==
  /\ up /\ ~capturing /\ Len(calls) < MaxCalls
  /\ Len(ids) = Head(ops).count
  /\ calls' = Append(calls, ids)
  /\ out' = Append(out, Pending)
  /\ Enqueue(ops, Len(calls) + 1)
  /\ UNCHANGED <<store, staging, works, graph>>
-----------------------------------------------------------------------------
(* What the stream executes later, in order                                *)

\* f with its first n values replaced by those of g.
Overwrite(f, n, g) == [i \in DOMAIN f |-> IF i <= n THEN g[i] ELSE f[i]]

\* The stream is at an operation of this kind.
Executing(kind) == up /\ stream # << >> /\ Head(stream).kind = kind

CopyIds ==
  /\ Executing("ids")
  /\ LET op == Head(stream) IN
       pinnedIds' = [pinnedIds EXCEPT ![op.capacity] = Overwrite(@, op.count, calls[op.call])]
  /\ stream' = Tail(stream)
  /\ UNCHANGED <<store, pinnedRows, deviceRows, works, graph, calls, out>>

\* The callback enters row_store_lookup and reads its Work.
StartLookup ==
  /\ Executing("lookup")
  /\ LET work == works[Head(stream).work] IN
       Store!Begin(Callback, SubSeq(pinnedIds[work.capacity], 1, work.count))
  /\ UNCHANGED <<staging, works, stream, graph, calls, out>>

\* It returns, having written the rows to the pinned buffer of its Work.
FinishLookup ==
  /\ Executing("lookup")
  /\ Store!Return(Callback)
  /\ LET work == works[Head(stream).work] IN
       pinnedRows' = [pinnedRows EXCEPT ![work.capacity] =
                        Overwrite(@, work.count, reply'[Callback])]
  /\ stream' = Tail(stream)
  /\ UNCHANGED <<pinnedIds, deviceRows, works, graph, calls, out>>

\* It aborts the process: an id is outside the table, or a read failed.
LookupAborts ==
  /\ Executing("lookup") /\ busy[Callback]
  /\ Store!Halt
  /\ UNCHANGED <<staging, works, stream, graph, calls, out>>

CopyRows ==
  /\ Executing("rows")
  /\ LET op == Head(stream) IN
       deviceRows' = [deviceRows EXCEPT ![op.capacity] =
                        Overwrite(@, op.count, pinnedRows[op.capacity])]
  /\ stream' = Tail(stream)
  /\ UNCHANGED <<store, pinnedIds, pinnedRows, works, graph, calls, out>>

Gather ==
  /\ Executing("gather")
  /\ LET op == Head(stream) IN
       out' = [out EXCEPT ![op.call] = SubSeq(deviceRows[op.capacity], 1, op.count)]
  /\ stream' = Tail(stream)
  /\ UNCHANGED <<store, staging, works, graph, calls>>

Execute == CopyIds \/ StartLookup \/ FinishLookup \/ LookupAborts \/ CopyRows \/ Gather

\* The process has aborted, or the bound on calls is reached.
Stopped == (~up \/ (Len(calls) = MaxCalls /\ stream = << >>)) /\ UNCHANGED vars

Next ==
  \/ \E ids \in Requests : Call(ids) \/ CallFails(ids)
  \/ BeginCapture \/ EndCapture
  \/ \E count \in Counts : Record(count)
  \/ \E ops \in graphs, ids \in Requests : Replay(ops, ids)
  \/ Execute
  \/ Stopped

Spec == Init /\ [][Next]_vars

\* The stream executes what is enqueued: the device and the callback run, and
\* row_store_lookup returns or aborts (RowStore, LookupsReturn).
FairSpec == Spec /\ WF_vars(Execute)
-----------------------------------------------------------------------------
(* Properties                                                              *)

\* The buffers of a capacity exist together and are as long as it says.
TypeOK ==
  /\ DOMAIN pinnedRows = DOMAIN pinnedIds /\ DOMAIN deviceRows = DOMAIN pinnedIds
  /\ \A c \in DOMAIN pinnedIds : DOMAIN pinnedIds[c] = 1..c
  /\ \A key \in DOMAIN works : works[key].capacity \in DOMAIN pinnedIds
  /\ capturing \in BOOLEAN
  /\ Len(out) = Len(calls)
  /\ \A i \in DOMAIN stream : stream[i].call \in DOMAIN calls

Exact(ids) == [p \in DOMAIN ids |-> Store!Exact(owned, ids[p])]

\* The output of every call and of every replay is, id by id, the exact row:
\* no row of another call that shared the buffers, no row of an earlier
\* replay, none that the lookup had not written yet (engram_backend.py:73-103).
OutputsExact ==
  \A k \in DOMAIN calls : out[k] \notin {Pending, Raised} => out[k] = Exact(calls[k])

\* Everything enqueued or recorded addresses buffers that exist and hold it,
\* and the Work its callback will read still describes that very call; the
\* buffers have the types above.
OperationsFit ==
  /\ TypeOK
  /\ \A ops \in {stream, recorded} \cup graphs : \A i \in DOMAIN ops :
       /\ ops[i].capacity \in DOMAIN pinnedIds /\ ops[i].count <= ops[i].capacity
       /\ works[ops[i].work] = [count |-> ops[i].count, capacity |-> ops[i].capacity]

\* The adapter implements its abstract specification: the outputs come in the
\* order of the calls, each once and exact, and stay (engram_backend.py:72-103).
Gathers == INSTANCE ExactGather
ImplementsExactGather == Gathers!Spec

\* Every call and every replay gets its output, unless the process aborts.
CallsComplete ==
  \A k \in 1..MaxCalls :
    (k \in DOMAIN calls /\ out[k] = Pending)
      ~> (~up \/ (k \in DOMAIN calls /\ out[k] # Pending))
=============================================================================
