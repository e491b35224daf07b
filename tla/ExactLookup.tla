---------------------------- MODULE ExactLookup ----------------------------
(***************************************************************************)
(* What the Engram row store promises its callers, with the cache, the     *)
(* locks and the file reads left out: a lookup that returns has written,   *)
(* for every id of its request, exactly the row of the checkpoint table    *)
(* when this rank owns the id and zeroes when another rank does.  A        *)
(* request with an id outside the table never returns.  The store may die  *)
(* at any moment (the code aborts the process rather than return a wrong   *)
(* row), and then nothing returns any more.                                *)
(***************************************************************************)
EXTENDS Integers, Sequences

CONSTANTS
  Threads,  \* callers of row_store_lookup
  Rows,     \* number of rows of the table
  Table,    \* row id -> the 256-byte weight block and the 8-byte scale block
  Zero,     \* a block of zero bytes
  Works     \* the id lists a caller may pass, each a sequence of int64

VARIABLES
  up,       \* the process serves lookups
  owned,    \* the range of ids this rank owns, hi excluded
  request,  \* thread -> the ids of its current or last request
  busy,     \* thread -> a request is in progress
  reply     \* thread -> the rows of its last finished request

vars == <<up, owned, request, busy, reply>>

ZeroRow == [f \in {"w", "s"} |-> Zero]

\* The row a lookup of id must produce on the rank that owns range.
Exact(range, id) ==
  IF range.lo <= id /\ id < range.hi THEN Table[id] ELSE ZeroRow

Init ==
  /\ up = TRUE
  /\ owned = [lo |-> 0, hi |-> Rows]
  /\ request = [t \in Threads |-> << >>]
  /\ busy = [t \in Threads |-> FALSE]
  /\ reply = [t \in Threads |-> << >>]

\* The constructor narrows the owned range while no lookup is in progress.
Claim(lo, hi) ==
  /\ up
  /\ \A t \in Threads : ~busy[t]
  /\ owned' = [lo |-> lo, hi |-> hi]
  /\ UNCHANGED <<up, request, busy, reply>>

Begin(t, work) ==
  /\ up
  /\ ~busy[t]
  /\ request' = [request EXCEPT ![t] = work]
  /\ busy' = [busy EXCEPT ![t] = TRUE]
  /\ reply' = [reply EXCEPT ![t] = << >>]
  /\ UNCHANGED <<up, owned>>

Return(t) ==
  /\ up
  /\ busy[t]
  /\ \A p \in 1..Len(request[t]) : request[t][p] \in 0..(Rows - 1)
  /\ busy' = [busy EXCEPT ![t] = FALSE]
  /\ reply' = [reply EXCEPT ![t] =
                 [p \in 1..Len(request[t]) |-> Exact(owned, request[t][p])]]
  /\ UNCHANGED <<up, owned, request>>

Halt ==
  /\ up
  /\ up' = FALSE
  /\ UNCHANGED <<owned, request, busy, reply>>

Next ==
  \/ \E lo, hi \in 0..Rows : Claim(lo, hi)
  \/ \E t \in Threads : Return(t) \/ \E work \in Works : Begin(t, work)
  \/ Halt

Spec == Init /\ [][Next]_vars

=============================================================================
