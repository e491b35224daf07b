---------------------------- MODULE ExactGather ----------------------------
(***************************************************************************)
(* What the adapter promises the model (adapter/engram_backend.py:72-103): *)
(* a call returns at once and its output is filled in later.  The outputs  *)
(* are filled in the order of the calls, each of them once, with the exact *)
(* row of every id of that call; an output that is there never changes.    *)
(* A call that raised gets none, and no call gets one for an id outside    *)
(* the table: the process is aborted first.                                *)
(***************************************************************************)
EXTENDS Integers, Sequences

CONSTANTS
  Rows, Table, Zero,  \* the table, as in ExactLookup
  Ranges,             \* ranges [lo, hi] the rank can own
  Requests,           \* the id sequences a call can have
  Pending, Raised     \* no output yet; the call raised an exception

VARIABLES
  up,    \* the process is alive
  owned, \* the range of ids this rank owns, hi excluded
  calls, \* the ids of each call
  out    \* its output

vars == <<up, owned, calls, out>>

Exact(ids) ==
  [p \in DOMAIN ids |-> IF owned.lo <= ids[p] /\ ids[p] < owned.hi
                        THEN Table[ids[p]] ELSE [f \in {"w", "s"} |-> Zero]]

Init ==
  /\ up = TRUE /\ owned \in Ranges
  /\ calls = << >> /\ out = << >>

\* A call; without ids its output is there at once.
Ask(ids) ==
  /\ up
  /\ calls' = Append(calls, ids)
  /\ \E first \in IF ids = << >> THEN {<< >>} ELSE {Pending, Raised} : out' = Append(out, first)
  /\ UNCHANGED <<up, owned>>

\* Call k has waited for those before it, and gets its rows.
Answer(k) ==
  /\ up
  /\ out[k] = Pending /\ \A j \in 1..(k - 1) : out[j] # Pending
  /\ \A p \in DOMAIN calls[k] : calls[k][p] \in 0..(Rows - 1)
  /\ out' = [out EXCEPT ![k] = Exact(calls[k])]
  /\ UNCHANGED <<up, owned, calls>>

Halt ==
  /\ up
  /\ up' = FALSE
  /\ UNCHANGED <<owned, calls, out>>

Next ==
  \/ \E ids \in Requests : Ask(ids)
  \/ \E k \in DOMAIN calls : Answer(k)
  \/ Halt

Spec == Init /\ [][Next]_vars
=============================================================================
