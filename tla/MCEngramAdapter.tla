-------------------------- MODULE MCEngramAdapter --------------------------
(***************************************************************************)
(* EngramAdapter on a table of three rows of which the rank owns two.  The *)
(* requests of three and of four ids share the buffers of capacity four;   *)
(* graphs are captured for a warmed and for a cold capacity.               *)
(***************************************************************************)
EXTENDS EngramAdapter

MCRows == 3
MCTable == [id \in 0..(MCRows - 1) |-> [f \in {"w", "s"} |-> IF f = "w" THEN id + 1 ELSE id + 11]]
MCRanges == {[lo |-> 1, hi |-> 3]}
MCRequests == {<< >>, <<3>>, <<0, 1, 2>>, <<2, 1, 1>>, <<1, 2, 0, 2>>}
MCCounts == {1, 3}
=============================================================================
