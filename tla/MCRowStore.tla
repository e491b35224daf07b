---------------------------- MODULE MCRowStore ----------------------------
(***************************************************************************)
(* RowStore on a table of four rows, with two callers.  The cache has no   *)
(* slot (a resident table, or a budget one byte short of an entry), one,   *)
(* or three: with three slots and two locks, slots 0 and 2 share a lock    *)
(* and ids 0 and 3 share a slot.  Id 4 and id -1 are outside the table.    *)
(***************************************************************************)
EXTENDS RowStore, TLC

CONSTANTS t1, t2

MCThreads == {t1, t2}
ThreadSymmetry == Permutations(MCThreads)
MCRows == 4
\* Every block differs from every other, so a torn or misplaced row shows.
MCTable == [id \in 0..(MCRows - 1) |-> [w |-> id + 1, s |-> id + 11]]
MCBlocks == (0..20)
MCWorks == {<<0, 3>>, <<3, 2>>, <<1, 4>>, <<-1>>}
MCBudgets == {271, 272, 816}
MCRanges == {[lo |-> 0, hi |-> 3], [lo |-> 1, hi |-> 0], [lo |-> 2, hi |-> 5]}

\* For the liveness run: the colliding ids only.
FewWorks == {<<0, 3>>, <<3>>}
=============================================================================
