--------------------------- MODULE MCDirectRead ---------------------------
(***************************************************************************)
(* DirectRead with pages of 8 bytes, rows of 5 and 2 bytes, and 7-bit      *)
(* words: blocks fall inside a page, across two, and at the partial last   *)
(* page; offsets beyond the end make the extent subtraction wrap.          *)
(***************************************************************************)
EXTENDS DirectRead

MCFileSizes == {0, 1, 20, 31, 32, 45}
MCOffsets == {0, 3, 9, 15, 21, 46, 127}
MCRowCounts == {0, 1, 2, 4, 20, 120}
=============================================================================
