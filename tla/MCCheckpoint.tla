--------------------------- MODULE MCCheckpoint ---------------------------
(***************************************************************************)
(* Checkpoint with two files of two blocks, one of which differs between   *)
(* the two revisions; two foreign writes and two containers.               *)
(***************************************************************************)
EXTENDS Checkpoint

MCFiles == {"weights", "index"}
MCBlocks == {"a", "b"}
\* The pinned index, and one that somebody else might put in its place.
MCIndexes == {<<"a", "a">>, <<"a", "b">>}
MCContents == {<<"a", "a">>, <<"a", "b">>, <<"b", "a">>, <<"a">>}
MCRevisions == {"r1", "r2"}
MCExpected ==
  [r \in MCRevisions |-> [f \in MCFiles |->
     IF f = "weights" /\ r = "r2" THEN <<"b", "a">> ELSE <<"a", "a">>]]
=============================================================================
