---------------------------- MODULE MCPageSplit ----------------------------
(***************************************************************************)
(* PageSplit with pages of two tokens for the kernel: a sliding-window     *)
(* cache of two pages of four tokens, and extra caches whose pages are     *)
(* four or six tokens long (the second needs a longer buffer than the      *)
(* first) or already two.  A token has two data bytes and one scale byte.  *)
(***************************************************************************)
EXTENDS PageSplit

MCPrimaries == {"swa"}
MCExtras == {"ratio1", "ratio2", "ratio4"}
MCPages == [c \in {"swa", "ratio1", "ratio2", "ratio4"} |-> IF c = "swa" THEN 2 ELSE 1]
MCPageSize == [c \in {"swa", "ratio1", "ratio2", "ratio4"} |->
                 CASE c = "ratio2" -> 6 [] c = "ratio4" -> 2 [] OTHER -> 4]
MCIndices == {<< >>, <<1, -1>>, <<3, 0>>, <<5>>}
=============================================================================
