----------------------------- MODULE MCApiKey -----------------------------
(***************************************************************************)
(* ApiKey with the launcher and two other processes that call key(), two   *)
(* containers one after the other, with and without an API_KEY.            *)
(***************************************************************************)
EXTENDS ApiKey, TLC

CONSTANTS c1, c2, chosen, other

MCChecks == {c1, c2}
CheckSymmetry == Permutations(MCChecks)
MCSettings == {chosen, other}
=============================================================================
