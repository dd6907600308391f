--------------------------- MODULE MCOAuthRefresh ---------------------------
(* Small instances of OAuthRefresh for TLC. *)
EXTENDS OAuthRefresh, TLC

CONSTANTS c1, c2

MCOne == {c1}
MCTwo == {c1, c2}
Symmetry == Permutations(Callers)
=============================================================================
