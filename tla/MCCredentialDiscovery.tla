----------------------- MODULE MCCredentialDiscovery -----------------------
(* A small instance of CredentialDiscovery for TLC. *)
EXTENDS CredentialDiscovery

CONSTANTS r1, r2, a1

MCTwo == {r1, r2}
\* The account's plan changes with its first new bearer.
MCOffered == [k \in Keys |-> IF k[2] = 0 THEN {"small", "empty"} ELSE {"other"}]
MCSize == [m \in Catalogs |-> IF m = "other" THEN 2 ELSE 1]
=============================================================================
