--------------------------- MODULE MCModelCatalog ---------------------------
(* A small instance of ModelCatalog for TLC: a Codex provider with two     *)
(* accounts, a plain one and one without discovery.                        *)
EXTENDS ModelCatalog

MCRegistry == <<"codex", "static", "plain">>
MCAccounts == [p \in {"codex", "static", "plain"} |->
                 IF p = "codex" THEN {"a", "b"} ELSE {"a"}]
MCOffered  == [p \in {"codex", "static", "plain"} |->
                 CASE p = "codex"  -> {"m1", "m2"}
                   [] p = "static" -> {"m2"}
                   [] p = "plain"  -> {"m1"}]
=============================================================================
