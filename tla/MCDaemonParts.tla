--------------------------- MODULE MCDaemonParts ---------------------------
(* Values for the constants of DaemonParts that a configuration cannot write. *)
EXTENDS DaemonParts

\* A request that may use all accounts.
AllRequested == [r \in Streams |-> PoolAccounts]

\* A large listing leaves room for one small one.
TwoSizes == [l \in {"small", "large"} |-> IF l = "small" THEN 1 ELSE 3]

TwoProviders == [a \in PingAccounts |-> IF a = "first" THEN "codex" ELSE "other codex"]

\* The clock goes back over two scheduled minutes, and comes to one the next day.
ClockBack == [t \in 0..4 |-> IF t = 4 THEN <<2, "07:00">>
                             ELSE <<1, IF t \in {0, 2} THEN "07:00" ELSE "07:01">>]

\* Three models of one priority, the first an account selector.
Tied == {[id |-> i, priority |-> 1, listed |-> TRUE, selector |-> i = 1] : i \in 1..3}
TiedOnly == {Tied}
=============================================================================
