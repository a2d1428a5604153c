------------------------------- MODULE MCBackend -------------------------------
(* Backend for TLC: two rules, and requests that differ in what a part tells apart. *)
EXTENDS Backend

Quick == [host |-> "a", dur |-> 1, err |-> FALSE, s500 |-> FALSE, n1 |-> FALSE,
          tables |-> {}]
Long == [Quick EXCEPT !.dur = 3, !.err = TRUE]
Failed == [Quick EXCEPT !.host = "b", !.s500 = TRUE, !.n1 = TRUE]
Detailed == [Quick EXCEPT !.tables = Tables]

MCRequests == [p \in Parts |-> CASE p = "minutes" -> {Long, Failed}
                                 [] p = "shelf" -> {Detailed}
                                 [] OTHER -> {Quick}]
MCArrivals == [p \in Parts |-> CASE p = "minutes" -> 3 [] p = "shelf" -> 2 [] OTHER -> 5]
MCMaxMinute == [p \in Parts |-> IF p = "minutes" THEN 4 ELSE 3]
MCRules == {[metric |-> "p95_duration", value |-> 2, cooldown |-> 2],
            [metric |-> "error_rate", value |-> 20, cooldown |-> 1]}

=============================================================================
