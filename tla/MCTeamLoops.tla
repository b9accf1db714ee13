---------------------------- MODULE MCTeamLoops ----------------------------
(* A graph in which every rule of the loops meets every other: a worker    *)
(* that uses another, a verifier of both, and a summarizer that reports on *)
(* a worker and on the verifier.                                           *)
EXTENDS TeamLoops

LadderTasks == {"coding", "docs", "verify", "report"}
LadderDeps  == [coding |-> {}, docs |-> {"coding"}, verify |-> {"coding", "docs"},
                report |-> {"docs", "verify"}]
LadderRole  == [coding |-> "worker", docs |-> "worker", verify |-> "verifier",
                report |-> "summarizer"]

\* The rows in the order of their creation, and the other way round.
TwoOrders == {<<"coding", "docs", "verify", "report">>, <<"report", "verify", "docs", "coding">>}
TwoCauses == {{}, {"coding", "verify"}}
=============================================================================
