---------------------------- MODULE MCAgentTeam ----------------------------
(* Small work graphs for the runs of AgentTeam.  Each has a shape that the *)
(* service treats in a way of its own.                                     *)
EXTENDS AgentTeamProps, AgentTeamBoard

\* A task and its verifier: no summarizer, so any failure is fail-fast.
TwoTasks == {"coding", "verify"}
TwoDeps  == [coding |-> {}, verify |-> {"coding"}]
TwoRole  == [coding |-> "worker", verify |-> "verifier"]
TwoTurn  == [coding |-> 1, verify |-> 2]
TwoMax   == [coding |-> 2, verify |-> 1]

\* Two workers and a third that uses one of them, all verified together.
DeltaTasks == {"tests", "docs", "coding", "verify"}
DeltaDeps  == [tests |-> {}, docs |-> {"tests"}, coding |-> {}, verify |-> {"docs", "coding"}]
DeltaRole  == [tests |-> "worker", docs |-> "worker", coding |-> "worker", verify |-> "verifier"]
DeltaTurn  == [tests |-> 1, docs |-> 2, coding |-> 3, verify |-> 4]
DeltaMax   == [t \in DeltaTasks |-> 1]

\* Two branches, each with a verifier.
TwinTasks == {"api", "checkApi", "web", "checkWeb"}
TwinDeps  == [api |-> {}, checkApi |-> {"api"}, web |-> {}, checkWeb |-> {"web"}]
TwinRole  == [api |-> "worker", checkApi |-> "verifier",
              web |-> "worker", checkWeb |-> "verifier"]
TwinTurn  == [api |-> 1, checkApi |-> 2, web |-> 3, checkWeb |-> 4]
TwinMax   == [t \in TwinTasks |-> 1]
=============================================================================
