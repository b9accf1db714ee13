--------------------------- MODULE AgentTeamBoard ---------------------------
(* AgentTeam implements TaskBoard: the leases, messages, sandboxes and      *)
(* processes of the service are the means by which tasks are lent.         *)
EXTENDS AgentTeam

Watched == [t \in Tasks |-> IF st[t] = "running" THEN "lent"
                            ELSE IF st[t] \in TerminalTask THEN "done" ELSE "offered"]

Shown == IF IsLive THEN "open" ELSE IF team \in {"cancelled", "expired"} THEN "off" ELSE "closed"

Board == INSTANCE TaskBoard
           WITH Limit <- MaxActive, board <- Shown, round <- gen, work <- Watched, loans <- attempt

(* Every step of the team, its dispatchers and its users is a step of the   *)
(* board, or one that the board does not show.                             *)
ImplementsBoard == Board!Spec
=============================================================================
