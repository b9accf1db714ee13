----------------------------- MODULE TeamLoops -----------------------------
(***************************************************************************)
(* The loops of agent_team_service.py whose results module TeamGraph       *)
(* defines as least fixpoints: _promote_dependencies, the cascade of       *)
(* cancel_team_tasks and the closure of _select_retry_tasks.  Each goes    *)
(* over the task rows again and again, changing a row at a time, until a   *)
(* pass changes nothing.  Here a step visits one row, so that what a later *)
(* row sees of an earlier one, and what is left to the next pass, is as in *)
(* the code.                                                               *)
(*                                                                         *)
(* A definition whose name ends in M is a mistake that the code could have *)
(* in place of the definition after it; no other definition uses it.       *)
(***************************************************************************)
EXTENDS TeamGraph, Sequences

CONSTANTS Orders,   \* the orders in which the rows may come
          Causes    \* the failed_tasks a row blocked by fail-fast may carry

ASSUME LoopAssumption ==
  /\ Orders \subseteq [1..Cardinality(Tasks) -> Tasks]
  /\ \A o \in Orders : {o[i] : i \in 1..Cardinality(Tasks)} = Tasks
  /\ Causes \subseteq SUBSET Tasks

VARIABLES loop,    \* which of the three loops runs
          order,   \* the rows, as the query returned them
          start,   \* the statuses before the loop
          why,     \* the failed_tasks of each row
          named,   \* the task keys of the request
          st,      \* the statuses now
          chosen,  \* targets or selected_keys
          at,      \* the row that is visited next
          grew     \* whether this pass changed something

lvars == <<loop, order, start, why, named, st, chosen, at, grew>>

Started == {s \in [Tasks -> TaskStatus] : \A t \in Tasks : Deps[t] = {} => s[t] # "waiting_dependency"}

Init ==
  /\ loop \in {"promote", "stop", "retry"}
  /\ order \in Orders
  /\ start \in Started /\ st = start
  /\ \E c \in Causes : why = [t \in Tasks |-> IF start[t] = "blocked" /\ loop = "retry" THEN c ELSE {}]
  /\ named \in IF loop = "promote" THEN {{}}
               ELSE IF loop = "stop" THEN {{t} : t \in Tasks}
               ELSE {W \in {{}} \cup {{t} : t \in Tasks} : W \subseteq Failures(start)}
  /\ chosen = IF loop = "retry" THEN RetryRoots(start, named) ELSE named
  /\ at = 1 /\ grew = FALSE

LastRow == Len(order)
Row     == order[at]

EligibleM == TRUE   \* a row that was promoted is promoted again

Eligible == st[Row] = "waiting_dependency"

\* The body of the while loop of _promote_dependencies, for one row.
Promote ==
  /\ loop = "promote" /\ at <= LastRow
  /\ LET deps == CountedDeps(st, Row)
         dead == Role[Row] # "summarizer"
                 /\ \E d \in deps : st[d] \in TerminalTask \ {"completed"}
         done == /\ \A d \in deps : st[d] \in TerminalTask
                 /\ Role[Row] = "summarizer" \/ \A d \in deps : st[d] = "completed"
     IN  IF Eligible /\ (dead \/ done)
         THEN /\ st' = [st EXCEPT ![Row] = IF dead THEN "blocked" ELSE "queued"]
              /\ grew' = TRUE
         ELSE UNCHANGED <<st, grew>>
  /\ at' = at + 1
  /\ UNCHANGED <<loop, order, start, why, named, chosen>>

\* The body of the loop over targets in cancel_team_tasks.
Target ==
  /\ loop = "stop" /\ at <= LastRow
  /\ IF /\ Row \notin chosen /\ st[Row] \in Unfinished
        /\ Role[Row] # "summarizer" /\ Deps[Row] # {}
        /\ \A d \in Deps[Row] : d \in chosen \/ st[d] = "stopped"
     THEN chosen' = chosen \cup {Row} /\ grew' = TRUE
     ELSE UNCHANGED <<chosen, grew>>
  /\ at' = at + 1
  /\ UNCHANGED <<loop, order, start, why, named, st>>

\* The body of the loop over selected_keys in _select_retry_tasks.
Select ==
  /\ loop = "retry" /\ at <= LastRow
  /\ IF /\ Row \notin chosen /\ st[Row] \in {"blocked", "completed"}
        /\ \/ Deps[Row] \cap chosen # {}
           \/ st[Row] = "blocked" /\ why[Row] \cap chosen # {}
     THEN chosen' = chosen \cup {Row} /\ grew' = TRUE
     ELSE UNCHANGED <<chosen, grew>>
  /\ at' = at + 1
  /\ UNCHANGED <<loop, order, start, why, named, st>>

\* A pass that changed something is followed by another.
NextPass ==
  /\ at > LastRow /\ grew
  /\ at' = 1 /\ grew' = FALSE
  /\ UNCHANGED <<loop, order, start, why, named, st, chosen>>

Next == Promote \/ Target \/ Select \/ NextPass

Spec == Init /\ [][Next]_lvars /\ WF_lvars(Next)

EndedM == at > LastRow   \* one pass, whatever it changed

Ended == at > LastRow /\ ~grew

-----------------------------------------------------------------------------
(* In whatever order the rows come, the loop of _promote_dependencies ends  *)
(* with the promotion that AgentTeam uses.                                 *)
PromotionIsLeast == loop = "promote" /\ Ended => st = Promoted(start)

(* Nor does it matter for what the user's requests choose: the cascade of   *)
(* cancel_team_tasks stops exactly StopTargets, and the closure of          *)
(* _select_retry_tasks restarts exactly RetryRows.                         *)
ChosenIsLeast ==
  Ended => /\ loop = "stop" =>
                {t \in chosen : st[t] \in Unfinished} = StopTargets(start, named)
           /\ loop = "retry" => chosen = RetryRows(start, why, named)

(* No loop goes round for ever, although a promotion enables others.       *)
LoopsEnd == <>Ended
=============================================================================
