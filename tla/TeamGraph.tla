----------------------------- MODULE TeamGraph -----------------------------
(***************************************************************************)
(* The work graph of one agent team, and the rules by which the service    *)
(* moves the tasks of the graph when one of them changes status:           *)
(* dependency promotion, the reduction of the task statuses to a team      *)
(* status (with its fail-fast rule), the cascade of a task that the user   *)
(* stops, and the set of tasks that a retry starts again.                  *)
(*                                                                         *)
(* Everything here is a function of the graph and of st, the task          *)
(* statuses; module AgentTeam applies these functions in its actions.      *)
(* The service computes each of them by a loop over the task rows that     *)
(* runs until nothing changes.  Here the result of such a loop is the      *)
(* least set closed under one turn of the loop, so that no recursion is    *)
(* needed; module TeamLoops compares them with the loops.                  *)
(*                                                                         *)
(* A definition whose name ends in M is a mistake that the code could have *)
(* in place of the definition after it; no other definition uses it.       *)
(***************************************************************************)
EXTENDS FiniteSets, Naturals

CONSTANTS Tasks,   \* the task rows of the team
          Deps,    \* dependency_keys_json: the tasks a task waits for
          Role     \* the role of the member a task is assigned to

Roles == {"worker", "verifier", "summarizer"}

Workers      == {t \in Tasks : Role[t] = "worker"}
Verification == {t \in Tasks : Role[t] \in {"verifier", "summarizer"}}
Summarizers  == {t \in Tasks : Role[t] = "summarizer"}

Acyclic ==
  \E rank \in [Tasks -> 1..Cardinality(Tasks)] :
    \A t \in Tasks : \A d \in Deps[t] : rank[d] < rank[t]

(* What _create_team accepts: an acyclic graph with work to do, a task that *)
(* verifies or summarizes, and no worker whose result nobody consumes.     *)
ASSUME GraphAssumption ==
  /\ IsFiniteSet(Tasks)
  /\ Deps \in [Tasks -> SUBSET Tasks]
  /\ Role \in [Tasks -> Roles]
  /\ Acyclic
  /\ Workers # {}
  /\ Verification # {}
  /\ \A w \in Workers : \E t \in Tasks : w \in Deps[t]

-----------------------------------------------------------------------------
(* A task that the user stopped has status "cancelled" and the error code  *)
(* task_cancelled_by_instruction; here that is a status of its own,        *)
(* "stopped".  No statement of the service gives a task row the status     *)
(* "dead_letter", so it is left out.                                       *)
TaskStatus ==
  {"waiting_dependency", "queued", "running", "completed", "failed",
   "blocked", "stopped", "cancelled", "expired"}

TerminalTask == {"completed", "failed", "blocked", "stopped", "cancelled", "expired"}
Unfinished   == TaskStatus \ TerminalTask

LiveTeam     == {"queued", "running", "verifying"}
TerminalTeam == {"completed", "failed", "blocked", "cancelled", "expired"}
TeamStatus   == LiveTeam \cup TerminalTeam

\* The least set that contains Base and is closed under Grow.
Closure(Base, Grow(_)) ==
  {t \in Tasks : \A S \in SUBSET Tasks : Base \cup Grow(S) \subseteq S => t \in S}

-----------------------------------------------------------------------------
(* _promote_dependencies.  A verifier does not count the dependencies the  *)
(* user stopped, unless all of them were stopped.                          *)
CountedDeps(st, t) ==
  LET live == {d \in Deps[t] : st[d] # "stopped"}
  IN  IF Role[t] = "verifier" /\ live # {} THEN live ELSE Deps[t]

WaitingWork(st) == {t \in Tasks \ Summarizers : st[t] = "waiting_dependency"}

\* A task other than a summarizer is blocked by a dependency that failed,
\* was stopped, or is itself blocked in the same pass.
Doomed(st) ==
  LET Seed    == {t \in WaitingWork(st) :
                    \E d \in CountedDeps(st, t) : st[d] \in TerminalTask \ {"completed"}}
      Next(S) == {t \in WaitingWork(st) : CountedDeps(st, t) \cap S # {}}
  IN  WaitingWork(st) \cap Closure(Seed, Next)

\* A task is ready when each dependency completed; a summarizer, which reports
\* on failures too, when each of them ended (doomed is Doomed(st)).
Ready(st, doomed) ==
  {t \in Tasks \ doomed :
     /\ st[t] = "waiting_dependency"
     /\ \A d \in CountedDeps(st, t) :
          \/ st[d] = "completed"
          \/ Role[t] = "summarizer" /\ (st[d] \in TerminalTask \/ d \in doomed)}

Promoted(st) ==
  LET doomed == Doomed(st)
      ready  == Ready(st, doomed)
  IN  [t \in Tasks |-> IF t \in doomed THEN "blocked"
                       ELSE IF t \in ready THEN "queued" ELSE st[t]]

-----------------------------------------------------------------------------
(* _refresh_team_status.                                                   *)
InStatus(st, S) == {t \in Tasks : st[t] \in S}
Running(st)     == InStatus(st, {"running"})
FailuresM(st)   == InStatus(st, {"failed", "blocked", "expired", "stopped"})
Failures(st)    == InStatus(st, {"failed", "blocked", "expired"})
Pending(st)     == InStatus(st, {"queued", "waiting_dependency"})
Done(st)        == InStatus(st, {"completed", "stopped"})

PendingSummarizers(st) == Summarizers \cap InStatus(st, Unfinished)

\* Every worker was stopped and nothing runs: the team ends as cancelled.
AllWorkStopped(st) == Running(st) = {} /\ \A w \in Workers : st[w] = "stopped"

FailFastM(st) == FALSE

\* A failure that no pending summarizer can report closes all work not yet started.
FailFast(st) ==
  ~AllWorkStopped(st) /\ Failures(st) # {} /\ PendingSummarizers(st) = {}

Refreshed(st) ==
  LET closed  == IF AllWorkStopped(st) THEN InStatus(st, Unfinished) ELSE {}
      blocked == IF FailFast(st) THEN Pending(st) ELSE {}
  IN  [t \in Tasks |-> IF t \in closed THEN "cancelled"
                       ELSE IF t \in blocked THEN "blocked" ELSE st[t]]

\* The failed_tasks lists of the team_failed errors of each task.
Blamed(st, why) ==
  LET blocked == IF FailFast(st) THEN Pending(st) ELSE {}
  IN  [t \in Tasks |-> IF t \in blocked THEN why[t] \cup Failures(st) ELSE why[t]]

PartialSuccessM(st) == \E w \in Workers : st[w] = "completed"

\* At least one worker delivered and at least one verifier or summarizer finished.
PartialSuccess(st) ==
  /\ \E v \in Verification : st[v] = "completed"
  /\ \E w \in Workers : st[w] = "completed"

AllVerifiedM(st) == InStatus(st, {"completed"}) = Tasks   \* stopped is not done

\* Nothing is left to do and every verifier and summarizer delivered.
AllVerified(st) ==
  Done(st) = Tasks /\ \A v \in Verification : st[v] = "completed"

\* The status of a team that has a failure and nothing left to start.
FailureVerdict(st) ==
  IF PartialSuccess(st) THEN "completed"
  ELSE IF InStatus(st, {"failed", "expired"}) # {} THEN "failed" ELSE "blocked"

\* The team status that belongs to st, where st is already Refreshed.
Verdict(st) ==
  LET failed == Failures(st) # {}
      calm   == Running(st) = {}
  IN  IF AllWorkStopped(st) THEN "cancelled"
      ELSE IF AllVerified(st) THEN "completed"
      ELSE IF failed /\ Workers \cap InStatus(st, Unfinished) # {} THEN "running"
      ELSE IF failed /\ calm /\ PendingSummarizers(st) # {} THEN "verifying"
      ELSE IF failed /\ calm THEN FailureVerdict(st)
      ELSE IF /\ Workers \subseteq Done(st)
              /\ Verification \cap InStatus(st, Unfinished) # {} THEN "verifying"
      ELSE IF calm THEN "queued" ELSE "running"

-----------------------------------------------------------------------------
(* cancel_team_tasks: with the tasks W the user names go the tasks, other  *)
(* than summarizers, all of whose dependencies are stopped.                *)
StopTargets(st, W) ==
  LET Next(S) == {t \in Tasks \ Summarizers :
                    /\ st[t] \in Unfinished
                    /\ Deps[t] # {}
                    /\ \A d \in Deps[t] : d \in S \/ st[d] = "stopped"}
  IN  {t \in Closure(W, Next) : st[t] \in Unfinished}

(* _select_retry_tasks: the failed tasks among W (all of them when W is    *)
(* empty), and with them the blocked and completed tasks that depend on a  *)
(* selected task or were closed by fail-fast because of one.               *)
RetryRootsM(st, W) ==   \* with those the user stopped
  {t \in InStatus(st, {"failed", "blocked", "expired", "stopped"}) : W = {} \/ t \in W}

RetryRoots(st, W) ==
  {t \in Failures(st) : W = {} \/ t \in W}

\* Successors that wait or run are started over too.
RetryAllM(st, why, W) ==
  LET Next(S) == {t \in Tasks : Deps[t] \cap S # {}}
  IN  Closure(RetryRoots(st, W), Next)

RetryRows(st, why, W) ==
  LET Next(S) == {t \in Tasks :
                    \/ st[t] \in {"blocked", "completed"} /\ Deps[t] \cap S # {}
                    \/ st[t] = "blocked" /\ why[t] \cap S # {}}
  IN  Closure(RetryRoots(st, W), Next)
=============================================================================
