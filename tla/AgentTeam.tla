----------------------------- MODULE AgentTeam -----------------------------
(***************************************************************************)
(* One agent team of backend/app/services/agent_team_service.py, from the  *)
(* commit that created it: its task rows with their attempts and leases,   *)
(* the request message of each attempt, the receipt of the team's result,  *)
(* the sandboxes its tasks started, the dispatcher processes that claim,   *)
(* execute and recover its tasks (agent_team_dispatcher.py), and the       *)
(* requests of the user: stop, stop some tasks, retry.                     *)
(*                                                                         *)
(* A service function that holds the lock of the team row from its first   *)
(* read to its commit is one action.  The functions that commit on the way *)
(* (lease recovery, the stopping of tasks that own sandboxes, the          *)
(* cancellation of the teams of a stopped run) are one action per          *)
(* transaction.  Time is not a number: leases lapse, delays end and the    *)
(* deadline passes by actions that can happen at any time.                 *)
(*                                                                         *)
(* A definition whose name ends in M is a mistake that the code could have *)
(* in place of the definition after it; no other definition uses it.       *)
(***************************************************************************)
EXTENDS TeamGraph

CONSTANTS Turn,          \* order of claim_next_task: priority, then age, then id
          MaxAttempts,   \* max_attempts of the task rows
          MaxActive,     \* max_active_children of the team
          Dispatchers,   \* the processes that run dispatch_once
          SandboxTasks,  \* tasks whose handler starts a sandbox
          HasDeadline,   \* whether the team has a deadline_at
          PageTeam,      \* whether the team operates the page of the user
          Stoppable,     \* the task keys that cancel_team_tasks is called with
          MaxRetries,    \* bound on the retry requests of the user
          MaxStops,      \* bound on the calls of cancel_team_tasks
          MaxCrashes,    \* bound on the crashes of dispatcher processes
          ParentMayStop  \* bound: whether the response run of the team is stopped

ASSUME ParameterAssumption ==
  /\ Turn \in [Tasks -> Nat]
  /\ MaxAttempts \in [Tasks -> Nat \ {0}]
  /\ MaxActive \in Nat \ {0}
  /\ SandboxTasks \subseteq Tasks
  /\ Stoppable \subseteq Tasks
  /\ HasDeadline \in BOOLEAN /\ PageTeam \in BOOLEAN /\ ParentMayStop \in BOOLEAN
  /\ MaxRetries \in Nat /\ MaxStops \in Nat /\ MaxCrashes \in Nat

VARIABLES
  \* the team row
  team,      \* status
  gen,       \* number of team.retry_requested events
  notice,    \* status of the terminal receipt of each generation
  overdue,   \* deadline_at has passed
  \* the task rows
  st,        \* status
  attempt,   \* attempt_count
  lease,     \* lease_token
  lapsed,    \* tasks whose lease_expires_at has passed
  delayed,   \* tasks whose next_attempt_at lies in the future
  why,       \* the failed_tasks of a task closed by fail-fast
  \* the messages and resources of the attempts
  open,      \* <<task, attempt>> of the request messages in processing
  reads,     \* <<t, d>> : the attempt of t was given the present result of d
  sandbox,   \* <<task, attempt>> of the sandboxes attached, not recorded as stopped
  \* the threads of the processes
  stage,     \* where each dispatcher is in dispatch_once
  rec,       \* the task each dispatcher recovers, and how far it got
  handlers,  \* <<dispatcher, task, attempt>> of the running _execute_claimed
  stopCall,  \* the tasks an unfinished cancel_team_tasks will report as stopped
  \* the environment
  parent,    \* how far the stop of the response run got
  stops, crashes

teamVars == <<team, gen, notice>>
taskVars == <<st, attempt, lease, lapsed, delayed, why, open, reads>>
procVars == <<stage, rec, handlers>>
envVars  == <<overdue, parent, stops, crashes>>
vars == <<teamVars, taskVars, sandbox, procVars, stopCall, envVars>>

\* A lease token is drawn at random for each claim and each recovery.  It is
\* named here by what it was drawn for.
NoLease    == <<"none", 0>>
Claim(a)   == <<"claim", a>>
Cleanup(d) == <<"cleanup", d>>

Idle == <<>>    \* rec of a dispatcher that recovers nothing

NoticeStatus == {"none", "queued", "processing", "consumed", "superseded", "cancelled"}

TypeOK ==
  /\ team \in TeamStatus
  /\ gen \in 0..MaxRetries
  /\ notice \in [0..MaxRetries -> NoticeStatus]
  /\ overdue \in BOOLEAN
  /\ st \in [Tasks -> TaskStatus]
  /\ attempt \in [Tasks -> Nat]
  /\ lease \in [Tasks -> {NoLease} \cup ({"claim"} \X Nat) \cup ({"cleanup"} \X Dispatchers)]
  /\ lapsed \subseteq Tasks
  /\ delayed \subseteq Tasks
  /\ why \in [Tasks -> SUBSET Tasks]
  /\ open \subseteq Tasks \X Nat
  /\ reads \subseteq Tasks \X Tasks
  /\ sandbox \subseteq SandboxTasks \X Nat
  /\ stage \in [Dispatchers -> {"sweep", "claim"}]
  /\ rec \in [Dispatchers -> {Idle} \cup (Tasks \X {"stop", "finish", "extend"})]
  /\ handlers \subseteq Dispatchers \X Tasks \X Nat
  /\ stopCall \subseteq Tasks
  /\ parent \in {"active", "stopping", "cancelled", "settled"}
  /\ stops \in 0..MaxStops
  /\ crashes \in 0..MaxCrashes

\* The rows that _create_team commits.
Init ==
  /\ team = "queued"
  /\ gen = 0
  /\ notice = [g \in 0..MaxRetries |-> "none"]
  /\ overdue = FALSE
  /\ st = [t \in Tasks |-> IF Deps[t] = {} THEN "queued" ELSE "waiting_dependency"]
  /\ attempt = [t \in Tasks |-> 0]
  /\ lease = [t \in Tasks |-> NoLease]
  /\ lapsed = {} /\ delayed = {}
  /\ why = [t \in Tasks |-> {}]
  /\ open = {} /\ reads = {} /\ sandbox = {}
  /\ stage = [d \in Dispatchers |-> "sweep"]
  /\ rec = [d \in Dispatchers |-> Idle]
  /\ handlers = {} /\ stopCall = {}
  /\ parent = "active"
  /\ stops = 0 /\ crashes = 0

-----------------------------------------------------------------------------
(* What several service functions share.                                   *)

IsLiveM == team \in LiveTeam \cup {"blocked"}   \* "blocked" not in _TERMINAL_TEAM

IsLive == team \in LiveTeam

\* The receipt is offered although the response run was stopped.
NotifiedM(deliver) ==
  IF notice[gen] # "none" THEN notice
  ELSE [notice EXCEPT ![gen] = IF deliver THEN "queued" ELSE "cancelled"]

\* _persist_terminal_team_notification: one receipt per generation, offered
\* to the session unless its response run was stopped.
Notified(deliver) ==
  IF notice[gen] # "none" THEN notice
  ELSE [notice EXCEPT ![gen] = IF deliver /\ parent = "active" THEN "queued" ELSE "cancelled"]

\* _refresh_team_status, from task statuses s, fail-fast marks w and delays dl.
Refresh(s, w, dl) ==
  /\ st' = Refreshed(s)
  /\ delayed' = {t \in dl : st'[t] = "queued"}
  /\ team' = Verdict(st')
  /\ why' = Blamed(s, w)
  /\ notice' = IF team' \in TerminalTeam THEN Notified(TRUE) ELSE notice

\* The end of claim_next_task, complete_task, recover_expired_leases and
\* cancel_team_tasks: _promote_dependencies, then _refresh_team_status.
PromoteAndRefresh(s, w, dl) == Refresh(Promoted(s), w, dl)

\* The lease stays in the row; the request message stays in processing.
ReleaseLeaseM(S) ==
  /\ lease' = lease
  /\ lapsed' = lapsed \ S
  /\ open' = {r \in open : ~(r[1] \in S /\ r[2] = attempt[r[1]])}

ReleaseRequestM(S) ==
  /\ lease' = [t \in Tasks |-> IF t \in S THEN NoLease ELSE lease[t]]
  /\ lapsed' = lapsed \ S
  /\ open' = open

\* The tasks of S leave "running" or never reach it again: lease, expiry and
\* request message are closed (_mark_task_request_terminal).
Release(S) ==
  /\ lease' = [t \in Tasks |-> IF t \in S THEN NoLease ELSE lease[t]]
  /\ lapsed' = lapsed \ S
  /\ open' = {r \in open : ~(r[1] \in S /\ r[2] = attempt[r[1]])}

\* _expire_team and the transaction of cancel_team: every unfinished task is
\* closed with the team.
CloseTeam(final, deliver) ==
  LET rest == InStatus(st, Unfinished)
  IN  /\ IsLive
      /\ team' = final
      /\ st' = [t \in Tasks |-> IF t \in rest THEN final ELSE st[t]]
      /\ Release(rest)
      /\ delayed' = delayed \ rest
      /\ notice' = Notified(deliver)
      /\ UNCHANGED <<gen, attempt, why, reads>>

\* The token is not compared.
LeaseValidM(t, a) ==
  /\ IsLive /\ st[t] = "running"
  /\ t \notin lapsed /\ ~overdue
  /\ PageTeam => parent = "active"

\* require_active_task_lease: the checks of a handler before and after its work.
LeaseValid(t, a) ==
  /\ IsLive /\ st[t] = "running" /\ lease[t] = Claim(a)
  /\ t \notin lapsed /\ ~overdue
  /\ PageTeam => parent = "active"

SandboxesOf(S) == {r \in sandbox : r[1] \in S}

-----------------------------------------------------------------------------
(* dispatch_once, part 1: expire_due_teams and recover_expired_leases.     *)

ExpireDue(d) ==
  /\ stage[d] = "sweep" /\ rec[d] = Idle
  /\ overdue
  /\ CloseTeam("expired", TRUE)
  /\ UNCHANGED <<sandbox, procVars, stopCall, envVars>>

DueM(t) == IsLive /\ st[t] = "running" /\ t \in lapsed /\ lease[t] = Claim(attempt[t])

Due(t) == IsLive /\ st[t] = "running" /\ t \in lapsed

\* The lease passes to the recovery, with a new expiry: from this commit on
\* the old token is refused.
RecoverBegin(d, t) ==
  /\ stage[d] = "sweep" /\ rec[d] = Idle
  /\ Due(t)
  /\ lease' = [lease EXCEPT ![t] = Cleanup(d)]
  /\ lapsed' = lapsed \ {t}
  /\ rec' = [rec EXCEPT ![d] = <<t, "stop">>]
  /\ UNCHANGED <<teamVars, st, attempt, delayed, why, open, reads, sandbox, stage, handlers, stopCall, envVars>>

\* _cleanup_task_runtime_resources: every sandbox of the task stops, or some
\* stop fails.
RecoverStop(d) ==
  /\ rec[d] # Idle /\ rec[d][2] = "stop"
  /\ sandbox' = sandbox \ SandboxesOf({rec[d][1]})
  /\ rec' = [rec EXCEPT ![d][2] = "finish"]
  /\ UNCHANGED <<teamVars, taskVars, stage, handlers, stopCall, envVars>>

\* The recovery goes on although a stop failed.
RecoverStopFailsM(d) ==
  /\ rec[d] # Idle /\ rec[d][2] = "stop"
  /\ \E left \in SUBSET SandboxesOf({rec[d][1]}) :
       /\ left # {}
       /\ sandbox' = (sandbox \ SandboxesOf({rec[d][1]})) \cup left
  /\ rec' = [rec EXCEPT ![d][2] = "finish"]
  /\ UNCHANGED <<teamVars, taskVars, stage, handlers, stopCall, envVars>>

RecoverStopFails(d) ==
  /\ rec[d] # Idle /\ rec[d][2] = "stop"
  /\ \E left \in SUBSET SandboxesOf({rec[d][1]}) :
       /\ left # {}
       /\ sandbox' = (sandbox \ SandboxesOf({rec[d][1]})) \cup left
  /\ rec' = [rec EXCEPT ![d][2] = "extend"]
  /\ UNCHANGED <<teamVars, taskVars, stage, handlers, stopCall, envVars>>

\* The task is still in the hands of this recovery.
StillRecovering(d, t) == IsLive /\ st[t] = "running" /\ lease[t] = Cleanup(d)

\* A stop failed: the recovery keeps the task and extends its own lease.
RecoverExtend(d) ==
  /\ rec[d] # Idle /\ rec[d][2] = "extend"
  /\ lapsed' = IF StillRecovering(d, rec[d][1]) THEN lapsed \ {rec[d][1]} ELSE lapsed
  /\ rec' = [rec EXCEPT ![d] = Idle]
  /\ UNCHANGED <<teamVars, st, attempt, lease, delayed, why, open, reads, sandbox, stage, handlers, stopCall, envVars>>

\* All sandboxes stopped: queue the task again, or fail it when its budget is spent.
RecoverFinish(d) ==
  /\ rec[d] # Idle /\ rec[d][2] = "finish"
  /\ LET t == rec[d][1]
         next == IF attempt[t] >= MaxAttempts[t] THEN "failed" ELSE "queued"
     IN  IF StillRecovering(d, t)
         THEN /\ PromoteAndRefresh([st EXCEPT ![t] = next], why, delayed)
              /\ Release({t})
              /\ UNCHANGED <<gen, attempt, reads>>
         ELSE UNCHANGED <<teamVars, taskVars>>
  /\ rec' = [rec EXCEPT ![d] = Idle]
  /\ UNCHANGED <<sandbox, stage, handlers, stopCall, envVars>>

\* The sweep works on the tasks that were due when it looked; others may have
\* become due since, and are left to the next sweep.
SweepDone(d) ==
  /\ stage[d] = "sweep" /\ rec[d] = Idle
  /\ stage' = [stage EXCEPT ![d] = "claim"]
  /\ UNCHANGED <<teamVars, taskVars, sandbox, rec, handlers, stopCall, envVars>>

\* Expired teams are forgotten.
CleanupTerminalM(r) ==
  /\ team = "cancelled"
  /\ r \in sandbox
  /\ sandbox' = sandbox \ {r}
  /\ UNCHANGED <<teamVars, taskVars, procVars, stopCall, envVars>>

\* _cleanup_team_runtime_resources, by the thread that closed the team and
\* again by cleanup_terminal_team_resources in every sweep.
CleanupTerminal(r) ==
  /\ team \in {"cancelled", "expired"}
  /\ r \in sandbox
  /\ sandbox' = sandbox \ {r}
  /\ UNCHANGED <<teamVars, taskVars, procVars, stopCall, envVars>>

-----------------------------------------------------------------------------
(* dispatch_once, part 2: claim_next_task.                                 *)

Settled     == Refreshed(Promoted(st))
SettledWhy  == Blamed(Promoted(st), why)
Candidates  == {t \in Tasks : Settled[t] = "queued" /\ t \notin delayed}

MayClaim ==
  /\ IsLive /\ ~overdue
  /\ Verdict(Settled) \in LiveTeam
  /\ Cardinality(Running(Settled)) < MaxActive

\* The task first in line becomes the next attempt, under a new token; the
\* request message carries the results of its dependencies as they are now.
ClaimTask(d, t) ==
  /\ stage[d] = "claim"
  /\ MayClaim
  /\ t \in Candidates /\ \A u \in Candidates : Turn[t] <= Turn[u]
  /\ LET a == attempt[t] + 1
     IN  /\ attempt' = [attempt EXCEPT ![t] = a]
         /\ lease' = [lease EXCEPT ![t] = Claim(a)]
         /\ open' = open \cup {<<t, a>>}
         /\ handlers' = handlers \cup {<<d, t, a>>}
  /\ Refresh([Settled EXCEPT ![t] = "running"], SettledWhy, delayed)
  /\ reads' = {p \in reads : p[1] # t}
              \cup {<<t, u>> : u \in {v \in Deps[t] : Settled[v] \in TerminalTask}}
  /\ UNCHANGED <<gen, lapsed, sandbox, stage, rec, stopCall, envVars>>

\* claim_next_task returns None; what it promoted and refreshed is committed.
\* The tick ends when no handler of it is left.
ClaimNothing(d) ==
  /\ stage[d] = "claim"
  /\ ~(MayClaim /\ Candidates # {})
  /\ \/ IsLive /\ overdue /\ CloseTeam("expired", TRUE)
     \/ /\ IsLive /\ ~overdue
        /\ PromoteAndRefresh(st, why, delayed)
        /\ UNCHANGED <<gen, attempt, lease, lapsed, open, reads>>
     \/ ~IsLive /\ UNCHANGED <<teamVars, taskVars>>
  /\ stage' = [stage EXCEPT ![d] = IF \E h \in handlers : h[1] = d THEN "claim" ELSE "sweep"]
  /\ UNCHANGED <<sandbox, rec, handlers, stopCall, envVars>>

-----------------------------------------------------------------------------
(* _execute_claimed: the handler of one claimed attempt.                   *)

\* A late handler attaches its sandbox.
AttachM(h) ==
  LET t == h[2]  a == h[3]
  IN  /\ h \in handlers /\ t \in SandboxTasks
      /\ IsLive /\ st[t] = "running"
      /\ sandbox' = sandbox \cup {<<t, a>>}
      /\ UNCHANGED <<teamVars, taskVars, procVars, stopCall, envVars>>

\* attach_task_runtime_resource, in the transaction that creates the sandbox.
\* It compares the token and does not look at the expiry.
Attach(h) ==
  LET t == h[2]  a == h[3]
  IN  /\ h \in handlers /\ t \in SandboxTasks
      /\ IsLive /\ st[t] = "running" /\ lease[t] = Claim(a)
      /\ sandbox' = sandbox \cup {<<t, a>>}
      /\ UNCHANGED <<teamVars, taskVars, procVars, stopCall, envVars>>

Outcomes == {"completed", "blocked", "retryable", "fatal"}

AfterBudgetM(t, outcome) ==   \* <= for <
  CASE outcome = "completed" -> "completed"
    [] outcome = "blocked"   -> "blocked"
    [] outcome = "fatal"     -> "failed"
    [] outcome = "retryable" -> IF attempt[t] <= MaxAttempts[t] THEN "queued" ELSE "failed"

AfterDeadM(t, outcome) ==     \* the status of a message given to a task
  CASE outcome = "completed" -> "completed"
    [] outcome = "blocked"   -> "blocked"
    [] outcome = "fatal"     -> "failed"
    [] outcome = "retryable" -> IF attempt[t] < MaxAttempts[t] THEN "queued" ELSE "dead_letter"

\* The status complete_task gives a task for an outcome of its handler.
After(t, outcome) ==
  CASE outcome = "completed" -> "completed"
    [] outcome = "blocked"   -> "blocked"
    [] outcome = "fatal"     -> "failed"
    [] outcome = "retryable" -> IF attempt[t] < MaxAttempts[t] THEN "queued" ELSE "failed"

\* complete_task.  The sandbox of the attempt stays on record: only a recovery,
\* a stop or the clean-up of a cancelled team records that it stopped.
Complete(h, outcome) ==
  LET t == h[2]  a == h[3]
  IN  /\ h \in handlers
      /\ LeaseValid(t, a)
      /\ \E dl \in {delayed, delayed \cup {t}} :    \* retry_after_seconds
           PromoteAndRefresh([st EXCEPT ![t] = After(t, outcome)], [why EXCEPT ![t] = {}], dl)
      /\ Release({t})
      /\ handlers' = handlers \ {h}
      /\ UNCHANGED <<gen, attempt, reads, sandbox, stage, rec, stopCall, envVars>>

\* The handler ends without a result: its lease is no longer valid, or the
\* database failed it.
Abandon(h) ==
  /\ h \in handlers
  /\ handlers' = handlers \ {h}
  /\ UNCHANGED <<teamVars, taskVars, sandbox, stage, rec, stopCall, envVars>>

-----------------------------------------------------------------------------
(* Requests of the user.                                                   *)

CancelTeam ==
  /\ CloseTeam("cancelled", TRUE)
  /\ UNCHANGED <<sandbox, procVars, stopCall, envVars>>

\* What cancel_team_tasks writes into the rows of the tasks it stops.
Stopped(S) == [t \in Tasks |-> IF t \in S THEN "stopped" ELSE st[t]]

\* cancel_team_tasks when none of the stopped tasks owns a sandbox.
StopTasks(W) ==
  LET S == StopTargets(st, W)
  IN  /\ IsLive /\ stopCall = {} /\ stops < MaxStops
      /\ SandboxesOf(S) = {}
      /\ PromoteAndRefresh(Stopped(S), why, delayed)
      /\ Release(S)
      /\ stops' = stops + 1
      /\ UNCHANGED <<gen, attempt, reads, sandbox, procVars, stopCall, overdue, parent, crashes>>

\* cancel_team_tasks otherwise: the first call of stop_environment commits the
\* rows it has only flushed, or fails before its commit and rolls them back.
StopTasksBegin(W) ==
  LET S == StopTargets(st, W)
  IN  /\ IsLive /\ stopCall = {} /\ stops < MaxStops
      /\ SandboxesOf(S) # {}
      /\ \E left \in SUBSET SandboxesOf(S) :
           /\ sandbox' = (sandbox \ SandboxesOf(S)) \cup left
           /\ \/ st' = Stopped(S) /\ Release(S) /\ delayed' = delayed \ S
              \/ left # {} /\ UNCHANGED <<st, lease, lapsed, open, delayed>>
      /\ stopCall' = S
      /\ stops' = stops + 1
      /\ UNCHANGED <<teamVars, attempt, why, reads, procVars, overdue, parent, crashes>>

\* The rest of cancel_team_tasks, on the rows as they are by then.
StopTasksEnd ==
  /\ stopCall # {}
  /\ \/ IsLive /\ PromoteAndRefresh(st, why, delayed)
     \/ ~IsLive /\ st' = Promoted(st) /\ UNCHANGED <<team, notice, why, delayed>>
  /\ stopCall' = {}
  /\ UNCHANGED <<gen, attempt, lease, lapsed, open, reads, sandbox, procVars, envVars>>

\* _supersede_unconsumed_terminal_notifications: an old receipt that nobody has
\* taken up is withdrawn, and one in processing forbids the retry.
NoReceiptInHandM == TRUE

NoReceiptInHand == \A g \in 0..gen : notice[g] # "processing"

SupersededM == notice

Superseded ==
  [g \in 0..MaxRetries |-> IF notice[g] = "queued" THEN "superseded" ELSE notice[g]]

\* retry_team: the selected tasks start over in a new generation.
Retry(W) ==
  LET rows == RetryRows(st, why, W)
  IN  /\ team \in {"failed", "blocked", "completed", "queued", "running"}
      /\ gen < MaxRetries
      /\ W \subseteq Failures(st) /\ RetryRoots(st, W) # {}
      /\ NoReceiptInHand
      /\ st' = [t \in Tasks |-> IF t \notin rows THEN st[t]
                                ELSE IF Deps[t] = {} THEN "queued" ELSE "waiting_dependency"]
      /\ team' = "queued"
      /\ gen' = gen + 1
      /\ notice' = Superseded
      /\ why' = [t \in Tasks |-> IF t \in rows THEN {} ELSE why[t]]
      /\ lease' = [t \in Tasks |-> IF t \in rows THEN NoLease ELSE lease[t]]
      /\ lapsed' = lapsed \ rows
      /\ delayed' = delayed \ rows
      /\ reads' = {p \in reads : p[1] \notin rows /\ p[2] \notin rows}
      /\ UNCHANGED <<attempt, open, sandbox, procVars, stopCall, envVars>>

\* The user stops the response run that created the team.  The intent to stop
\* is committed first, then cancel_response_teams cancels the team and, in a
\* transaction of its own, withdraws its receipts.
StopParent ==
  /\ ParentMayStop /\ parent = "active"
  /\ parent' = "stopping"
  /\ UNCHANGED <<teamVars, taskVars, sandbox, procVars, stopCall, overdue, stops, crashes>>

CancelResponseTeam ==
  /\ parent = "stopping"
  /\ parent' = "cancelled"
  /\ \/ CloseTeam("cancelled", FALSE)
     \/ ~IsLive /\ UNCHANGED <<teamVars, taskVars>>
  /\ UNCHANGED <<sandbox, procVars, stopCall, overdue, stops, crashes>>

SuppressReceipts ==
  /\ parent = "cancelled"
  /\ parent' = "settled"
  /\ notice' = [g \in 0..MaxRetries |-> IF notice[g] \in {"queued", "processing"}
                                        THEN "cancelled" ELSE notice[g]]
  /\ UNCHANGED <<team, gen, taskVars, sandbox, procVars, stopCall, overdue, stops, crashes>>

-----------------------------------------------------------------------------
(* The session takes up the receipt of the team: prepare_message_run checks *)
(* it against the team row, finish_message_run closes it.                  *)

TakeReceipt(g) ==
  /\ notice[g] = "queued"
  /\ notice' = [notice EXCEPT ![g] =
                  IF ~IsLive /\ g = gen /\ parent = "active" THEN "processing" ELSE "consumed"]
  /\ UNCHANGED <<team, gen, taskVars, sandbox, procVars, stopCall, envVars>>

FinishReceipt(g) ==
  /\ notice[g] = "processing"
  /\ \E s \in {"consumed", "cancelled", "queued"} : notice' = [notice EXCEPT ![g] = s]
  /\ UNCHANGED <<team, gen, taskVars, sandbox, procVars, stopCall, envVars>>

-----------------------------------------------------------------------------
(* Time and crashes.                                                       *)

LeaseLapses(t) ==
  /\ lease[t] # NoLease /\ t \notin lapsed
  /\ lapsed' = lapsed \cup {t}
  /\ UNCHANGED <<teamVars, st, attempt, lease, delayed, why, open, reads, sandbox, procVars, stopCall, envVars>>

DelayEnds(t) ==
  /\ t \in delayed
  /\ delayed' = delayed \ {t}
  /\ UNCHANGED <<teamVars, st, attempt, lease, lapsed, why, open, reads, sandbox, procVars, stopCall, envVars>>

DeadlinePasses ==
  /\ HasDeadline /\ ~overdue
  /\ overdue' = TRUE
  /\ UNCHANGED <<teamVars, taskVars, sandbox, procVars, stopCall, parent, stops, crashes>>

\* A process dies with its threads; if it served cancel_team_tasks, the call is lost.
Crash(d) ==
  /\ crashes < MaxCrashes
  /\ crashes' = crashes + 1
  /\ stage' = [stage EXCEPT ![d] = "sweep"]
  /\ rec' = [rec EXCEPT ![d] = Idle]
  /\ handlers' = {h \in handlers : h[1] # d}
  /\ stopCall' \in {stopCall, {}}
  /\ UNCHANGED <<teamVars, taskVars, sandbox, overdue, parent, stops>>

-----------------------------------------------------------------------------
(* The next-state relation.                                                *)

Sweep(d) ==
  \/ ExpireDue(d) \/ \E t \in Tasks : RecoverBegin(d, t)
  \/ RecoverStop(d) \/ RecoverStopFails(d) \/ RecoverExtend(d) \/ RecoverFinish(d)
  \/ SweepDone(d)

Dispatch(d) == ClaimNothing(d) \/ \E t \in Tasks : ClaimTask(d, t)

Handler(h) == Attach(h) \/ Abandon(h) \/ \E o \in Outcomes : Complete(h, o)

User ==
  \/ CancelTeam
  \/ \E W \in SUBSET Stoppable \ {{}} : StopTasks(W) \/ StopTasksBegin(W)
  \/ StopTasksEnd
  \/ \E W \in SUBSET Failures(st) : Retry(W)
  \/ StopParent \/ CancelResponseTeam \/ SuppressReceipts
  \/ \E g \in 0..MaxRetries : TakeReceipt(g) \/ FinishReceipt(g)

Environment ==
  \/ \E t \in Tasks : LeaseLapses(t) \/ DelayEnds(t)
  \/ DeadlinePasses
  \/ \E d \in Dispatchers : Crash(d)

Next ==
  \/ \E d \in Dispatchers : Sweep(d) \/ Dispatch(d)
  \/ \E h \in handlers : Handler(h)
  \/ \E r \in sandbox : CleanupTerminal(r)
  \/ User
  \/ Environment

Spec == Init /\ [][Next]_vars
=============================================================================
