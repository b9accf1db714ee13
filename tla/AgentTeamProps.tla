--------------------------- MODULE AgentTeamProps ---------------------------
(***************************************************************************)
(* What an agent team promises: its invariants, what a step may never do,  *)
(* and what must happen eventually when the dispatcher keeps running.      *)
(***************************************************************************)
EXTENDS AgentTeam

(* A task has a lease exactly while it runs.  A lease that a claim drew     *)
(* belongs to the present attempt, so the token of an earlier attempt is    *)
(* never valid again (claim_next_task, recover_expired_leases).            *)
LeaseIntegrity ==
  \A t \in Tasks :
    /\ st[t] = "running" <=> lease[t] # NoLease
    /\ lease[t] \in {"claim"} \X Nat => lease[t] = Claim(attempt[t])
    /\ t \in lapsed => st[t] = "running"

(* However many processes dispatch and recover, at most one handler can     *)
(* write the result of a task (require_active_task_lease, complete_task).  *)
SoleHolder ==
  \A h, k \in handlers :
    h[2] = k[2] /\ LeaseValid(h[2], h[3]) /\ LeaseValid(k[2], k[3]) => h = k

(* The team never runs more tasks at once than max_active_children allows.  *)
ActiveLimit == Cardinality(Running(st)) <= MaxActive

(* No sequence of failures, lapsed leases and retry requests gives a task   *)
(* more attempts than its budget and one for each retry request.           *)
AttemptBudget == \A t \in Tasks : attempt[t] <= MaxAttempts[t] + gen

(* The request messages still in processing are those of the attempts that  *)
(* run: every way out of "running" closes the message of its attempt       *)
(* (_mark_task_request_terminal).                                          *)
RequestLedger == open = {<<t, attempt[t]>> : t \in Running(st)}

(* A team ends only when each of its tasks has ended.                      *)
TerminalSettled ==
  team \in TerminalTeam => \A t \in Tasks : st[t] \in TerminalTask

(* A live team is never stuck, unless the user stopped a verifier or        *)
(* summarizer (finding 1): the rows that the next claim_next_task promotes  *)
(* and refreshes have a task to run, or end the team.                      *)
NothingStalls ==
  IsLive =>
    \/ Verdict(Settled) \in TerminalTeam
    \/ \E t \in Tasks : Settled[t] \in {"queued", "running"}
    \/ \E v \in Verification : st[v] = "stopped"

(* A team that reports "completed" has the result of a verifier or          *)
(* summarizer, and of a worker, also when it completed only in part.       *)
CompletedDelivers ==
  team = "completed" =>
    /\ \E v \in Verification : st[v] = "completed"
    /\ \E w \in Workers : st[w] = "completed"

(* A team that has ended has the one receipt of its present generation; no  *)
(* receipt of an earlier generation can still reach the session            *)
(* (_persist_terminal_team_notification, retry_team).                      *)
ReceiptPerGeneration ==
  /\ team \in TerminalTeam <=> notice[gen] # "none"
  /\ \A g \in 0..MaxRetries :
       /\ g < gen => notice[g] \notin {"queued", "processing"}
       /\ g > gen => notice[g] = "none"

(* When the stop of the response run is through, no receipt of the team     *)
(* can wake the session again (_suppress_parent_run_team_notifications).   *)
ParentSilenced ==
  parent = "settled" => \A g \in 0..MaxRetries : notice[g] \notin {"queued", "processing"}

(* While a recovery is about to start a task again, no sandbox of an        *)
(* earlier attempt lives, whatever handlers and other processes do since   *)
(* the recovery stopped them (recover_expired_leases).                     *)
RecoveryClean ==
  \A d \in Dispatchers :
    \A t \in Tasks : rec[d] = <<t, "finish">> /\ StillRecovering(d, t) => SandboxesOf({t}) = {}

\* The summarizers, which report on what ended by then, and all that builds on
\* a report.
Reports ==
  LET Grow(S) == {t \in Tasks : Deps[t] \cap S # {}}
  IN  Closure(Summarizers, Grow)

(* A task runs and completes on the present results of its dependencies:    *)
(* none of them was retried since it was claimed (_select_retry_tasks).    *)
(* Reports are left out: a summarizer may complete on failures, and a retry *)
(* of those then takes its result back from tasks already at work on it.   *)
FreshInputs ==
  \A t \in Tasks \ Reports :
    st[t] \in {"running", "completed"} =>
      \A u \in Deps[t] : st[u] = "completed" => <<t, u>> \in reads

-----------------------------------------------------------------------------
(* A team that has ended, and its tasks, change only by a retry request,    *)
(* which opens a new generation; a cancelled or expired team never changes *)
(* (_TERMINAL_TEAM guards in every function, retry_team).                  *)
TerminalStays ==
  [][(team \in TerminalTeam) =>
       \/ team' = team /\ st' = st
       \/ team \notin {"cancelled", "expired"} /\ gen' = gen + 1]_vars

(* A task that the user stopped, or that was closed with its team, is never *)
(* started again: not by a late handler, a recovery or a retry.            *)
StoppedStays ==
  [][\A t \in Tasks : st[t] \in {"stopped", "cancelled"} => st'[t] = st[t]]_vars

(* A lost lease starts a task again only when none of its sandboxes lives.  *)
RequeueClean ==
  [][\A t \in Tasks :
       st[t] = "running" /\ st'[t] = "queued" /\ lease[t] # Claim(attempt[t])
         => SandboxesOf({t})' = {}]_vars

(* While the receipt of a generation is being processed, the team it        *)
(* reports on does not change under the reader (retry_team refuses).       *)
ReceiptStable ==
  [][\A g \in 0..MaxRetries :
       notice[g] = "processing" /\ notice'[g] = "processing" => team' = team /\ st' = st]_vars

-----------------------------------------------------------------------------
(* Fairness.  The scheduler of each process starts dispatch_once again and  *)
(* again, and every sweep looks at all lapsed leases; every handler ends    *)
(* (its calls have time limits and it checks its lease); the clock moves    *)
(* on; and a sandbox worker does not refuse every stop for ever.  Nothing   *)
(* is assumed of the user, of crashes, or of what a handler returns.       *)
HandlerEnds(h) == Abandon(h) \/ \E o \in Outcomes : Complete(h, o)

Attempts(t) == 1..(MaxAttempts[t] + MaxRetries)

DispatcherFairness(d) ==
  /\ WF_vars(Sweep(d)) /\ WF_vars(Dispatch(d))
  /\ SF_vars(RecoverStop(d))
  /\ \A t \in Tasks : SF_vars(RecoverBegin(d, t))
  /\ \A t \in Tasks : \A a \in Attempts(t) : WF_vars(HandlerEnds(<<d, t, a>>))

ClockFairness ==
  \A t \in Tasks : WF_vars(LeaseLapses(t)) /\ WF_vars(DelayEnds(t))

CleanupFairness ==
  \A t \in Tasks : \A a \in Attempts(t) : WF_vars(CleanupTerminal(<<t, a>>))

FairSpec ==
  /\ Spec
  /\ \A d \in Dispatchers : DispatcherFairness(d)
  /\ ClockFairness /\ CleanupFairness

(* Whatever fails, lapses or crashes, a team whose user stops no task       *)
(* ends, and it ends again after each retry request.                       *)
TeamEnds == IsLive ~> ~IsLive

(* A sandbox of a cancelled or expired team is stopped in the end, also     *)
(* when the process that closed the team died or a first stop failed.      *)
SandboxesReclaimed == team \in {"cancelled", "expired"} ~> sandbox = {}

-----------------------------------------------------------------------------
(* cancel_team_tasks: "the others go on, the team does not fail because of  *)
(* it" - so a team whose tasks have all ended has ended.  Violated by a run *)
(* of its own: see README.md.                                               *)
EndedTasksEndTeam ==
  (\A t \in Tasks : st[t] \in TerminalTask) /\ stopCall = {} => ~IsLive
=============================================================================
