# Prism: formal models of the agent runtime

This directory holds TLA+ models of the backend of Prism (`backend/app`), a
platform on which language-model agents review, change and deploy code.  The
models are written from the source, not from the documents; where code and
documents differ, the code is modelled and the difference is a finding (below).

Contents: [the system](#1-the-system) · [the modules](#2-the-modules) ·
[how code becomes a model](#3-how-code-becomes-a-model) ·
[the runs](#4-the-runs) · [fairness](#5-fairness) · [findings](#6-findings) ·
[the proofs](#7-the-proofs) · [limits](#8-what-is-not-covered) · [plan](#9-plan)

## 1. The system

Prism is a FastAPI backend over one SQL database, with a Vue frontend.  The
processes share nothing but the database: all coordination is done with row
locks, lease tokens and status columns, and several processes run the same
background loops.  The parts with a protocol of their own:

| part | state it keeps | operations | hard behaviour |
|---|---|---|---|
| **Agent teams** `services/agent_team_service.py` | team row, task rows (status, attempts, lease token, expiry, delay, error), request message of each attempt, events that record the sandboxes attached and stopped, terminal receipts | create, claim, complete, recover, expire, cancel, cancel some tasks, retry, attach a sandbox | two processes on one team; late handlers; recovery that commits, does network calls and reads again; partial failure of the clean-up; retry invalidating results |
| **Team dispatcher** `services/agent_team_dispatcher.py` | futures of running handlers | `dispatch_once`: sweep, claim, wait; `_execute_claimed` | crash with handlers running; a handler that outlives its lease |
| **Agent mesh** `services/agent_mesh_service.py`, `agent_mesh_dispatcher.py` | messages with status, attempts, expiry; events; quotas | send, `pull_inbox`, `prepare_message_run`, `ack_message`, `defer_message_run`, `finish_message_run`, dispatch | several pages with one session open; a pull that writes what it read earlier; a lock given away half-way; receipts lost, late or repeated |
| **Response runs** `services/agent_responses_service.py`, `deepseek_responses_runtime.py`, `api/v1/agent_responses.py` | run row with a checkpoint, transcript table, ledger of tool executions, approval items | start, drive, call a tool, approve, reject, retry, cancel | two drivers with copies of one checkpoint; a stop at any moment; a crash between operation and record |
| **Recovery of runs** `services/agent_run_salvage.py`, `background_task_recovery.py` | register of live runs, count of recoveries in the checkpoint | salvage after an exception, sweep of orphans, recovery after a restart, scan for lost receipts | each works on a row it read earlier, beside requests of the user |
| **Sandboxes** `services/sandbox_service.py` | environment rows, container ids, desired state | start, stop, reap, preview | an operation in flight when the user stops; worker lost |
| **Project import** `services/project_import_service.py`, `project_import_dispatcher.py` | task row (status, attempt, lease token, expiry, project), the project it makes | create, cancel, claim, touch, heartbeat, recover, complete, fail, `dispatch_once` | the lease is asked for in one session and the work committed in another; a batch that has to return before the next recovery |
| **Approvals** `services/approval_service.py`, in a run `_approval`, `_mark_approval` | approval item | ask, decide, use | decided twice, in opposite ways, by two requests |
| **Cost budget** `services/agent_cost_budget_service.py` | the usage log of the day | a lock around each unattended model call, a check before it | calls without a usage record |
| **Agent scheduler** `services/agent_scheduler_runtime.py` | jobs | tick | the same job twice |
| **Browser actions** `services/agent_browser_service.py` | actions leased to a page | enqueue, claim, report | page closed in between |
| **Evolution, gate, rollback** | proposals, versions | propose, evaluate, apply, roll back | partial application |
| **Review pipeline** `services/review_*`, `agents/` | review task, issues | admit, run, merge | retry after crash |

How they interact: a response run *creates* a team (and stops it when it is
stopped itself); the dispatcher *executes* its tasks, each execution being a
request message of the mesh and, for tests, audits and deployments, a sandbox;
the team *reports back* with a terminal receipt, a mesh message to the session;
a page *pulls* that message and starts a response run that answers it.
`AgentTeam` models the circle from creation to receipt, `SessionInbox` the way
of a message into a run and of the end of the run back to the message, and
`ResponseRun` what happens inside a run.  A run imports projects through a tool
call that only queues the import; `ImportQueue` models the rest.

The complete list of components, also those left out and the reason, is in
`PROJECT.json`; so is the list of hazards, each at its line of code.

### What makes the parts correct

* *Leases*: a result is accepted only from the attempt that holds the lease; a
  lost attempt is repeated, within its budget, and never beside a living
  sandbox of the lost one.
* *The graph*: no task works on a result that was replaced; a failed or stopped
  input neither starts its successors nor leaves them waiting for ever.
* *The end*: a team ends when, and only when, its work has ended; it reports
  success only with a verified result; what ended stays ended, unless a retry
  opens a new generation.
* *The receipt*: each end is reported once; no report of an earlier end, or
  after a stop, reaches the session.
* *The run*: an operation happens at most once, and only when it was approved;
  the transcript, on which the model builds, says of it what happened; a run
  that nobody drives is found, and a run that always fails is given up.
* *The inbox*: a message is answered once, and closed with what its run did or by
  one who may close it without a run.
* *The import*: but for what its owner did to it meanwhile, a project is opened
  only with its contents, stored once, and only for the task that made it; a
  failure leaves nothing; each import ends.

## 2. The modules

| module | what it is | code |
|---|---|---|
| `TeamGraph` | the rules on the work graph: promotion, reduction to a team status with fail-fast, cascade of a stop, selection of a retry | `_promote_dependencies`, `_refresh_team_status`, `cancel_team_tasks`, `_select_retry_tasks` |
| `AgentTeam` | the state machine: one team, its dispatchers, handlers, sandboxes, receipts, user and clock | `agent_team_service.py`, `agent_team_dispatcher.py`, parts of `agent_mesh_service.py` |
| `AgentTeamProps` | invariants, action properties, fairness, liveness, and a statement the code does not keep | |
| `TaskBoard`, `AgentTeamBoard` | the abstract specification of a queue of leased tasks and the mapping under which `AgentTeam` implements it (the one for `ImportQueue` is in `ImportQueueProps`) | |
| `TeamLoops` | the loops behind the rules of `TeamGraph`, row by row | same functions |
| `TeamPlan` | how a new plan is completed, ordered and judged | `_create_team`, `_normalize_verification_graph`, `_topological_order`, `_has_parallel_worker_tasks` |
| `ImportQueue`, `ImportQueueProps` | import tasks, their workers and dispatchers, the projects they make | `project_import_service.py`, `project_import_dispatcher.py`, parts of `project_service.py` and `code_file_service.py` |
| `ResponseRun`, `ResponseRunProps` | one run: drivers, checkpoint, transcript, ledger, approvals, stop, recovery | `agent_responses_service.py`, `deepseek_responses_runtime.py`, `agent_run_salvage.py`, `background_task_recovery.py`, `api/v1/agent_responses.py` |
| `SessionInbox`, `SessionInboxProps` | the messages of a session, the requests of its pages, the receipts, and those who close messages without a run | `agent_mesh_service.py`, `api/v1/agent_responses.py`, `api/v1/agent_mesh.py`, `background_task_recovery.py`, parts of `agent_team_service.py` |
| `MCAgentTeam`, `MCTeamLoops`, `MCTeamPlan`, `MCResponseRun`, `MCSessionInbox` | small instances for TLC | |
| `TeamGraphProofs` | what the rules do to one task, for every graph | |
| `TeamLoopsProofs` | the loops compute these rules, for every graph and order of the rows | |
| `TeamPlanProofs` | the judgement of a plan, for every list of tasks | |
| `AgentTeamProofs` | types, attempts, leases, messages, sandboxes | |
| `AgentTeamResultProofs` | end, result, inputs and receipts of a team; its refinement of `TaskBoard` | |
| `ImportQueueProofs` | types; active projects, kept projects, contents stored once and clean failures; the refinement of `TaskBoard` | |
| `ResponseRunProofs` | types, ledger, approvals, transcript | |
| `SessionInboxProofs` | types, closed messages, messages answered once, true receipts | |

`AgentTeam` extends `TeamGraph`; `TeamLoops` justifies the fixpoints of
`TeamGraph`; `TeamPlan` justifies its assumption `GraphAssumption`.  `SessionInbox`
takes a run of `ResponseRun` as its status, the stop of the run that created
a team (`StopParent` of `AgentTeam`) as the set `stopped`, and the retry of a team
as the set `retried`.  A
definition whose name ends in `M` is a deliberate mistake that stands before the
definition it spoils; nothing uses it except the mutation runs of `PROJECT.json`,
which show that the property could fail.

## 3. How code becomes a model

**Atomicity of the team service.**  Every function of the team service locks the team row
(`SELECT … FOR UPDATE`) before it reads and holds the lock to its commit, so one
action is one such transaction.  Functions that commit on the way are cut there:

* `recover_expired_leases`: `RecoverBegin` (new token and expiry committed),
  `RecoverStop`/`RecoverStopFails` (network calls, no lock), then
  `RecoverFinish` or `RecoverExtend`, which read the row again;
* `cancel_team_tasks` when a stopped task owns sandboxes: its changes are only
  flushed when `stop_environment` commits or fails on the same session, so
  `StopTasksBegin` either commits or rolls them back, and `StopTasksEnd` goes on
  with the rows as it then finds them;
* the stop of a response run: `StopParent`, `CancelResponseTeam`,
  `SuppressReceipts` are three transactions.

**State of a team.**  `team`, `st`, `attempt`, `lease` are the columns of the same meaning.
`lapsed`, `delayed` and `overdue` say which of the times in the rows have passed;
they replace clocks, and change by actions of the environment that can come at
any time.  `open` is the set of request messages in processing, `notice` the
terminal receipt of each generation, `gen` the number of retry events, `sandbox`
the environments attached and not recorded as stopped.  `stage`, `rec` and
`handlers` are the threads: where each `dispatch_once` is, what its recovery has
done, and which attempts are executing.  `reads` and `why` are data the rules
depend on: whose results an attempt was given, and the `failed_tasks` list of a
task closed by fail-fast.

**Tokens.**  A lease token is random in the code; here it is named by what it was
drawn for (`Claim(a)`, `Cleanup(d)`).  Equality of tokens is all the code uses.

**A handler** (`_execute_claimed`) is reduced to the checks and writes it shares
with the others: it may attach a sandbox, complete with one of four outcomes if
its lease is valid, or end without a result.

**`_user_cancelled_task`.**  A task with error code
`task_cancelled_by_instruction` is treated differently from a cancelled one in
almost every rule; it has the status `stopped` here.

**Atomicity of the import.**  Owner and dispatcher act by conditional updates or
under the lock of the row, one action each.  A worker asks `_assert_import_lease`
in a session of its own and writes in another, without a lock on the task: each
window between a question and the next commit is a step (`make`, `made`,
`ingest`), and the commits `Make` and `Ingest` do not look at the lease.
`recover_expired_leases` reads its rows (`Sweep`) and updates them one by one
(`Recover`) by a condition that repeats the question; the clean-up that follows
uses the project it has read.  All tasks of the model want the same project
name: with different names imports do not meet.  A worker that loses its lease,
breaks off, or whose owner lost the right is `Break`.

**The owner and his project.**  `HIDDEN_PROJECT_STATUSES` does not contain
`importing`: a project can be found, and changed like any other, from the commit
that makes it.  `UpdateStatus` and `Rename` are the two things `update_project`
writes (`project_service.py`, lines 356–384: no question for the status, no lock),
`DeleteProject` and `EditFiles` what else he may do.  `edits` records who did what
to which project, for the properties only; `renamed` is in the code the name.
`Cleaned` is the whole of `_cleanup_partial_import_project`: it leaves alone what
has another name than the task's, and what is no longer `importing`.

**Atomicity of a run.**  `save`, `claim`, `create`, `_mark_approval` and the two
commits of `_execute_once` are a transaction each; every check between them
(`Halts`) reads the row afresh.  `salvage_crashed_run` and
`sweep_orphan_runs_once` read and write without a lock or a version: two steps,
the second of which writes what it made of the row it read.  A driver is a
request or a recovery thread; its copy of the checkpoint is `ck`.  The
transcript is reduced to what it says of each call (`ev`): asked, or its outcome.
`tail` is the part of the table behind the row; `Extends` is the question of
`_extend_run_transcript` whether the table still ends where the row does.  The
`failed` of the model stands for failed, incomplete and max_rounds_exceeded, which
are all retried in the same way; several pending recovery threads of one run are
one (`waking`); the two commits of a refused call (`Deny`) are one step.

**Atomicity of the inbox.**  `pull_inbox` reads messages, parents and runs and
writes later without a lock: `Pull` and `PullWrites`.  `prepare_message_run`
holds the lock of its message from the question to the acknowledgement
(`Prepare`), except when the message is queued again: then it pulls first, reading
and writing like any other pull (`PullAgain`, `PulledAgain`), the commit of that
pull gives the lock away, and the acknowledgement follows without it (`Take`).
Link and acknowledgement of a receipt are two commits (`Link`, `Ack`).

**Who closes a message.**  Beside the receipts of runs:

| action | code | what it closes |
|---|---|---|
| `Prepare`, `Take` | checks in `prepare_message_run` (parent, snapshot of the team, cost guard) | a message in `Void`, as completed, instead of taking it |
| `PullWrites`, `PulledAgain` | `pull_inbox` | results of stopped runs, as cancelled |
| `StopReads`, `StopWrites` | `_suppress_parent_run_team_notifications`, no lock | receipts of teams of a stopped run, as cancelled |
| `RetryTeam` | `_supersede_unconsumed_terminal_notifications`, under its locks; refused while the receipt is processed | the receipt of the team, as completed |
| `GuardReads`, `GuardWrites`; in `Restart` | `sweep_blocked_jarvis_messages`, no lock | briefs of JARVIS, as completed; their active runs fail |
| `PageAcks` | `POST /messages/{id}/ack` | what a page likes, as it likes |

`stopped`, `retried` and `guard` are what their authority rests on, `hand` and
`doomed` what they have read and not yet written.  `Void` is what is to be closed
without a run: a receipt whose team was retried no longer passes
`_verified_terminal_team_snapshot`.  The pages of the frontend send the
acknowledgement of the last row for briefs, for results of a run they have
stopped, and for receipts whose run failed (`acknowledgeTeamProgressReceipt`).
The endpoint asks neither for that nor for the run, so `PageAcks` allows every
status for every message; as it closes a message by no one's leave but the
page's, it is one of the seven causes below.

`mishaps` records what the environment chose (at most `MaxMishaps`) and the four
mix-ups of the code itself; beside the bound only the properties read it.

**Loops as fixpoints.**  `_promote_dependencies`, the cascade and the retry
selection go over the rows until nothing changes.  `TeamGraph` states their
results as least closed sets, without recursion, so that they can be proved
about; `TeamLoops` runs the loops row by row and compares.

**Lists as sets in their order.**  `_topological_order` and
`_normalize_verification_graph` filter the list of task rows; `TeamPlan` takes
the set of the rows that pass and `InOrder`, the one list of them in the order of
the plan.  A plan that uses a task key twice is refused whatever else is in it
(`agent_team_service.py`, line 366), so `Keys` repeats none.

## 4. The runs

| run | instance | what is enabled | shows |
|---|---|---|---|
| `TeamLeases` | worker → verifier | 2 processes, a crash, a sandbox, 2 attempts, deadline, page team, stop of the run, a retry | leases, budget, messages, recovery, receipts, finality |
| `TeamStops` | 3 workers, one using another, and their verifier | 2 tasks at once, a partial stop, a retry, a sandbox, delays | inputs stay fresh, nothing stalls, stops stay, ends and results, refinement |
| `TeamLive` | worker → verifier | fairness, deadline, crash, retry, sandbox | the team ends; sandboxes are reclaimed |
| `TeamLoops` | 4 tasks, every rule | all statuses, two row orders | the loops compute `TeamGraph` |
| `TeamPlan` | all plans of ≤ 3 tasks | all roles, dependencies, limits | accepted plans satisfy `GraphAssumption` |
| `ImportQueue` | 2 tasks for one name, one audited | 2 attempts, a batch of 2, cancel, a crash, one kind of change of one project by its owner (status, name, files, deletion), fairness | active projects, clean failures, refinement, each import ends |
| `ResponseRun` | 2 drivers, one guarded call | stop, a rival run, one recovery, one mishap (request sent twice, exception, failing commit, restart), fairness | operations, approvals, transcript, the run settles |
| `SessionInbox` | 2 requests, 1 message of 2 attempts (a receipt or a brief), 2 runs | a stopped parent, a retry of the team, the cost guard, one mishap of restart, exception, failing receipt, retry of the run, acknowledgement by a page | answered once, true receipts, closed stays closed |
| `Claim…` | the smallest that fails | | the findings |

Bounds and why they suffice.  `MaxRetries = 1` gives two generations, enough for
an old receipt to meet a new one; `MaxStops` 1 lets a stop meet a retry in either order;
`MaxCrashes = 1` lets the survivor find what the dead process left; two attempts
let a late handler of the first meet the second; two processes let a recovery
meet a claim and another recovery.  Of the import, two tasks meet in one batch
and at one name, and the second attempt finds the project of the first; one
dispatcher, because the service is deployed with one worker process (section 6
says what a second adds).  `MaxEdits = 1` bounds the changes to one kind, which
the owner may repeat at any moment; six in any mixture have been checked
without fairness in more than 4.6 million states.  Of a run, two drivers meet at the row and at the
ledger; one recovery is enough to exhaust a budget; the second mishap of a run
has been checked with one driver.  `LongCalls = FALSE` says that whoever works on
a run saves at least once in the 15 minutes of its lease, so that the sweep finds
a lapsed row only where nobody works any more; with `TRUE` it may also read one that
is alive and write it when it no longer is.  That has been checked with two
drivers for the invariants (9.6 million states) and with one driver and two
mishaps for `RunSettles`; the theorems do not depend on it.  Of the inbox, two
requests meet at a message, the second run meets the receipt of the first.  A
note behaves there like a receipt that nobody stops or retries, a result like one
that nobody retries.  `NotMixedUp` cuts a behaviour off after the code has mixed
something up, from where on the properties promise nothing; two mishaps in one
behaviour have been checked with a receipt (8.9 million states) and with a brief
(1.4 million).  What a further retry, process, driver,
call or message could add is covered by the proofs, which hold for all values.
Deadlock is checked for the teams and the imports; the algorithms of `TeamLoops`
and `TeamPlan` end, a run may be over and an inbox empty.

The properties, in short (their comments name the code):

* `LeaseIntegrity`, `SoleHolder`, `RequestLedger`, `AttemptBudget`: attempts,
  tokens, messages and counts agree (`ActiveLimit`, the limit of children, is a
  part of what `ImplementsBoard` says, and proved);
* `RecoveryClean`, `RequeueClean`: a recovery repeats nothing over a live sandbox;
* `FreshInputs`: no task runs or completes on a result that a retry replaced
  (summarizers and what builds on their reports excepted, see section 6);
* `NothingStalls`: what the next claim of a live team promotes and refreshes has a
  task to run or ends the team, unless the user stopped a verifier or summarizer
  (finding 1); `TerminalSettled`, `CompletedDelivers`, `TerminalStays`,
  `StoppedStays`;
* `ReceiptPerGeneration`, `ParentSilenced`, `ReceiptStable`;
* `ImplementsBoard`: under the mapping of `AgentTeamBoard`, or of
  `ImportQueueProps`, every behaviour is one of `TaskBoard`, a board that lends
  each task to one attempt, at most `Limit` at once, closes only when nothing is
  left on it, and reopens only for a new round;
* `TeamEnds`, `SandboxesReclaimed`, `ImportEnds`, `RunSettles`: liveness;
* `PromotionIsLeast`, `ChosenIsLeast`, `LoopsEnd`;
* `AcceptedIsGraph`, `CycleIsReal`, `EveryResultReachesVerification`, `LimitIsFair`;
* `ActiveIsEarned`, `SucceededKeepsProject`, `ContentsOnce`, `FailedIsClean`: an
  active or archived project belongs to a successful task, unless its owner gave it
  that status early; a successful task has its project, whatever the owner did but
  delete it; such a project holds its contents once, unless the owner opened it
  early or changed its files; and a failure leaves neither a project nor files
  without one, unless the owner had renamed the project;
* `AtMostOnce`, `OnlyApproved`, `SuccessIsTrue`, `CompletedAnswersAll`;
* `HandledOnce`, `ReceiptsAreTrue`, `ClosedStays`: two runs do not both complete
  an answer to one message; a message that was not to be closed without a run says
  completed or cancelled only if a run that answers it was, and a receipt that a
  retry withdrew is nobody's work; what is closed stays as it is.

**The seven causes.**  The code keeps these three only as long as none of seven
things happens, and the properties say so in their precondition `Undisturbed`:

| cause | what happens | where |
|---|---|---|
| `error` | an exception after the message was taken acknowledges `failed` while the run is salvaged and may complete | `api/v1/agent_responses.py` 1795 |
| `retry` | the user retries a failed run whose message was queued again | same, 1663 |
| `page` | a page acknowledges a message itself with an end or as being processed | `api/v1/agent_mesh.py` 243 |
| `overlap` | a pull, a stop or the cost guard writes over a row that has changed since it was read | `agent_mesh_service.py` 1922, 80; `agent_team_service.py` 2789 |
| `shared` | two requests take one message, after the pull inside gave the lock away | `agent_mesh_service.py` 2251, 2072 |
| `guess` | a cancel takes the newest message in processing for that of its run | `api/v1/agent_responses.py` 1675 |
| `replay` | a receipt of an earlier run moves a message that another has taken | `background_task_recovery.py` 118 |

Each was found by a check that failed without it.  The hazards behind them are
therefore *not* covered by the three properties (`PROJECT.json` says so at each;
`replay` has the run `ClaimReplay`).  What they cover is everything else the
model contains: restarts, lost receipts, recoveries, scans, deferrals, waiting
runs, cancellations of linked runs, team retries, stops and the cost guard in any
order.  A page that acknowledges a message as seen (`acknowledged`) is among
these.

## 5. Fairness

Nothing is assumed about users, owners, crashes, deadlines or the outcome of
what a handler, worker or tool does.

`FairSpec` of `AgentTeamProps`:

* each process starts `dispatch_once` again and again: an interval job of the
  scheduler with `max_instances=1`, which also waits for its handlers, so sweep
  and claim alternate — weak fairness of `Sweep` and `Dispatch`;
* every sweep queries *all* due leases, so a lease that is due again and again
  is taken up: strong fairness of `RecoverBegin` for each task;
* a sandbox worker does not refuse every stop for ever: strong fairness of
  `RecoverStop`, weak fairness of `CleanupTerminal` (the clean-up looks only
  at the oldest 100 cancelled or expired teams, line 1314; the assumption holds
  for a team while it is among them);
* a handler returns (its calls have time limits), leases lapse and delays end.

`TeamEnds` is checked without partial stops (`Stoppable = {}`): with them it is
false, which is the finding `EndedTasksEndTeam`.

`FairSpec` of `ImportQueueProps`: `dispatch_once` comes back (interval job),
workers end (downloads, scans and database calls have time limits), the clock
moves on.  Weak fairness of `Dispatch` as a whole is enough: it sweeps, claims
and waits in turn.

`FairSpec` of `ResponseRunProps`: a task of the event loop and a thread run on,
the recovery thread that was started starts, the orphan sweep comes back, the
cancel request goes on after its first commit.

## 6. Findings

Each is a run that TLC refutes with the code as it is.

1. **A stopped member can leave its team queued for ever** (`ClaimStuck`).  Two
   branches, each with a verifier; the user stops the worker of one.  Its
   verifier goes with it by the cascade.  When the other branch has completed,
   all tasks have ended, but `AllVerified` wants *every* verifier completed and
   no task counts as failed, so `_refresh_team_status` falls through to `queued`.
   No further call changes that: there is nothing to claim, and no receipt.
   `NothingStalls`, proved for every graph, says that a stopped verifier or
   summarizer is the only way to get there.
2. **A cancelled import can leave a project that is "importing" for ever**
   (`ClaimImportClean`).  The worker finds its lease, the owner cancels and there
   is no project to clean up yet, the worker commits the project and leaves at
   its next check.  No task leads to the project any more, and it occupies its
   name for the owner.  The same window is open during the storage of the
   contents.
3. **A run that waits for approval is failed by its own recovery**
   (`ClaimPauseStays`).  The recovery thread calls `salvage_crashed_run` when it
   has done its work; once the count of recoveries has reached its limit, that
   call gives up every active run, the one that waits for its user included, and
   drops the pending call.
4. **The scan for lost receipts asks again what is being answered**
   (`ClaimReplay`).  It pairs a failed run with the message it once answered
   although a later run has taken the message: the message goes back to the
   queue, or to `dead_letter`, under the run that answers it.

Seen while reading and checking, without a run of their own.

*Teams.*  `stopped_tasks` may name a task whose cancellation was rolled back with
the clean-up of its sandboxes (`cancel_team_tasks`, line 3737).  A retry during
the summary restarts completed and blocked successors, but not a *running*
summarizer, which completes the team on the old results (line 3774); and when a
task builds on the report of a summarizer that has completed over a failure, a
retry of that failure takes the report back while the task keeps running on it.
One finished verifier anywhere is enough for a partial success, also when the
verifier of another branch failed (line 2366).  A retryable failure queues its
task again without stopping the sandbox of the attempt (line 3233).  The cascade
of a stop starts from the tasks *named*, also from one that had already
completed (line 3691).  Fail-fast closes independent waiting work once the only
summarizer has finished (line 2287).  `_normalize_verification_graph` can create
a cycle when it feeds a worker that depends on the last verifier into that
verifier; the plan is then refused.  Behind 100 older cancelled or expired teams
the left-over sandboxes of a newer one are never tried again (line 1314).

*Imports.*  `update_project` asks for no status (`project_service.py`, line 380):
the owner can open or archive a project that is being imported and has no
contents, or none that are complete.  When he renames one (line 374), the clean-up takes it
for somebody else's and a failed or cancelled import leaves it "importing" for
ever, with its files.  Files that he puts into it the next attempt takes for its
own.  It reads the project without a lock, so that it can bring back one that was
deleted meanwhile.  The properties name these cases (`edits`), and nothing else
follows from them: they spoil that project only.  With two dispatcher
processes (not how the service is deployed, `--workers 1`) TLC also violates
`ContentsOnce` and `FailedIsClean`: two attempts of one task may store the
contents under one project, and a failed one may leave a project; and if the owner
also renames a project, a late worker may make a second one and put it in the place
of the first, which has succeeded.

*Runs.*  `salvage_crashed_run` and the sweep write a row they read earlier: a
stop, a completion or a cancellation in between is overwritten, although a
comment of `save` calls both final (`agent_responses_service.py`, line 942).  A
request that the run refuses — sent twice, or too late — raises, and the
handler of the exception then salvages the *living* run, so that two drivers
work on it; the ledger keeps them from repeating an operation, which is what
`AtMostOnce` shows.  A run whose session went on with another run can no longer
be saved, neither stopped nor failed.  A retry does not ask whether another run
of the session is active.  When the commit after an operation fails, the
transcript says that the operation failed although it happened.

*Inbox.*  The causes of section 4.  After a restart during the first drive of a
run its message stays in `processing`, because `mesh_message_id` is written only
at the end of the drive (line 1463).  The cost guard looks at the first 500 open
messages of all kinds, so behind 500 others a brief stays open (line 95), and it
does not end a run whose link is not yet written.

## 7. The proofs

`tlapm` checks every proof; they assume `GraphAssumption`, `ParameterAssumption`,
`LoopAssumption`, `PlanAssumption`, `ImportAssumption`, `RunAssumption` and
`InboxAssumption` only (a finite acyclic graph with work and verification; errors
that blame tasks; task keys that differ; finitely many imports; positive limits;
finite bounds), and what is said of the number of processes below; TLC evaluates
them on each run.  The number of tasks, processes, attempts, drivers, tool
calls, messages, pages, retries and crashes is arbitrary.

Teams:

1. `TeamGraphProofs` says what the rules do to *one* task: `PromotedTasks`,
   `RefreshedTasks`, `SettledTasks` (nothing starts or stops running, what ended
   stays), `VerdictIsFinal` (a final status leaves no task open),
   `CompletionDelivers`, `StopTargetsUnfinished`, `RetryRowsEnded`,
   `PromotedReady`.
2. `TypeCorrect`: one step for each action.
3. Two classifications replace a case split over all actions in each proof.
   `StepKinds` (`AgentTeamProofs`): a step starts a recovery, claims, extends
   a recovery, retries, lets a lease lapse, or *ends* work on a set of tasks.
   `ResultKinds` (`AgentTeamResultProofs`): a step is progress of a live team, a
   late promotion, a retry, or concerns receipts only.
4. The invariants and what had to be added to make them inductive:

| theorem | property | strengthening |
|---|---|---|
| `LeasesAreSound` | `LeaseIntegrity` | none |
| `OneHolder` | `SoleHolder` | `HandlerIdentity`: a handler works for an attempt that was made, no two for the same one. The property alone says nothing of a handler whose lease is not valid now, but may be in the next state |
| `AttemptsAreBounded` | `AttemptBudget` | `BudgetLeft`: a task on offer has an attempt left |
| `LedgerIsExact` | `RequestLedger` | none |
| `LimitIsKept` | `ActiveLimit` | none; cardinality lemmas |
| `RecoveryIsClean` | `RecoveryClean` | `CleanLease`: drops the status of the task; the lease of the recovery alone keeps handlers from attaching |
| `LostLeaseRequeuesClean` | `RequeueClean` | `CleanLease`, `LeaseIntegrity`, and `Requeues`: only `complete_task` and the end of a recovery queue a running task |
| `EndsAreFinal` | `TerminalSettled` | none; `VerdictIsFinal` |
| `NeverStuck` | `NothingStalls` | `CancelledTogether`: a task is closed only together with its team. Of the tasks still waiting after a promotion, the first in the order that `Acyclic` gives would wait for nothing (`FirstTask`, `NothingToWaitFor`); so none waits, and if none runs either the tasks' statuses have a verdict (`EndedIsFinal`) |
| `CompletionIsEarned` | `CompletedDelivers` | `TerminalSettled`: otherwise the late promotion of a stop call could touch an ended team |
| `EndsStay`, `StopsStay` | `TerminalStays`, `StoppedStays` | `TerminalSettled`; none |
| `OneReceipt` | `ReceiptPerGeneration` | none |
| `StoppedRunIsSilent` | `ParentSilenced` | none |
| `ReaderSeesTheEnd` | `ReceiptStable` | `ReceiptPerGeneration`, `TerminalSettled` |
| `InputsStayFresh` | `FreshInputs` | `InputsEnded`: a task that may start needs only results that are final; that a retry never selects one of them (`SolidKept`) follows by giving the least closed set of `RetryRows` a closed set that avoids them |
| `TeamIsBoard` | `ImplementsBoard` | `TerminalSettled` |

5. The refinement, `TeamIsBoard`: a claim is `Lend`, a retry `Reopen`; by
   `StepKinds` and `ResultKinds` every other step only ends work, and by
   `Requeues` and `RequeuedAlone` it offers at most one running task again, which
   is `GiveBack`, or none, which is `TakeOff` or no change.  `TerminalSettled`
   gives the board's condition for closing.  `TaskBoard` states no fairness, so
   this is a matter of steps; liveness is checked of `AgentTeam` itself.

The rules themselves:

* `PromotionLeast`, `ChosenLeast` (`TeamLoopsProofs`): what a loop has done
  when a whole pass changes nothing is the least fixpoint that `TeamGraph` defines.  `KeepsToFixpoint`: whatever a loop did so far belongs to
  the fixpoint.  `PassDone`: as long as the pass has changed nothing, no row it
  has gone by can be changed; so at its end the result is closed under the rule.
  Both directions rest on lemmas of `TeamGraphProofs` that a fixpoint lies in
  every closed set (`DoomedLeast`, `StopTargetsLeast`, `RetryRowsLeast`).
* `AcceptedGraphs`, `CyclesAreReal`, `ResultsReachVerification`, `LimitsAreFair`
  (`TeamPlanProofs`).  While Kahn's loop runs, `indegree` counts the dependencies
  that are not in order yet, and the tasks queued or in order are exactly those
  with none (`SortOK`); a task stands behind its dependencies (`Sorted`).  So if
  the queue runs empty too early, the tasks left out form a `Knot`; otherwise the
  places in the order are the ranks of `Acyclic`.  `TraceOK`: the ancestors of
  each task gone through are exactly the tasks it waits for.  In an order without
  an uncovered worker the last task that waits for a result is a verifier or
  summarizer, which proves what the comment of `_validate_verification_coverage`
  (line 419) says.  `AcceptedIsGraph` is `GraphAssumption` of `TeamGraph`, told of
  the plan: with it the theorems about teams hold of every team that
  `_create_team` makes.

Imports.  `ImportTypes`; then `ActiveIsAlwaysEarned` and `SuccessStays` from one
invariant (`SInv`), which says whose a project can be: a link and the project in
a worker's session lead to an attempt of the same task, an active project is the
link of a task that succeeded or was opened by its owner, and a worker that knows
a project and holds the lease finds one in the row (`Holding`).  The owner's
changes keep it, whatever their number.  One step could break it: a worker that
comes late and finds its name free, because the project of its own task, which has
succeeded, was renamed (`MakesInTime`).  Hence the hypothesis of the two theorems:
one process, where no worker comes late, or an owner who renames nothing, where the
name is taken (`NamesStay`).  `QueueIsBoard` is the refinement:
every step but a claim changes the status of at most one task (`RowSteps`), and
a claim lends a task that was offered, below the limit.

`StoredOnce` and `FailureLeavesNothing` have the hypothesis `OneProcess`, one
dispatcher process, which is how the service is deployed and without which they
are false (section 6).  With it a process has no workers while it sweeps or recovers (`SweepsAlone`);
a worker has the lease of the last attempt until its task is cancelled, agrees
with the row on the project and, if the owner left the files alone, stores
contents into an empty one (`WorkerOK`); a half imported project is the link of
its task's row, unless renamed also after the failure of the task, and contents
without a project remain only of a cancelled task (`Traceable`); and what a
recovery has read of a row is still true when it updates it, but for a project
renamed since (`SeenTrue`).  TLC checked `UInv` on the instance of the run first.

Runs.  One invariant carries the four theorems `RunsAtMostOnce`,
`RunsOnlyApproved`, `SuccessHappened`, `CompletedIsWhole`.  Its parts: what the
ledger says of a call agrees with how often it ran and with where its one driver
is (`CallOK`, `Alone`); every copy of the checkpoint — in the row, at a driver,
in the hands of the sweep — tells of a success only what the ledger records, and
is complete if it is completed (`Known`, of every copy, because a stale one may
be written back at any moment); and a driver at a given place knows what brought
it there (`DriverOK`).  The number of drivers does not enter: nothing but the
ledger row keeps an operation from running twice, and it is enough.

Inbox.  `InboxTypes` and `ClosedMessagesStay` need types and what each place of
a request implies.  `MessagesHandledOnce` and `MessageReceiptsAreTrue` follow
from an invariant that is only claimed while none of the seven causes has occurred
(`Undisturbed => Strong`); a cause once recorded stays, so this is stable.  `Strong` says:

* a message has at most one claim, a request that has prepared it or a run that
  answers it and has not failed (`OneClaim`); one that may still be taken has none
  (`WaitingFree`); of two runs for one message the later was created after the
  earlier had failed or was stopped (`RunsInOrder`, `OneClaim`);
* links and requests name the message their run answers or none (`OwnLinks`), a run
  has one driver (`Driven`), and what a request, a recovery thread or the scan is
  about to report is true of the run (`Outcomes`);
* who has messages in hand may close them (`Hands`), and a request whose run was
  refused has a message of a stopped parent (`Stillborn`);
* a closed message outside `Void` has a run of the same end (`ClosedTrue`), one that
  is not in processing and whose parent was not stopped is nobody's work
  (`Attended`), and a withdrawn receipt is closed (`Withdrawn`).

The guard breaks the first two rules, for it fails runs while others drive them:
the runs of the briefs it has closed (`Shut`) are allowed any end, because nothing
becomes of it.  Most steps leave claims and closed messages alone; `Lasts` and
`Calm` say that once, and each action has a lemma for what it does move.

Only model-checked is liveness (`TeamEnds`, `SandboxesReclaimed`, `ImportEnds`,
`RunSettles`, `LoopsEnd`): fairness and `ENABLED` are outside the prover's reach.
Induction theorems cannot be used either, because they take an operator; what
needs induction here (the order of the rows, the first and the last task of an
order, the first task that still waits) is proved by a least counterexample, from
the well-foundedness of the natural numbers (`LeastNumber`, `FirstTask`).

## 8. What is not covered

Of the team service: `archive_team`; the display status of members; confirmation
of tasks by a supervisor; the queue limit of an account; strategy records; the
hand-over of a running deployment to its verifier; the branch of
`_refresh_team_status` for a team without verification, which `_create_team`
excludes; the status `dead_letter`, which no statement gives to a task row.  Of
the dispatcher: the number of worker threads and the rotation over teams.  One
team is modelled: teams share no state but limits.  A crash while
`recover_expired_leases` is between two sandboxes is covered as a stop of some of
them.  Request messages are modelled as far as the team writes them.

Of the import: what the archive contains and how it is unpacked, the check of the
owner's rights before each step (one more way to fail), the idempotency key of a
request, the status `running` of rows written by an older version.  The owner's
changes are those to the project row and its files; members, teams and shares of a
project are left out.

Of a run: `ask_user` and its answer, which pause and resume as an approval does;
compaction of the context, retries for the output budget, the completion guard
and images, which change what the model is sent; two runs of one session beyond
`rival`.  Of the recoveries: those of other kinds of tasks.

Of the mesh: sending and its quotas, expiry (no message of the model expires
between pull and answer), `peek_inbox`, the messages to specialist agents and
their dispatcher.  Of the check of a team snapshot only its verdict on a team that
works again is modelled; a damaged snapshot would close its message in the same
way.

Not modelled at all: sandboxes as such (their life is that of containers, driven
by scripts and a runner outside the Python code), the review pipeline, browser
actions, the scheduler's jobs, budget, evolution, penetration tests, reports,
accounts, frontend.  `PROJECT.json` gives the reason for each.

## 9. Plan

Done: the teams (`TeamGraph`, `AgentTeam`, `TaskBoard`, `TeamLoops`, `TeamPlan`),
the imports (`ImportQueue`), the runs (`ResponseRun`) and the inbox
(`SessionInbox`), each with its properties, findings and proofs.  What would add
most next:

1. the composition of `ResponseRun` and `SessionInbox` (the inbox takes a run as
   its status), and of both with `AgentTeam`;
2. the dispatch of messages to specialist agents: leases, expiry, quotas;
3. browser actions: claim, nonce, acknowledgement, expiry, beside the run that
   waits for them;
4. the hand-over of a deployment between two tasks, and several teams behind one
   clean-up.
