-------------------------- MODULE AgentTeamProofs --------------------------
(***************************************************************************)
(* Proofs about AgentTeam, for every work graph, every number of           *)
(* dispatcher processes, and every bound.                                  *)
(***************************************************************************)
EXTENDS AgentTeamProps, TeamGraphProofs, FiniteSetTheorems

(* _refresh_team_status keeps the rows of the team well-typed.              *)
LEMMA RefreshTypes ==
  ASSUME TypeOK, NEW s \in [Tasks -> TaskStatus], NEW w \in [Tasks -> SUBSET Tasks],
         NEW dl \in SUBSET Tasks, Refresh(s, w, dl)
  PROVE  /\ st' \in [Tasks -> TaskStatus] /\ team' \in TeamStatus
         /\ delayed' \in SUBSET Tasks /\ why' \in [Tasks -> SUBSET Tasks]
         /\ notice' \in [0..MaxRetries -> NoticeStatus]
<1>1. st' \in [Tasks -> TaskStatus]
  BY RefreshedTasks DEF Refresh
<1>2. team' \in TeamStatus
  BY DEF Refresh, Verdict, FailureVerdict, TeamStatus, LiveTeam, TerminalTeam
<1>3. delayed' \in SUBSET Tasks
  BY DEF Refresh
<1>4. why' \in [Tasks -> SUBSET Tasks]
  BY DEF Refresh, Blamed, Failures, InStatus
<1>5. notice' \in [0..MaxRetries -> NoticeStatus]
  BY DEF Refresh, Notified, TypeOK, NoticeStatus
<1>6. QED
  BY <1>1, <1>2, <1>3, <1>4, <1>5

(* The same for the pair _promote_dependencies, _refresh_team_status.       *)
LEMMA PromoteAndRefreshTypes ==
  ASSUME TypeOK, NEW s \in [Tasks -> TaskStatus], NEW w \in [Tasks -> SUBSET Tasks],
         NEW dl \in SUBSET Tasks, PromoteAndRefresh(s, w, dl)
  PROVE  /\ st' \in [Tasks -> TaskStatus] /\ team' \in TeamStatus
         /\ delayed' \in SUBSET Tasks /\ why' \in [Tasks -> SUBSET Tasks]
         /\ notice' \in [0..MaxRetries -> NoticeStatus]
  BY PromotedTasks, RefreshTypes DEF PromoteAndRefresh

(* _mark_task_request_terminal and the clearing of the lease columns.       *)
LEMMA ReleaseTypes ==
  ASSUME TypeOK, NEW S, Release(S)
  PROVE  /\ lease' \in [Tasks -> {NoLease} \cup ({"claim"} \X Nat) \cup ({"cleanup"} \X Dispatchers)]
         /\ lapsed' \in SUBSET Tasks /\ open' \in SUBSET (Tasks \X Nat)
  BY DEF Release, TypeOK, NoLease

(* Closing a team keeps its rows well-typed.                                *)
LEMMA CloseTeamTypes ==
  ASSUME TypeOK, NEW final \in {"cancelled", "expired"}, NEW deliver \in BOOLEAN,
         CloseTeam(final, deliver)
  PROVE  /\ st' \in [Tasks -> TaskStatus] /\ team' \in TeamStatus
         /\ lease' \in [Tasks -> {NoLease} \cup ({"claim"} \X Nat) \cup ({"cleanup"} \X Dispatchers)]
         /\ lapsed' \in SUBSET Tasks /\ open' \in SUBSET (Tasks \X Nat)
         /\ delayed' \in SUBSET Tasks
         /\ notice' \in [0..MaxRetries -> NoticeStatus]
<1>1. st' \in [Tasks -> TaskStatus] /\ team' \in TeamStatus
  BY DEF CloseTeam, TypeOK, TaskStatus, TeamStatus, TerminalTeam
<1>2. Release(InStatus(st, Unfinished))
  BY DEF CloseTeam
<1>3. delayed' \in SUBSET Tasks
  BY DEF CloseTeam, TypeOK
<1>4. notice' \in [0..MaxRetries -> NoticeStatus]
  BY DEF CloseTeam, Notified, TypeOK, NoticeStatus
<1>5. QED
  BY <1>1, <1>2, <1>3, <1>4, ReleaseTypes

-----------------------------------------------------------------------------
(* Type correctness.                                                       *)

(* The rows that _create_team commits are well-typed.                       *)
LEMMA TypeInit == Init => TypeOK
<1> SUFFICES ASSUME Init PROVE TypeOK
  OBVIOUS
<1>1. st \in [Tasks -> TaskStatus]
  BY DEF Init, TaskStatus
<1>2. lease \in [Tasks -> {NoLease} \cup ({"claim"} \X Nat) \cup ({"cleanup"} \X Dispatchers)]
  BY DEF Init
<1>3. rec \in [Dispatchers -> {Idle} \cup (Tasks \X {"stop", "finish", "extend"})]
  BY DEF Init
<1>4. team \in TeamStatus /\ notice \in [0..MaxRetries -> NoticeStatus]
  BY DEF Init, TeamStatus, LiveTeam, NoticeStatus
<1>5. gen \in 0..MaxRetries /\ stops \in 0..MaxStops /\ crashes \in 0..MaxCrashes
  BY ParameterAssumption DEF Init
<1>6. /\ attempt \in [Tasks -> Nat] /\ why \in [Tasks -> SUBSET Tasks]
      /\ stage \in [Dispatchers -> {"sweep", "claim"}]
  BY DEF Init
<1>7. QED
  BY <1>1, <1>2, <1>3, <1>4, <1>5, <1>6 DEF Init, TypeOK

(* Every operation keeps the rows, messages and threads well-typed.         *)
LEMMA TypeStep == TypeOK /\ [Next]_vars => TypeOK'
<1> SUFFICES ASSUME TypeOK, [Next]_vars PROVE TypeOK'
  OBVIOUS
<1>1. ASSUME NEW d \in Dispatchers, ExpireDue(d) PROVE TypeOK'
  <2>1. CloseTeam("expired", TRUE)
    BY <1>1 DEF ExpireDue
  <2>2. QED
    BY <1>1, <2>1, CloseTeamTypes DEF ExpireDue, CloseTeam, TypeOK, procVars, envVars
<1>2. ASSUME NEW d \in Dispatchers, NEW t \in Tasks, RecoverBegin(d, t) PROVE TypeOK'
  <2>1. lease' \in [Tasks -> {NoLease} \cup ({"claim"} \X Nat) \cup ({"cleanup"} \X Dispatchers)]
    BY <1>2 DEF RecoverBegin, TypeOK, Cleanup
  <2>2. rec' \in [Dispatchers -> {Idle} \cup (Tasks \X {"stop", "finish", "extend"})]
    BY <1>2 DEF RecoverBegin, TypeOK
  <2>3. QED
    BY <1>2, <2>1, <2>2 DEF RecoverBegin, TypeOK, teamVars, envVars
<1>3. ASSUME NEW d \in Dispatchers, RecoverStop(d) PROVE TypeOK'
  <2>1. rec' \in [Dispatchers -> {Idle} \cup (Tasks \X {"stop", "finish", "extend"})]
    BY <1>3 DEF RecoverStop, TypeOK, Idle
  <2>2. QED
    BY <1>3, <2>1 DEF RecoverStop, TypeOK, teamVars, taskVars, envVars
<1>4. ASSUME NEW d \in Dispatchers, RecoverStopFails(d) PROVE TypeOK'
  <2>1. rec' \in [Dispatchers -> {Idle} \cup (Tasks \X {"stop", "finish", "extend"})]
    BY <1>4 DEF RecoverStopFails, TypeOK, Idle
  <2>2. sandbox' \subseteq sandbox
    BY <1>4 DEF RecoverStopFails, SandboxesOf
  <2>3. QED
    BY <1>4, <2>1, <2>2 DEF RecoverStopFails, TypeOK, teamVars, taskVars, envVars
<1>5. ASSUME NEW d \in Dispatchers, RecoverExtend(d) PROVE TypeOK'
  BY <1>5 DEF RecoverExtend, TypeOK, teamVars, envVars
<1>6. ASSUME NEW d \in Dispatchers, RecoverFinish(d) PROVE TypeOK'
  <2> DEFINE t == rec[d][1]
             next == IF attempt[t] >= MaxAttempts[t] THEN "failed" ELSE "queued"
  <2>1. rec' \in [Dispatchers -> {Idle} \cup (Tasks \X {"stop", "finish", "extend"})]
    BY <1>6 DEF RecoverFinish, TypeOK
  <2>2. CASE StillRecovering(d, t)
    <3>1. [st EXCEPT ![t] = next] \in [Tasks -> TaskStatus]
      BY DEF TypeOK, TaskStatus
    <3>2. PromoteAndRefresh([st EXCEPT ![t] = next], why, delayed) /\ Release({t})
      BY <1>6, <2>2 DEF RecoverFinish
    <3>3. UNCHANGED <<gen, attempt, reads>>
      BY <1>6, <2>2 DEF RecoverFinish
    <3>4. QED
      BY <1>6, <2>1, <3>1, <3>2, <3>3, PromoteAndRefreshTypes, ReleaseTypes
         DEF RecoverFinish, TypeOK, envVars
  <2>3. CASE ~StillRecovering(d, t)
    BY <1>6, <2>1, <2>3 DEF RecoverFinish, TypeOK, teamVars, taskVars, envVars
  <2>4. QED
    BY <2>2, <2>3
<1>7. ASSUME NEW d \in Dispatchers, SweepDone(d) PROVE TypeOK'
  BY <1>7 DEF SweepDone, TypeOK, teamVars, taskVars, envVars
<1>8. ASSUME NEW d \in Dispatchers, NEW t \in Tasks, ClaimTask(d, t) PROVE TypeOK'
  <2> DEFINE s == [Settled EXCEPT ![t] = "running"]
  <2>1. Settled \in [Tasks -> TaskStatus] /\ SettledWhy \in [Tasks -> SUBSET Tasks]
    BY SettledTasks DEF Settled, SettledWhy, Blamed, Failures, InStatus, TypeOK
  <2>2. s \in [Tasks -> TaskStatus]
    BY <2>1 DEF TaskStatus
  <2>3. Refresh(s, SettledWhy, delayed)
    BY <1>8 DEF ClaimTask
  <2>4. /\ st' \in [Tasks -> TaskStatus] /\ team' \in TeamStatus
        /\ delayed' \in SUBSET Tasks /\ why' \in [Tasks -> SUBSET Tasks]
        /\ notice' \in [0..MaxRetries -> NoticeStatus]
    BY <2>1, <2>2, <2>3, RefreshTypes DEF TypeOK
  <2>5. attempt[t] + 1 \in Nat
    BY DEF TypeOK
  <2>6. lease' \in [Tasks -> {NoLease} \cup ({"claim"} \X Nat) \cup ({"cleanup"} \X Dispatchers)]
    BY <1>8, <2>5 DEF ClaimTask, TypeOK, Claim
  <2>7. /\ attempt' \in [Tasks -> Nat] /\ open' \subseteq Tasks \X Nat
        /\ handlers' \subseteq Dispatchers \X Tasks \X Nat
    BY <1>8, <2>5 DEF ClaimTask, TypeOK
  <2>8. reads' \subseteq Tasks \X Tasks
    <3>1. Deps[t] \subseteq Tasks
      BY GraphAssumption
    <3>2. \A p \in reads' : p \in reads \/ \E u \in Deps[t] : p = <<t, u>>
      BY <1>8 DEF ClaimTask
    <3>3. QED
      BY <3>1, <3>2 DEF TypeOK
  <2>9. QED
    BY <1>8, <2>4, <2>6, <2>7, <2>8 DEF ClaimTask, TypeOK, envVars
<1>9. ASSUME NEW d \in Dispatchers, ClaimNothing(d) PROVE TypeOK'
  <2>1. stage' \in [Dispatchers -> {"sweep", "claim"}]
    BY <1>9 DEF ClaimNothing, TypeOK
  <2>2. CASE CloseTeam("expired", TRUE)
    BY <1>9, <2>1, <2>2, CloseTeamTypes DEF ClaimNothing, CloseTeam, TypeOK, envVars
  <2>3. CASE PromoteAndRefresh(st, why, delayed) /\ UNCHANGED <<gen, attempt, lease, lapsed, open, reads>>
    BY <1>9, <2>1, <2>3, PromoteAndRefreshTypes DEF ClaimNothing, TypeOK, envVars
  <2>4. CASE UNCHANGED <<teamVars, taskVars>>
    BY <1>9, <2>1, <2>4 DEF ClaimNothing, TypeOK, teamVars, taskVars, envVars
  <2>5. QED
    BY <1>9, <2>2, <2>3, <2>4 DEF ClaimNothing
<1>10. ASSUME NEW h \in handlers, Attach(h) PROVE TypeOK'
  BY <1>10 DEF Attach, TypeOK, teamVars, taskVars, procVars, envVars
<1>11. ASSUME NEW h \in handlers, NEW o \in Outcomes, Complete(h, o) PROVE TypeOK'
  <2> DEFINE t == h[2]
             s == [st EXCEPT ![t] = After(t, o)]
             w == [why EXCEPT ![t] = {}]
  <2>1. t \in Tasks
    BY DEF TypeOK
  <2>2. s \in [Tasks -> TaskStatus]
    BY <2>1 DEF After, Outcomes, TypeOK, TaskStatus
  <2>3. w \in [Tasks -> SUBSET Tasks]
    BY <2>1 DEF TypeOK
  <2>4. PICK dl \in {delayed, delayed \cup {t}} : PromoteAndRefresh(s, w, dl)
    BY <1>11 DEF Complete
  <2>5. dl \in SUBSET Tasks /\ Release({t})
    BY <1>11, <2>1 DEF Complete, TypeOK
  <2>6. QED
    BY <1>11, <2>2, <2>3, <2>4, <2>5, PromoteAndRefreshTypes, ReleaseTypes
       DEF Complete, TypeOK, envVars
<1>12. ASSUME NEW h \in handlers, Abandon(h) PROVE TypeOK'
  BY <1>12 DEF Abandon, TypeOK, teamVars, taskVars, envVars
<1>13. ASSUME NEW r \in sandbox, CleanupTerminal(r) PROVE TypeOK'
  BY <1>13 DEF CleanupTerminal, TypeOK, teamVars, taskVars, procVars, envVars
<1>14. CASE CancelTeam
  <2>1. CloseTeam("cancelled", TRUE)
    BY <1>14 DEF CancelTeam
  <2>2. QED
    BY <1>14, <2>1, CloseTeamTypes DEF CancelTeam, CloseTeam, TypeOK, procVars, envVars
<1>15. ASSUME NEW W, StopTasks(W) PROVE TypeOK'
  <2> DEFINE S == StopTargets(st, W)
  <2>1. Stopped(S) \in [Tasks -> TaskStatus]
    BY DEF Stopped, TypeOK, TaskStatus
  <2>2. PromoteAndRefresh(Stopped(S), why, delayed) /\ Release(S)
    BY <1>15 DEF StopTasks
  <2>3. stops' \in 0..MaxStops
    BY <1>15, ParameterAssumption DEF StopTasks, TypeOK
  <2>4. QED
    BY <1>15, <2>1, <2>2, <2>3, PromoteAndRefreshTypes, ReleaseTypes
       DEF StopTasks, TypeOK, procVars
<1>16. ASSUME NEW W, StopTasksBegin(W) PROVE TypeOK'
  <2> DEFINE S == StopTargets(st, W)
  <2>1. sandbox' \subseteq sandbox
    BY <1>16 DEF StopTasksBegin, SandboxesOf
  <2>2. stops' \in 0..MaxStops
    BY <1>16, ParameterAssumption DEF StopTasksBegin, TypeOK
  <2>3. stopCall' \subseteq Tasks
    BY <1>16, StopTargetsUnfinished DEF StopTasksBegin
  <2>4. CASE st' = Stopped(S) /\ Release(S) /\ delayed' = delayed \ S
    <3>1. st' \in [Tasks -> TaskStatus]
      BY <2>4 DEF Stopped, TypeOK, TaskStatus
    <3>2. QED
      BY <1>16, <2>1, <2>2, <2>3, <2>4, <3>1, ReleaseTypes
         DEF StopTasksBegin, TypeOK, teamVars, procVars
  <2>5. CASE UNCHANGED <<st, lease, lapsed, open, delayed>>
    BY <1>16, <2>1, <2>2, <2>3, <2>5 DEF StopTasksBegin, TypeOK, teamVars, procVars
  <2>6. QED
    BY <1>16, <2>4, <2>5 DEF StopTasksBegin
<1>17. CASE StopTasksEnd
  <2>1. CASE PromoteAndRefresh(st, why, delayed)
    BY <1>17, <2>1, PromoteAndRefreshTypes DEF StopTasksEnd, TypeOK, procVars, envVars
  <2>2. CASE st' = Promoted(st) /\ UNCHANGED <<team, notice, why, delayed>>
    BY <1>17, <2>2, PromotedTasks DEF StopTasksEnd, TypeOK, procVars, envVars
  <2>3. QED
    BY <1>17, <2>1, <2>2 DEF StopTasksEnd
<1>18. ASSUME NEW W, Retry(W) PROVE TypeOK'
  <2> DEFINE rows == RetryRows(st, why, W)
  <2>1. st' \in [Tasks -> TaskStatus]
    BY <1>18 DEF Retry, TypeOK, TaskStatus
  <2>2. lease' \in [Tasks -> {NoLease} \cup ({"claim"} \X Nat) \cup ({"cleanup"} \X Dispatchers)]
    BY <1>18 DEF Retry, TypeOK
  <2>3. gen' \in 0..MaxRetries
    BY <1>18, ParameterAssumption DEF Retry, TypeOK
  <2>4. notice' \in [0..MaxRetries -> NoticeStatus]
    BY <1>18 DEF Retry, Superseded, TypeOK, NoticeStatus
  <2>5. why' \in [Tasks -> SUBSET Tasks]
    BY <1>18 DEF Retry, TypeOK
  <2>6. QED
    BY <1>18, <2>1, <2>2, <2>3, <2>4, <2>5
       DEF Retry, TypeOK, TeamStatus, LiveTeam, procVars, envVars
<1>19. CASE StopParent
  BY <1>19 DEF StopParent, TypeOK, teamVars, taskVars, procVars
<1>20. CASE CancelResponseTeam
  <2>1. CASE CloseTeam("cancelled", FALSE)
    BY <1>20, <2>1, CloseTeamTypes DEF CancelResponseTeam, CloseTeam, TypeOK, procVars
  <2>2. CASE UNCHANGED <<teamVars, taskVars>>
    BY <1>20, <2>2 DEF CancelResponseTeam, TypeOK, teamVars, taskVars, procVars
  <2>3. QED
    BY <1>20, <2>1, <2>2 DEF CancelResponseTeam
<1>21. CASE SuppressReceipts
  <2>1. notice' \in [0..MaxRetries -> NoticeStatus]
    BY <1>21 DEF SuppressReceipts, TypeOK, NoticeStatus
  <2>2. QED
    BY <1>21, <2>1 DEF SuppressReceipts, TypeOK, taskVars, procVars
<1>22. ASSUME NEW g \in 0..MaxRetries, TakeReceipt(g) \/ FinishReceipt(g) PROVE TypeOK'
  <2>1. notice' \in [0..MaxRetries -> NoticeStatus]
    BY <1>22 DEF TakeReceipt, FinishReceipt, TypeOK, NoticeStatus
  <2>2. QED
    BY <1>22, <2>1 DEF TakeReceipt, FinishReceipt, TypeOK, taskVars, procVars, envVars
<1>23. ASSUME NEW t \in Tasks, LeaseLapses(t) \/ DelayEnds(t) PROVE TypeOK'
  BY <1>23 DEF LeaseLapses, DelayEnds, TypeOK, teamVars, procVars, envVars
<1>24. CASE DeadlinePasses
  BY <1>24 DEF DeadlinePasses, TypeOK, teamVars, taskVars, procVars
<1>25. ASSUME NEW d \in Dispatchers, Crash(d) PROVE TypeOK'
  <2>1. crashes' \in 0..MaxCrashes
    BY <1>25, ParameterAssumption DEF Crash, TypeOK
  <2>2. /\ stage' \in [Dispatchers -> {"sweep", "claim"}]
        /\ rec' \in [Dispatchers -> {Idle} \cup (Tasks \X {"stop", "finish", "extend"})]
    BY <1>25 DEF Crash, TypeOK
  <2>3. handlers' \subseteq handlers /\ stopCall' \subseteq Tasks
    BY <1>25 DEF Crash, TypeOK
  <2>4. QED
    BY <1>25, <2>1, <2>2, <2>3 DEF Crash, TypeOK, teamVars, taskVars
<1>26. CASE UNCHANGED vars
  BY <1>26 DEF vars, TypeOK, teamVars, taskVars, procVars, envVars
<1>27. QED
  BY <1>1, <1>2, <1>3, <1>4, <1>5, <1>6, <1>7, <1>8, <1>9, <1>10, <1>11, <1>12, <1>13,
     <1>14, <1>15, <1>16, <1>17, <1>18, <1>19, <1>20, <1>21, <1>22, <1>23, <1>24, <1>25, <1>26
     DEF Next, Sweep, Dispatch, Handler, User, Environment

(* Rows, messages, receipts and threads keep their types, whatever the      *)
(* graph, the number of processes and the bounds.                          *)
THEOREM TypeCorrect == Spec => []TypeOK
<1>1. Init => TypeOK
  BY TypeInit
<1>2. TypeOK /\ [Next]_vars => TypeOK'
  BY TypeStep
<1>3. QED
  BY <1>1, <1>2, PTL DEF Spec

-----------------------------------------------------------------------------
(***************************************************************************)
(* Proofs about attempts and leases: who may work on a task, how often,    *)
(* and over which sandboxes.                                               *)
(*                                                                         *)
(* Of the many actions of AgentTeam only five give or take a lease in a    *)
(* way of their own.  All others end the work on some set of tasks, often  *)
(* the empty one; StepKinds says so, action by action, and the invariants  *)
(* are then proved for the kinds of step.                                  *)
(***************************************************************************)

Offered == {"queued", "waiting_dependency"}

\* No task starts; those of S do not run any more, and a task that is offered
\* again has attempts left.
Ends(S) ==
  /\ S \subseteq Tasks
  /\ Release(S)
  /\ attempt' = attempt /\ gen' = gen
  /\ handlers' \subseteq handlers
  /\ \A t \in Tasks :
       /\ st'[t] = "running" <=> st[t] = "running" /\ t \notin S
       /\ st'[t] \in Offered => st[t] \in Offered \/ attempt[t] < MaxAttempts[t]

(* A step that leaves rows and messages alone ends nothing.                 *)
LEMMA NothingEnds ==
  ASSUME TypeOK, UNCHANGED <<gen, st, attempt, lease, lapsed, open>>, handlers' \subseteq handlers
  PROVE  Ends({})
<1>1. Release({})
  BY DEF Release, TypeOK
<1>2. QED
  BY <1>1 DEF Ends

(* Closing the team ends all its unfinished tasks.                          *)
LEMMA CloseEnds ==
  ASSUME TypeOK, NEW final \in {"cancelled", "expired"}, NEW deliver,
         CloseTeam(final, deliver), handlers' \subseteq handlers
  PROVE  Ends(InStatus(st, Unfinished))
<1> DEFINE rest == InStatus(st, Unfinished)
<1>1. Release(rest) /\ UNCHANGED <<gen, attempt>> /\ rest \subseteq Tasks
  BY DEF CloseTeam, InStatus
<1>2. \A t \in Tasks : st'[t] = IF t \in rest THEN final ELSE st[t]
  BY DEF CloseTeam
<1>3. \A t \in Tasks : t \in rest <=> st[t] \in Unfinished
  BY DEF InStatus
<1>4. "running" \in Unfinished
  BY DEF Unfinished, TaskStatus, TerminalTask
<1>5. QED
  BY <1>1, <1>2, <1>3, <1>4 DEF Ends, Offered

(* The common end of the service functions, after the rows of S were given  *)
(* the statuses s.                                                         *)
LEMMA RefreshEnds ==
  ASSUME TypeOK, NEW s \in [Tasks -> TaskStatus], NEW w, NEW dl, NEW S \in SUBSET Tasks,
         PromoteAndRefresh(s, w, dl), Release(S), UNCHANGED <<gen, attempt>>,
         handlers' \subseteq handlers,
         \A t \in Tasks \ S : s[t] = st[t],
         \A t \in S : /\ s[t] # "running"
                      /\ s[t] \in Offered => attempt[t] < MaxAttempts[t]
  PROVE  Ends(S)
<1>1. st' = Refreshed(Promoted(s))
  BY DEF PromoteAndRefresh, Refresh
<1>2. \A t \in Tasks : /\ st'[t] = "running" <=> s[t] = "running"
                       /\ st'[t] \in Offered => s[t] \in Offered
  BY <1>1, SettledTasks DEF Offered
<1>3. QED
  BY <1>2 DEF Ends

(* Every step is of one of these kinds.                                     *)
LEMMA StepKinds ==
  ASSUME TypeOK, [Next]_vars
  PROVE  \/ \E d \in Dispatchers, t \in Tasks : RecoverBegin(d, t) \/ ClaimTask(d, t)
         \/ \E d \in Dispatchers : RecoverExtend(d)
         \/ \E W \in SUBSET Failures(st) : Retry(W)
         \/ \E t \in Tasks : LeaseLapses(t)
         \/ \E S \in SUBSET Tasks : Ends(S)
<1> DEFINE Goal == \E S \in SUBSET Tasks : Ends(S)
<1>a. ASSUME Ends({}) PROVE Goal
  BY <1>a
<1>b. \A S : Ends(S) => Goal
  BY DEF Ends
<1>1. ASSUME NEW d \in Dispatchers, ExpireDue(d) PROVE Goal
  <2>1. CloseTeam("expired", TRUE) /\ handlers' \subseteq handlers
    BY <1>1 DEF ExpireDue, procVars
  <2>2. QED
    BY <2>1, <1>b, CloseEnds
<1>2. ASSUME NEW d \in Dispatchers, RecoverStop(d) \/ RecoverStopFails(d) \/ SweepDone(d) PROVE Goal
  BY <1>2, <1>a, NothingEnds DEF RecoverStop, RecoverStopFails, SweepDone, teamVars, taskVars
<1>3. ASSUME NEW d \in Dispatchers, RecoverFinish(d) PROVE Goal
  <2> DEFINE t == rec[d][1]
             next == IF attempt[t] >= MaxAttempts[t] THEN "failed" ELSE "queued"
             s == [st EXCEPT ![t] = next]
  <2>1. CASE StillRecovering(d, t)
    <3>1. t \in Tasks
      <4>1. rec[d] # Idle
        BY <1>3 DEF RecoverFinish
      <4>2. QED
        BY <4>1 DEF TypeOK
    <3>2. PromoteAndRefresh(s, why, delayed) /\ Release({t}) /\ UNCHANGED <<gen, attempt, handlers>>
      BY <1>3, <2>1 DEF RecoverFinish
    <3>3. s \in [Tasks -> TaskStatus] /\ s[t] = next /\ \A u \in Tasks \ {t} : s[u] = st[u]
      BY <3>1 DEF TypeOK, TaskStatus
    <3>4. next # "running" /\ (next \in Offered => attempt[t] < MaxAttempts[t])
      BY <3>1, ParameterAssumption DEF Offered, TypeOK
    <3>5. Ends({t})
      BY <3>1, <3>2, <3>3, <3>4, RefreshEnds
    <3>6. QED
      BY <3>5, <1>b
  <2>2. CASE ~StillRecovering(d, t)
    BY <1>3, <2>2, <1>a, NothingEnds DEF RecoverFinish, teamVars, taskVars
  <2>3. QED
    BY <2>1, <2>2
<1>4. ASSUME NEW d \in Dispatchers, ClaimNothing(d) PROVE Goal
  <2>1. handlers' \subseteq handlers
    BY <1>4 DEF ClaimNothing
  <2>2. CASE CloseTeam("expired", TRUE)
    BY <2>1, <2>2, <1>b, CloseEnds
  <2>3. CASE PromoteAndRefresh(st, why, delayed) /\ UNCHANGED <<gen, attempt, lease, lapsed, open, reads>>
    <3>1. Release({})
      BY <2>3 DEF Release, TypeOK
    <3>2. st \in [Tasks -> TaskStatus]
      BY DEF TypeOK
    <3>3. QED
      BY <2>1, <2>3, <3>1, <3>2, <1>a, RefreshEnds
  <2>4. CASE UNCHANGED <<teamVars, taskVars>>
    BY <2>1, <2>4, <1>a, NothingEnds DEF teamVars, taskVars
  <2>5. QED
    BY <1>4, <2>2, <2>3, <2>4 DEF ClaimNothing
<1>5. ASSUME NEW h \in handlers, Attach(h) \/ Abandon(h) PROVE Goal
  BY <1>5, <1>a, NothingEnds DEF Attach, Abandon, teamVars, taskVars, procVars
<1>6. ASSUME NEW h \in handlers, NEW o \in Outcomes, Complete(h, o) PROVE Goal
  <2> DEFINE t == h[2]
             s == [st EXCEPT ![t] = After(t, o)]
             w == [why EXCEPT ![t] = {}]
  <2>1. t \in Tasks
    BY DEF TypeOK
  <2>2. PICK dl : PromoteAndRefresh(s, w, dl)
    BY <1>6 DEF Complete
  <2>3. Release({t}) /\ UNCHANGED <<gen, attempt>> /\ handlers' \subseteq handlers
    BY <1>6 DEF Complete
  <2>4. /\ After(t, o) \in TaskStatus /\ After(t, o) # "running"
        /\ After(t, o) \in Offered => attempt[t] < MaxAttempts[t]
    BY DEF After, Outcomes, Offered, TaskStatus
  <2>5. s \in [Tasks -> TaskStatus] /\ s[t] = After(t, o) /\ \A u \in Tasks \ {t} : s[u] = st[u]
    BY <2>1, <2>4 DEF TypeOK
  <2>6. Ends({t})
    BY <2>1, <2>2, <2>3, <2>4, <2>5, RefreshEnds
  <2>7. QED
    BY <2>6, <1>b
<1>7. ASSUME NEW r \in sandbox, CleanupTerminal(r) PROVE Goal
  BY <1>7, <1>a, NothingEnds DEF CleanupTerminal, teamVars, taskVars, procVars
<1>8. CASE CancelTeam
  <2>1. CloseTeam("cancelled", TRUE) /\ handlers' \subseteq handlers
    BY <1>8 DEF CancelTeam, procVars
  <2>2. QED
    BY <2>1, <1>b, CloseEnds
<1>9. ASSUME NEW W, StopTasks(W) PROVE Goal
  <2> DEFINE S == StopTargets(st, W)
  <2>1. PromoteAndRefresh(Stopped(S), why, delayed) /\ Release(S) /\ UNCHANGED <<gen, attempt, handlers>>
    BY <1>9 DEF StopTasks, procVars
  <2>2. S \in SUBSET Tasks
    BY StopTargetsUnfinished
  <2>3. Stopped(S) \in [Tasks -> TaskStatus]
    BY DEF Stopped, TypeOK, TaskStatus
  <2>4. \A t \in Tasks : Stopped(S)[t] = IF t \in S THEN "stopped" ELSE st[t]
    BY DEF Stopped
  <2>5. Ends(S)
    BY <2>1, <2>2, <2>3, <2>4, RefreshEnds DEF Offered
  <2>6. QED
    BY <2>5, <1>b
<1>10. ASSUME NEW W, StopTasksBegin(W) PROVE Goal
  <2> DEFINE S == StopTargets(st, W)
  <2>1. UNCHANGED <<gen, attempt, handlers>>
    BY <1>10 DEF StopTasksBegin, teamVars, procVars
  <2>2. CASE st' = Stopped(S) /\ Release(S)
    <3>1. S \subseteq Tasks
      BY StopTargetsUnfinished
    <3>2. \A t \in Tasks : st'[t] = IF t \in S THEN "stopped" ELSE st[t]
      BY <2>2 DEF Stopped
    <3>3. Ends(S)
      BY <2>1, <2>2, <3>1, <3>2 DEF Ends, Offered
    <3>4. QED
      BY <3>3, <1>b
  <2>3. CASE UNCHANGED <<st, lease, lapsed, open, delayed>>
    BY <2>1, <2>3, <1>a, NothingEnds
  <2>4. QED
    BY <1>10, <2>2, <2>3 DEF StopTasksBegin
<1>11. CASE StopTasksEnd
  <2>1. UNCHANGED <<gen, attempt, lease, lapsed, open, handlers>>
    BY <1>11 DEF StopTasksEnd, procVars
  <2>2. Release({})
    BY <2>1 DEF Release, TypeOK
  <2>3. CASE PromoteAndRefresh(st, why, delayed)
    <3>1. st \in [Tasks -> TaskStatus]
      BY DEF TypeOK
    <3>2. QED
      BY <2>1, <2>2, <2>3, <3>1, <1>a, RefreshEnds
  <2>4. CASE st' = Promoted(st)
    <3>1. \A t \in Tasks : /\ st'[t] = "running" <=> st[t] = "running"
                           /\ st'[t] \in Offered => st[t] \in Offered
      BY <2>4, PromotedTasks DEF TypeOK, Offered
    <3>2. QED
      BY <2>1, <2>2, <3>1, <1>a DEF Ends
  <2>5. QED
    BY <1>11, <2>3, <2>4 DEF StopTasksEnd
<1>12. CASE StopParent \/ SuppressReceipts
  BY <1>12, <1>a, NothingEnds DEF StopParent, SuppressReceipts, teamVars, taskVars, procVars
<1>13. CASE CancelResponseTeam
  <2>1. handlers' \subseteq handlers
    BY <1>13 DEF CancelResponseTeam, procVars
  <2>2. CASE CloseTeam("cancelled", FALSE)
    BY <2>1, <2>2, <1>b, CloseEnds
  <2>3. CASE UNCHANGED <<teamVars, taskVars>>
    BY <2>1, <2>3, <1>a, NothingEnds DEF teamVars, taskVars
  <2>4. QED
    BY <1>13, <2>2, <2>3 DEF CancelResponseTeam
<1>14. ASSUME NEW g, TakeReceipt(g) \/ FinishReceipt(g) PROVE Goal
  BY <1>14, <1>a, NothingEnds DEF TakeReceipt, FinishReceipt, taskVars, procVars
<1>15. ASSUME NEW t, DelayEnds(t) PROVE Goal
  BY <1>15, <1>a, NothingEnds DEF DelayEnds, teamVars, procVars
<1>16. CASE DeadlinePasses
  BY <1>16, <1>a, NothingEnds DEF DeadlinePasses, teamVars, taskVars, procVars
<1>17. ASSUME NEW d \in Dispatchers, Crash(d) PROVE Goal
  BY <1>17, <1>a, NothingEnds DEF Crash, teamVars, taskVars
<1>18. CASE UNCHANGED vars
  BY <1>18, <1>a, NothingEnds DEF vars, teamVars, taskVars, procVars
<1>19. QED
  BY <1>1, <1>2, <1>3, <1>4, <1>5, <1>6, <1>7, <1>8, <1>9, <1>10, <1>11, <1>12, <1>13,
     <1>14, <1>15, <1>16, <1>17, <1>18
     DEF Next, Sweep, Dispatch, Handler, User, Environment

-----------------------------------------------------------------------------
(* What the kinds of step that are actions of their own do to the rows.     *)

(* claim_next_task starts one task, which was queued or waited, and starts  *)
(* it only while the team runs fewer tasks than it may.                    *)
LEMMA ClaimStarts ==
  ASSUME TypeOK, NEW d \in Dispatchers, NEW t \in Tasks, ClaimTask(d, t)
  PROVE  /\ st[t] \in Offered /\ st'[t] = "running"
         /\ \A u \in Tasks \ {t} :
              /\ st'[u] = "running" <=> st[u] = "running"
              /\ st'[u] \in Offered => st[u] \in Offered
         /\ Cardinality(Running(st)) < MaxActive
<1> DEFINE s == [Settled EXCEPT ![t] = "running"]
<1>1. Settled \in [Tasks -> TaskStatus] /\ s \in [Tasks -> TaskStatus]
  BY SettledTasks DEF Settled, TypeOK, TaskStatus
<1>2. st' = Refreshed(s) /\ Settled[t] = "queued"
  BY DEF ClaimTask, Refresh, Candidates
<1>3. \A u \in Tasks : /\ Settled[u] = "running" <=> st[u] = "running"
                       /\ Settled[u] \in Offered => st[u] \in Offered
  BY SettledTasks DEF Settled, TypeOK, Offered
<1>4. \A u \in Tasks : /\ st'[u] = "running" <=> s[u] = "running"
                       /\ st'[u] \in Offered => s[u] \in Offered
  BY <1>1, <1>2, RefreshedTasks DEF Offered
<1>5. Running(Settled) = Running(st)
  BY <1>3 DEF Running, InStatus
<1>6. Cardinality(Running(st)) < MaxActive
  BY <1>5 DEF ClaimTask, MayClaim
<1>7. s[t] = "running" /\ \A u \in Tasks \ {t} : s[u] = Settled[u]
  BY <1>1
<1>8. QED
  BY <1>2, <1>3, <1>4, <1>6, <1>7 DEF Offered

(* retry_team takes no task that runs, and starts none.                     *)
LEMMA RetryStarts ==
  ASSUME TypeOK, NEW W, Retry(W)
  PROVE  /\ \A t \in Tasks : st'[t] = "running" <=> st[t] = "running"
         /\ \A t \in RetryRows(st, why, W) : t \in Tasks /\ st[t] # "running"
<1>1. \A t \in RetryRows(st, why, W) : t \in Tasks /\ st[t] # "running"
  BY RetryRowsEnded
<1>2. \A t \in Tasks : st'[t] = IF t \notin RetryRows(st, why, W) THEN st[t]
                                ELSE IF Deps[t] = {} THEN "queued" ELSE "waiting_dependency"
  BY DEF Retry
<1>3. QED
  BY <1>1, <1>2

-----------------------------------------------------------------------------
(* Leases.                                                                 *)

(* No step gives or takes a lease without starting or ending the task.      *)
LEMMA LeaseStep == TypeOK /\ LeaseIntegrity /\ [Next]_vars => LeaseIntegrity'
<1> SUFFICES ASSUME TypeOK, LeaseIntegrity, [Next]_vars PROVE LeaseIntegrity'
  OBVIOUS
<1>1. ASSUME NEW d \in Dispatchers, NEW t \in Tasks, RecoverBegin(d, t) PROVE LeaseIntegrity'
  BY <1>1 DEF RecoverBegin, Due, LeaseIntegrity, TypeOK, NoLease, Cleanup
<1>2. ASSUME NEW d \in Dispatchers, NEW t \in Tasks, ClaimTask(d, t) PROVE LeaseIntegrity'
  <2>1. /\ attempt' = [attempt EXCEPT ![t] = attempt[t] + 1]
        /\ lease' = [lease EXCEPT ![t] = Claim(attempt[t] + 1)]
        /\ lapsed' = lapsed
    BY <1>2 DEF ClaimTask
  <2>2. attempt'[t] = attempt[t] + 1 /\ lease'[t] = Claim(attempt'[t]) /\ lease'[t] # NoLease
    BY <2>1 DEF TypeOK, Claim, NoLease
  <2>3. \A u \in Tasks \ {t} : attempt'[u] = attempt[u] /\ lease'[u] = lease[u]
    BY <2>1 DEF TypeOK
  <2>4. QED
    BY <1>2, <2>1, <2>2, <2>3, ClaimStarts DEF LeaseIntegrity, Claim
<1>3. ASSUME NEW d \in Dispatchers, RecoverExtend(d) PROVE LeaseIntegrity'
  BY <1>3 DEF RecoverExtend, LeaseIntegrity, Claim
<1>4. ASSUME NEW W, Retry(W) PROVE LeaseIntegrity'
  <2> DEFINE rows == RetryRows(st, why, W)
  <2>1. /\ lease' = [t \in Tasks |-> IF t \in rows THEN NoLease ELSE lease[t]]
        /\ lapsed' = lapsed \ rows /\ attempt' = attempt
    BY <1>4 DEF Retry
  <2>2. \A t \in Tasks : lease'[t] = lease[t] \/ (t \in rows /\ lease'[t] = NoLease)
    BY <2>1
  <2>3. NoLease \notin {"claim"} \X Nat
    BY DEF NoLease
  <2>4. QED
    BY <1>4, <2>1, <2>2, <2>3, RetryStarts DEF LeaseIntegrity, Claim
<1>5. ASSUME NEW t \in Tasks, LeaseLapses(t) PROVE LeaseIntegrity'
  BY <1>5 DEF LeaseLapses, LeaseIntegrity, Claim
<1>6. ASSUME NEW S \in SUBSET Tasks, Ends(S) PROVE LeaseIntegrity'
  <2>1. \A t \in Tasks : lease'[t] = IF t \in S THEN NoLease ELSE lease[t]
    BY <1>6 DEF Ends, Release
  <2>2. lapsed' = lapsed \ S /\ attempt' = attempt
    BY <1>6 DEF Ends, Release
  <2>3. NoLease \notin {"claim"} \X Nat
    BY DEF NoLease
  <2>4. QED
    BY <1>6, <2>1, <2>2, <2>3 DEF Ends, LeaseIntegrity, Claim
<1>7. QED
  BY <1>1, <1>2, <1>3, <1>4, <1>5, <1>6, StepKinds

(* A task has a lease exactly while it runs, and a claimed lease belongs to *)
(* its present attempt: no earlier token is ever valid again.              *)
THEOREM LeasesAreSound == Spec => []LeaseIntegrity
<1>1. Init => LeaseIntegrity
  BY DEF Init, LeaseIntegrity, NoLease
<1>2. TypeOK /\ LeaseIntegrity /\ [Next]_vars => LeaseIntegrity'
  BY LeaseStep
<1>3. QED
  BY <1>1, <1>2, TypeCorrect, PTL DEF Spec

-----------------------------------------------------------------------------
(* Handlers.  The strengthening: a handler works for an attempt that was    *)
(* made, and no two handlers work for the same attempt.                    *)

HandlerIdentity ==
  \A h, k \in handlers :
    /\ h[3] <= attempt[h[2]]
    /\ h[2] = k[2] /\ h[3] = k[3] => h = k

(* No step lets two handlers of one attempt appear.                        *)
LEMMA HandlerStep == TypeOK /\ HandlerIdentity /\ [Next]_vars => HandlerIdentity'
<1> SUFFICES ASSUME TypeOK, HandlerIdentity, [Next]_vars PROVE HandlerIdentity'
  OBVIOUS
<1>1. ASSUME handlers' \subseteq handlers, attempt' = attempt PROVE HandlerIdentity'
  BY <1>1 DEF HandlerIdentity
<1>2. ASSUME NEW d \in Dispatchers, NEW t \in Tasks, ClaimTask(d, t) PROVE HandlerIdentity'
  <2> DEFINE new == <<d, t, attempt[t] + 1>>
  <2>1. /\ handlers' = handlers \cup {new}
        /\ attempt' = [attempt EXCEPT ![t] = attempt[t] + 1]
    BY <1>2 DEF ClaimTask
  <2>2. new[2] = t /\ new[3] = attempt[t] + 1
    OBVIOUS
  <2>3. attempt[t] \in Nat /\ attempt'[t] = attempt[t] + 1
        /\ \A u \in Tasks \ {t} : attempt'[u] = attempt[u]
    BY <2>1 DEF TypeOK
  <2>4. \A h \in handlers : /\ h[2] \in Tasks /\ h[3] \in Nat /\ h[3] <= attempt[h[2]]
                            /\ h[2] = t => h[3] < attempt[t] + 1
    BY <2>3 DEF TypeOK, HandlerIdentity
  <2>5. \A h \in handlers' : h[3] <= attempt'[h[2]]
    BY <2>1, <2>2, <2>3, <2>4
  <2>6. \A h, k \in handlers' : h[2] = k[2] /\ h[3] = k[3] => h = k
    BY <2>1, <2>2, <2>3, <2>4 DEF HandlerIdentity
  <2>7. QED
    BY <2>5, <2>6 DEF HandlerIdentity
<1>3. ASSUME NEW d \in Dispatchers, NEW t \in Tasks, RecoverBegin(d, t) PROVE HandlerIdentity'
  BY <1>1, <1>3 DEF RecoverBegin
<1>4. ASSUME NEW d \in Dispatchers, RecoverExtend(d) PROVE HandlerIdentity'
  BY <1>1, <1>4 DEF RecoverExtend
<1>5. ASSUME NEW W, Retry(W) PROVE HandlerIdentity'
  BY <1>1, <1>5 DEF Retry, procVars
<1>6. ASSUME NEW t \in Tasks, LeaseLapses(t) PROVE HandlerIdentity'
  BY <1>1, <1>6 DEF LeaseLapses, procVars
<1>7. ASSUME NEW S \in SUBSET Tasks, Ends(S) PROVE HandlerIdentity'
  BY <1>1, <1>7 DEF Ends
<1>8. QED
  BY <1>2, <1>3, <1>4, <1>5, <1>6, <1>7, StepKinds

(* Mutual exclusion: of all the handlers that work on a task, in whatever   *)
(* processes, at most one can get its result accepted.                     *)
THEOREM OneHolder == Spec => []SoleHolder
<1>1. Init => HandlerIdentity
  BY DEF Init, HandlerIdentity
<1>2. TypeOK /\ HandlerIdentity /\ [Next]_vars => HandlerIdentity'
  BY HandlerStep
<1>3. HandlerIdentity => SoleHolder
  BY DEF HandlerIdentity, SoleHolder, LeaseValid, Claim
<1>4. QED
  BY <1>1, <1>2, <1>3, TypeCorrect, PTL DEF Spec

-----------------------------------------------------------------------------
(* Attempts.  The strengthening: a task that is offered has an attempt left. *)

BudgetLeft ==
  \A t \in Tasks :
    /\ attempt[t] <= MaxAttempts[t] + gen
    /\ st[t] \in Offered => attempt[t] < MaxAttempts[t] + gen

(* No step spends an attempt that the budget does not hold.                *)
LEMMA BudgetStep == TypeOK /\ BudgetLeft /\ [Next]_vars => BudgetLeft'
<1> SUFFICES ASSUME TypeOK, BudgetLeft, [Next]_vars PROVE BudgetLeft'
  OBVIOUS
<1> USE ParameterAssumption
<1>0. gen \in Nat /\ \A t \in Tasks : attempt[t] \in Nat /\ MaxAttempts[t] \in Nat
  BY DEF TypeOK
<1>1. ASSUME UNCHANGED <<st, attempt, gen>> PROVE BudgetLeft'
  BY <1>1 DEF BudgetLeft
<1>2. ASSUME NEW d \in Dispatchers, NEW t \in Tasks, ClaimTask(d, t) PROVE BudgetLeft'
  <2>1. attempt' = [attempt EXCEPT ![t] = attempt[t] + 1] /\ gen' = gen
    BY <1>2 DEF ClaimTask
  <2>2. attempt'[t] = attempt[t] + 1 /\ \A u \in Tasks \ {t} : attempt'[u] = attempt[u]
    BY <2>1 DEF TypeOK
  <2>3. st[t] \in Offered /\ st'[t] \notin Offered
    BY <1>2, ClaimStarts DEF Offered
  <2>4. \A u \in Tasks \ {t} : st'[u] \in Offered => st[u] \in Offered
    BY <1>2, ClaimStarts
  <2>5. QED
    BY <1>0, <2>1, <2>2, <2>3, <2>4 DEF BudgetLeft
<1>3. ASSUME NEW W, Retry(W) PROVE BudgetLeft'
  <2>1. gen' = gen + 1 /\ attempt' = attempt
    BY <1>3 DEF Retry
  <2>2. QED
    BY <1>0, <2>1 DEF BudgetLeft
<1>4. ASSUME NEW S \in SUBSET Tasks, Ends(S) PROVE BudgetLeft'
  BY <1>0, <1>4 DEF Ends, BudgetLeft
<1>5. ASSUME NEW d \in Dispatchers, NEW t \in Tasks, RecoverBegin(d, t) PROVE BudgetLeft'
  BY <1>1, <1>5 DEF RecoverBegin, teamVars
<1>6. ASSUME NEW d \in Dispatchers, RecoverExtend(d) PROVE BudgetLeft'
  BY <1>1, <1>6 DEF RecoverExtend, teamVars
<1>7. ASSUME NEW t \in Tasks, LeaseLapses(t) PROVE BudgetLeft'
  BY <1>1, <1>7 DEF LeaseLapses, teamVars
<1>8. QED
  BY <1>2, <1>3, <1>4, <1>5, <1>6, <1>7, StepKinds

(* No mixture of failures, lapsed leases, crashes and retry requests gives  *)
(* a task more attempts than its budget and one for each retry request.    *)
THEOREM AttemptsAreBounded == Spec => []AttemptBudget
<1>1. Init => BudgetLeft
  BY ParameterAssumption DEF Init, BudgetLeft
<1>2. TypeOK /\ BudgetLeft /\ [Next]_vars => BudgetLeft'
  BY BudgetStep
<1>3. BudgetLeft => AttemptBudget
  BY DEF BudgetLeft, AttemptBudget
<1>4. QED
  BY <1>1, <1>2, <1>3, TypeCorrect, PTL DEF Spec

-----------------------------------------------------------------------------
(* Request messages and the number of running tasks.                       *)

(* No step opens or closes a request message apart from its attempt.        *)
LEMMA LedgerStep == TypeOK /\ RequestLedger /\ [Next]_vars => RequestLedger'
<1> SUFFICES ASSUME TypeOK, RequestLedger, [Next]_vars PROVE RequestLedger'
  OBVIOUS
<1>1. ASSUME UNCHANGED <<attempt, open>>, Running(st)' = Running(st) PROVE RequestLedger'
  BY <1>1 DEF RequestLedger
<1>2. ASSUME NEW d \in Dispatchers, NEW t \in Tasks, ClaimTask(d, t) PROVE RequestLedger'
  <2>1. /\ attempt' = [attempt EXCEPT ![t] = attempt[t] + 1]
        /\ open' = open \cup {<<t, attempt[t] + 1>>}
    BY <1>2 DEF ClaimTask
  <2>2. attempt'[t] = attempt[t] + 1 /\ \A u \in Tasks \ {t} : attempt'[u] = attempt[u]
    BY <2>1 DEF TypeOK
  <2>3. Running(st)' = Running(st) \cup {t} /\ t \notin Running(st)
    BY <1>2, ClaimStarts DEF Running, InStatus, Offered
  <2>4. Running(st) \subseteq Tasks
    BY DEF Running, InStatus
  <2>5. QED
    BY <2>1, <2>2, <2>3, <2>4 DEF RequestLedger
<1>3. ASSUME NEW W, Retry(W) PROVE RequestLedger'
  BY <1>1, <1>3, RetryStarts DEF Retry, Running, InStatus
<1>4. ASSUME NEW S \in SUBSET Tasks, Ends(S) PROVE RequestLedger'
  <2>1. open' = {r \in open : ~(r[1] \in S /\ r[2] = attempt[r[1]])} /\ attempt' = attempt
    BY <1>4 DEF Ends, Release
  <2>2. Running(st)' = Running(st) \ S
    BY <1>4 DEF Ends, Running, InStatus
  <2>3. QED
    BY <2>1, <2>2 DEF RequestLedger
<1>5. ASSUME NEW d \in Dispatchers, NEW t \in Tasks, RecoverBegin(d, t) PROVE RequestLedger'
  BY <1>1, <1>5 DEF RecoverBegin
<1>6. ASSUME NEW d \in Dispatchers, RecoverExtend(d) PROVE RequestLedger'
  BY <1>1, <1>6 DEF RecoverExtend
<1>7. ASSUME NEW t \in Tasks, LeaseLapses(t) PROVE RequestLedger'
  BY <1>1, <1>7 DEF LeaseLapses
<1>8. QED
  BY <1>2, <1>3, <1>4, <1>5, <1>6, <1>7, StepKinds

(* The messages in processing are those of the running attempts: however a  *)
(* task stops running, the message of its attempt is closed with it.       *)
THEOREM LedgerIsExact == Spec => []RequestLedger
<1>1. Init => RequestLedger
  BY DEF Init, RequestLedger, Running, InStatus
<1>2. TypeOK /\ RequestLedger /\ [Next]_vars => RequestLedger'
  BY LedgerStep
<1>3. QED
  BY <1>1, <1>2, TypeCorrect, PTL DEF Spec

(* No step starts a task beyond the limit.                                  *)
LEMMA LimitStep == TypeOK /\ ActiveLimit /\ [Next]_vars => ActiveLimit'
<1> SUFFICES ASSUME TypeOK, ActiveLimit, [Next]_vars PROVE ActiveLimit'
  OBVIOUS
<1>1. IsFiniteSet(Running(st)) /\ Cardinality(Running(st)) \in Nat
  <2>1. IsFiniteSet(Running(st))
    BY GraphAssumption, FS_Subset DEF Running, InStatus
  <2>2. QED
    BY <2>1, FS_CardinalityType
<1>2. ASSUME Running(st)' \subseteq Running(st) PROVE ActiveLimit'
  <2>1. Cardinality(Running(st)') <= Cardinality(Running(st)) /\ Cardinality(Running(st)') \in Nat
    BY <1>1, <1>2, FS_Subset, FS_CardinalityType
  <2>2. QED
    BY <1>1, <2>1, ParameterAssumption DEF ActiveLimit
<1>3. ASSUME NEW d \in Dispatchers, NEW t \in Tasks, ClaimTask(d, t) PROVE ActiveLimit'
  <2>1. Running(st)' = Running(st) \cup {t} /\ t \notin Running(st)
    BY <1>3, ClaimStarts DEF Running, InStatus, Offered
  <2>2. Cardinality(Running(st)') = Cardinality(Running(st)) + 1
    BY <1>1, <2>1, FS_AddElement
  <2>3. Cardinality(Running(st)) < MaxActive
    BY <1>3, ClaimStarts
  <2>4. QED
    BY <1>1, <2>2, <2>3, ParameterAssumption DEF ActiveLimit
<1>4. ASSUME NEW W, Retry(W) PROVE ActiveLimit'
  BY <1>2, <1>4, RetryStarts DEF Running, InStatus
<1>5. ASSUME NEW S \in SUBSET Tasks, Ends(S) PROVE ActiveLimit'
  BY <1>2, <1>5 DEF Ends, Running, InStatus
<1>6. ASSUME NEW d \in Dispatchers, NEW t \in Tasks, RecoverBegin(d, t) PROVE ActiveLimit'
  BY <1>2, <1>6 DEF RecoverBegin
<1>7. ASSUME NEW d \in Dispatchers, RecoverExtend(d) PROVE ActiveLimit'
  BY <1>2, <1>7 DEF RecoverExtend
<1>8. ASSUME NEW t \in Tasks, LeaseLapses(t) PROVE ActiveLimit'
  BY <1>2, <1>8 DEF LeaseLapses
<1>9. QED
  BY <1>3, <1>4, <1>5, <1>6, <1>7, <1>8, StepKinds

(* However many processes dispatch, the team never runs more tasks at once  *)
(* than max_active_children allows.                                        *)
THEOREM LimitIsKept == Spec => []ActiveLimit
<1>1. Init => ActiveLimit
  <2> SUFFICES ASSUME Init PROVE ActiveLimit
    OBVIOUS
  <2>1. Running(st) = {}
    BY DEF Init, Running, InStatus
  <2>2. QED
    BY <2>1, FS_EmptySet, ParameterAssumption DEF ActiveLimit
<1>2. TypeOK /\ ActiveLimit /\ [Next]_vars => ActiveLimit'
  BY LimitStep
<1>3. QED
  BY <1>1, <1>2, TypeCorrect, PTL DEF Spec

-----------------------------------------------------------------------------
(* Sandboxes.  The strengthening does not ask for the status of the task:   *)
(* the lease of the recovery alone keeps every handler from attaching.     *)

CleanLease ==
  \A d \in Dispatchers, t \in Tasks :
    rec[d] = <<t, "finish">> /\ lease[t] = Cleanup(d) => SandboxesOf({t}) = {}

(* Only the start of a recovery draws the lease of a recovery.              *)
LEMMA CleanupLeases ==
  ASSUME TypeOK, [Next]_vars, NEW d \in Dispatchers, NEW t \in Tasks,
         lease'[t] = Cleanup(d), ~RecoverBegin(d, t)
  PROVE  lease[t] = Cleanup(d)
<1>1. ASSUME NEW e \in Dispatchers, NEW u \in Tasks, RecoverBegin(e, u) PROVE lease[t] = Cleanup(d)
  BY <1>1 DEF RecoverBegin, TypeOK, Cleanup
<1>2. ASSUME NEW e \in Dispatchers, NEW u \in Tasks, ClaimTask(e, u) PROVE lease[t] = Cleanup(d)
  BY <1>2 DEF ClaimTask, TypeOK, Claim, Cleanup
<1>3. ASSUME NEW W, Retry(W) PROVE lease[t] = Cleanup(d)
  BY <1>3 DEF Retry, NoLease, Cleanup
<1>4. ASSUME NEW S \in SUBSET Tasks, Ends(S) PROVE lease[t] = Cleanup(d)
  BY <1>4 DEF Ends, Release, NoLease, Cleanup
<1>5. ASSUME NEW e \in Dispatchers, RecoverExtend(e) PROVE lease[t] = Cleanup(d)
  BY <1>5 DEF RecoverExtend
<1>6. ASSUME NEW u \in Tasks, LeaseLapses(u) PROVE lease[t] = Cleanup(d)
  BY <1>6 DEF LeaseLapses
<1>7. QED
  BY <1>1, <1>2, <1>3, <1>4, <1>5, <1>6, StepKinds

(* Sandboxes are only ever added by a handler that holds the claimed lease. *)
LEMMA SandboxesAdded ==
  ASSUME TypeOK, [Next]_vars, NEW t \in Tasks, NEW r \in sandbox', r \notin sandbox, r[1] = t
  PROVE  \E h \in handlers : Attach(h) /\ h[2] = t /\ lease[t] = Claim(h[3])
<1>1. CASE \E h \in handlers : Attach(h)
  BY <1>1 DEF Attach
<1>2. CASE ~\E h \in handlers : Attach(h)
  <2>1. sandbox' \subseteq sandbox
    BY <1>2 DEF Next, Sweep, Dispatch, Handler, User, Environment, ExpireDue, RecoverBegin,
         RecoverStop, RecoverStopFails, RecoverExtend, RecoverFinish, SweepDone, ClaimTask,
         ClaimNothing, Complete, Abandon, CleanupTerminal, CancelTeam, StopTasks,
         StopTasksBegin, StopTasksEnd, Retry, StopParent, CancelResponseTeam,
         SuppressReceipts, TakeReceipt, FinishReceipt, LeaseLapses, DelayEnds,
         DeadlinePasses, Crash, SandboxesOf, vars
  <2>2. QED
    BY <2>1
<1>3. QED
  BY <1>1, <1>2

(* A recovery gets to its last transaction only when it stopped everything. *)
LEMMA RecoveriesFinish ==
  ASSUME TypeOK, [Next]_vars, NEW d \in Dispatchers, NEW t \in Tasks,
         rec'[d] = <<t, "finish">>, rec[d] # <<t, "finish">>
  PROVE  SandboxesOf({t})' = {}
<1>1. CASE RecoverStop(d)
  <2>1. rec[d] # Idle /\ rec[d][2] = "stop" /\ rec' = [rec EXCEPT ![d][2] = "finish"]
    BY <1>1 DEF RecoverStop
  <2>2. rec[d] \in Tasks \X {"stop", "finish", "extend"}
    BY <2>1 DEF TypeOK
  <2>3. rec[d][1] = t
    <3>1. PICK u \in Tasks : rec[d] = <<u, "stop">>
      BY <2>1, <2>2
    <3>2. [rec[d] EXCEPT ![2] = "finish"] = <<u, "finish">>
      BY <3>1
    <3>3. rec'[d] = [rec[d] EXCEPT ![2] = "finish"]
      BY <2>1 DEF TypeOK
    <3>4. QED
      BY <3>1, <3>2, <3>3
  <2>4. sandbox' = sandbox \ SandboxesOf({t})
    BY <1>1, <2>3 DEF RecoverStop
  <2>5. QED
    BY <2>4 DEF SandboxesOf
<1>2. CASE ~RecoverStop(d)
  <2>1. ASSUME NEW e \in Dispatchers, RecoverStop(e) PROVE rec'[d] # <<t, "finish">>
    BY <1>2, <2>1 DEF RecoverStop, TypeOK
  <2>2. ASSUME NEW e \in Dispatchers, RecoverStopFails(e) PROVE rec'[d] # <<t, "finish">>
    <3>1. rec[e] \in Tasks \X {"stop", "finish", "extend"}
      BY <2>2 DEF RecoverStopFails, TypeOK
    <3>2. QED
      BY <2>2, <3>1 DEF RecoverStopFails, TypeOK
  <2>3. ASSUME NEW e \in Dispatchers, NEW u \in Tasks, RecoverBegin(e, u) PROVE rec'[d] # <<t, "finish">>
    BY <2>3 DEF RecoverBegin, TypeOK
  <2>4. ASSUME NEW e \in Dispatchers, RecoverExtend(e) \/ RecoverFinish(e) \/ Crash(e)
        PROVE  rec'[d] # <<t, "finish">>
    <3>1. rec' = [rec EXCEPT ![e] = Idle]
      BY <2>4 DEF RecoverExtend, RecoverFinish, Crash
    <3>2. QED
      BY <3>1 DEF TypeOK, Idle
  <2>5. ASSUME UNCHANGED rec PROVE rec'[d] # <<t, "finish">>
    BY <2>5
  <2>6. QED
    BY <2>1, <2>2, <2>3, <2>4, <2>5 DEF Next, Sweep, Dispatch, Handler, User, Environment,
       ExpireDue, SweepDone, ClaimTask, ClaimNothing, Attach, Complete, Abandon,
       CleanupTerminal, CancelTeam, StopTasks, StopTasksBegin, StopTasksEnd, Retry, StopParent,
       CancelResponseTeam, SuppressReceipts, TakeReceipt, FinishReceipt, LeaseLapses, DelayEnds,
       DeadlinePasses, vars, procVars
<1>3. QED
  BY <1>1, <1>2

(* No step brings a sandbox under the lease of a recovery.                  *)
LEMMA CleanStep == TypeOK /\ CleanLease /\ [Next]_vars => CleanLease'
<1> SUFFICES ASSUME TypeOK, CleanLease, [Next]_vars,
                    NEW d \in Dispatchers, NEW t \in Tasks,
                    rec'[d] = <<t, "finish">>, lease'[t] = Cleanup(d)
             PROVE  SandboxesOf({t})' = {}
  BY DEF CleanLease
<1>1. CASE rec[d] # <<t, "finish">>
  BY <1>1, RecoveriesFinish
<1>2. CASE rec[d] = <<t, "finish">>
  <2>1. ~RecoverBegin(d, t)
    BY <1>2 DEF RecoverBegin, Idle
  <2>2. lease[t] = Cleanup(d)
    BY <2>1, CleanupLeases
  <2>3. SandboxesOf({t}) = {}
    BY <1>2, <2>2 DEF CleanLease
  <2>4. \A r \in sandbox' : r[1] # t
    <3> SUFFICES ASSUME NEW r \in sandbox', r[1] = t PROVE FALSE
      OBVIOUS
    <3>1. r \notin sandbox
      BY <2>3 DEF SandboxesOf
    <3>2. \E h \in handlers : lease[t] = Claim(h[3])
      BY <3>1, SandboxesAdded
    <3>3. QED
      BY <2>2, <3>2 DEF Claim, Cleanup
  <2>5. QED
    BY <2>4 DEF SandboxesOf
<1>3. QED
  BY <1>1, <1>2

(* While a recovery is about to start a task again, no sandbox of the task  *)
(* lives, whatever late handlers and other processes do in the meantime.   *)
THEOREM RecoveryIsClean == Spec => []RecoveryClean
<1>1. Init => CleanLease
  BY DEF Init, CleanLease, Idle
<1>2. TypeOK /\ CleanLease /\ [Next]_vars => CleanLease'
  BY CleanStep
<1>3. CleanLease => RecoveryClean
  BY DEF CleanLease, RecoveryClean, StillRecovering
<1>4. QED
  BY <1>1, <1>2, <1>3, TypeCorrect, PTL DEF Spec

(* A running task is queued again only by complete_task or at the end of a  *)
(* recovery.                                                               *)
LEMMA Requeues ==
  ASSUME TypeOK, [Next]_vars, NEW t \in Tasks, st[t] = "running", st'[t] \in Offered
  PROVE  \/ \E d \in Dispatchers : RecoverFinish(d) /\ rec[d][1] = t /\ StillRecovering(d, t)
         \/ \E h \in handlers, o \in Outcomes : Complete(h, o) /\ h[2] = t
<1>0. \A s \in [Tasks -> TaskStatus] : \A w, dl :
        PromoteAndRefresh(s, w, dl) => s[t] \in Offered
  BY SettledTasks DEF PromoteAndRefresh, Refresh, Offered
<1>1. ASSUME NEW d \in Dispatchers, RecoverFinish(d) PROVE rec[d][1] = t /\ StillRecovering(d, t)
  <2> DEFINE u == rec[d][1]
             next == IF attempt[u] >= MaxAttempts[u] THEN "failed" ELSE "queued"
             s == [st EXCEPT ![u] = next]
  <2>1. StillRecovering(d, u)
    BY <1>1 DEF RecoverFinish, taskVars, Offered
  <2>2. PromoteAndRefresh(s, why, delayed)
    BY <1>1, <2>1 DEF RecoverFinish
  <2>3. s \in [Tasks -> TaskStatus]
    BY DEF TypeOK, TaskStatus
  <2>4. s[t] \in Offered
    BY <2>2, <2>3, <1>0
  <2>5. u = t
    BY <2>4 DEF TypeOK, Offered
  <2>6. QED
    BY <2>1, <2>5
<1>2. ASSUME NEW h \in handlers, NEW o \in Outcomes, Complete(h, o) PROVE h[2] = t
  <2> DEFINE s == [st EXCEPT ![h[2]] = After(h[2], o)]
  <2>1. \E w, dl : PromoteAndRefresh(s, w, dl)
    BY <1>2 DEF Complete
  <2>2. s \in [Tasks -> TaskStatus]
    BY DEF TypeOK, TaskStatus, After, Outcomes
  <2>3. s[t] \in Offered
    BY <2>1, <2>2, <1>0
  <2>4. QED
    BY <2>3 DEF TypeOK, Offered
<1>3. st \in [Tasks -> TaskStatus] /\ st[t] \notin Offered
  BY DEF TypeOK, Offered
<1>4. ASSUME NEW final \in {"cancelled", "expired"}, NEW deliver, CloseTeam(final, deliver) PROVE FALSE
  BY <1>3, <1>4 DEF CloseTeam, InStatus, Offered
<1>5. ASSUME NEW d \in Dispatchers, NEW u \in Tasks, ClaimTask(d, u) PROVE FALSE
  BY <1>3, <1>5, ClaimStarts DEF Offered
<1>6. ASSUME NEW d \in Dispatchers, ClaimNothing(d) PROVE FALSE
  BY <1>0, <1>3, <1>4, <1>6 DEF ClaimNothing, taskVars
<1>7. ASSUME NEW W, StopTasks(W) PROVE FALSE
  <2> DEFINE s == Stopped(StopTargets(st, W))
  <2>1. s \in [Tasks -> TaskStatus] /\ s[t] \notin Offered
    BY <1>3 DEF Stopped, TaskStatus, Offered
  <2>2. PromoteAndRefresh(s, why, delayed)
    BY <1>7 DEF StopTasks
  <2>3. QED
    BY <1>0, <2>1, <2>2
<1>8. ASSUME NEW W, StopTasksBegin(W) PROVE FALSE
  BY <1>3, <1>8 DEF StopTasksBegin, Stopped, Offered
<1>9. CASE StopTasksEnd
  <2>1. CASE PromoteAndRefresh(st, why, delayed)
    BY <1>0, <1>3, <2>1
  <2>2. CASE st' = Promoted(st)
    BY <1>3, <2>2, PromotedTasks
  <2>3. QED
    BY <1>9, <2>1, <2>2 DEF StopTasksEnd
<1>10. ASSUME NEW W, Retry(W) PROVE FALSE
  BY <1>3, <1>10, RetryStarts DEF Offered
<1>11. CASE UNCHANGED st
  BY <1>3, <1>11
<1>12. QED
  BY <1>1, <1>2, <1>4, <1>5, <1>6, <1>7, <1>8, <1>9, <1>10, <1>11
     DEF Next, Sweep, Dispatch, Handler, User, Environment, ExpireDue, RecoverBegin, RecoverStop,
         RecoverStopFails, RecoverExtend, SweepDone, Attach, Abandon, CleanupTerminal, CancelTeam,
         StopParent, CancelResponseTeam, SuppressReceipts, TakeReceipt, FinishReceipt,
         LeaseLapses, DelayEnds, DeadlinePasses, Crash, vars, taskVars

(* A step that queues a task of a lost lease again leaves no sandbox.       *)
LEMMA RequeueStep ==
  ASSUME TypeOK, LeaseIntegrity, CleanLease, [Next]_vars,
         NEW t \in Tasks, st[t] = "running", st'[t] = "queued", lease[t] # Claim(attempt[t])
  PROVE  SandboxesOf({t})' = {}
<1>1. ASSUME NEW d \in Dispatchers, RecoverFinish(d), rec[d][1] = t, StillRecovering(d, t)
      PROVE  SandboxesOf({t})' = {}
  <2>1. rec[d] # Idle /\ rec[d][2] = "finish" /\ sandbox' = sandbox
    BY <1>1 DEF RecoverFinish
  <2>2. rec[d] = <<t, "finish">>
    BY <1>1, <2>1 DEF TypeOK
  <2>3. SandboxesOf({t}) = {}
    BY <1>1, <2>2 DEF CleanLease, StillRecovering
  <2>4. QED
    BY <2>1, <2>3 DEF SandboxesOf
<1>2. ASSUME NEW h \in handlers, NEW o \in Outcomes, Complete(h, o), h[2] = t PROVE FALSE
  <2>1. lease[t] = Claim(h[3]) /\ h[3] \in Nat
    BY <1>2 DEF Complete, LeaseValid, TypeOK
  <2>2. lease[t] \in {"claim"} \X Nat
    BY <2>1 DEF Claim
  <2>3. lease[t] = Claim(attempt[t])
    BY <2>2 DEF LeaseIntegrity
  <2>4. QED
    BY <2>3
<1>3. QED
  BY <1>1, <1>2, Requeues DEF Offered

(* A task whose lease was lost starts again only when every sandbox of its  *)
(* earlier attempts has stopped.                                           *)
THEOREM LostLeaseRequeuesClean == Spec => RequeueClean
<1>1. TypeOK /\ LeaseIntegrity /\ CleanLease /\ [Next]_vars
        => [\A t \in Tasks :
              st[t] = "running" /\ st'[t] = "queued" /\ lease[t] # Claim(attempt[t])
                => SandboxesOf({t})' = {}]_vars
  BY RequeueStep
<1>2. Init => CleanLease
  BY DEF Init, CleanLease, Idle
<1>3. TypeOK /\ CleanLease /\ [Next]_vars => CleanLease'
  BY CleanStep
<1>4. QED
  BY <1>1, <1>2, <1>3, TypeCorrect, LeasesAreSound, PTL DEF Spec, RequeueClean
=============================================================================
