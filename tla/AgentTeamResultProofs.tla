----------------------- MODULE AgentTeamResultProofs -----------------------
(***************************************************************************)
(* Proofs about the result of a team: when it ends, what it delivers, what *)
(* may change afterwards, who learns of it, and which results its tasks    *)
(* were given; and that it refines TaskBoard.                              *)
(*                                                                         *)
(* As for the leases (StepKinds), the actions are first sorted into a few  *)
(* kinds (ResultKinds), by what they do to the statuses of the team and    *)
(* its tasks and to the receipts; the invariants are proved for the kinds. *)
(***************************************************************************)
EXTENDS AgentTeamProofs, AgentTeamBoard

\* Statuses given to rows without closing one of them with its team.
ClosesNone(s) == \A t \in Tasks : s[t] = "cancelled" => st[t] = "cancelled"

\* A step of a live team, which keeps its generation and the tasks that ended:
\* the team keeps its status, gets the one its tasks call for, or is closed.
Progresses ==
  /\ IsLive /\ gen' = gen
  /\ \A t \in Tasks : st[t] \in TerminalTask => st'[t] = st[t]
  /\ \/ UNCHANGED <<team, notice>> /\ ClosesNone(st')
     \/ /\ \E s \in [Tasks -> TaskStatus] : st' = Refreshed(s) /\ ClosesNone(s)
        /\ team' = Verdict(st')
        /\ notice' = IF team' \in TerminalTeam THEN Notified(TRUE) ELSE notice
     \/ /\ team' \in {"cancelled", "expired"}
        /\ \A t \in Tasks : st'[t] \in TerminalTask /\ (st'[t] = st[t] \/ st'[t] = team')
        /\ \E deliver : notice' = Notified(deliver)

\* The last transaction of a stop call, when the team has ended since.
PromotesLate == ~IsLive /\ st' = Promoted(st) /\ UNCHANGED <<team, gen, notice>>

\* A step of the receipts alone.
Receipts ==
  /\ UNCHANGED <<team, gen, st>>
  /\ \/ UNCHANGED notice
     \/ SuppressReceipts
     \/ \E g \in 0..MaxRetries : TakeReceipt(g) \/ FinishReceipt(g)

(* Closing a live team is progress.                                         *)
LEMMA CloseProgresses ==
  ASSUME TypeOK, NEW final \in {"cancelled", "expired"}, NEW deliver, CloseTeam(final, deliver)
  PROVE  Progresses
<1>1. \A t \in Tasks : st'[t] = IF st[t] \in Unfinished THEN final ELSE st[t]
  BY DEF CloseTeam, InStatus
<1>2. \A t \in Tasks : st[t] \in TaskStatus
  BY DEF TypeOK
<1>3. \A t \in Tasks : /\ st'[t] \in TerminalTask
                       /\ st'[t] = st[t] \/ st'[t] = final
                       /\ st[t] \in TerminalTask => st'[t] = st[t]
  BY <1>1, <1>2 DEF Unfinished, TerminalTask
<1>4. IsLive /\ gen' = gen /\ team' = final /\ notice' = Notified(deliver)
  BY DEF CloseTeam
<1>5. QED
  BY <1>3, <1>4 DEF Progresses

(* So is the common end of the service functions, when the statuses s they  *)
(* gave to rows leave alone what has ended.                                *)
LEMMA RefreshProgresses ==
  ASSUME NEW s \in [Tasks -> TaskStatus], NEW w, NEW dl, IsLive, gen' = gen,
         Refresh(s, w, dl), \A t \in Tasks : st[t] \in TerminalTask => s[t] = st[t],
         ClosesNone(s)
  PROVE  Progresses
<1>1. \A t \in Tasks : s[t] \in TerminalTask => st'[t] = s[t]
  BY RefreshedTasks DEF Refresh, TerminalTask
<1>2. QED
  BY <1>1 DEF Refresh, Progresses

(* The same when _promote_dependencies goes before.                         *)
LEMMA PromoteProgresses ==
  ASSUME NEW s \in [Tasks -> TaskStatus], NEW w, NEW dl, IsLive, gen' = gen,
         PromoteAndRefresh(s, w, dl), \A t \in Tasks : st[t] \in TerminalTask => s[t] = st[t],
         ClosesNone(s)
  PROVE  Progresses
<1>1. Promoted(s) \in [Tasks -> TaskStatus]
  BY PromotedTasks
<1>2. \A t \in Tasks : s[t] \in TerminalTask => Promoted(s)[t] = s[t]
  BY PromotedTasks DEF TerminalTask
<1>3. Refresh(Promoted(s), w, dl)
  BY DEF PromoteAndRefresh
<1>4. ClosesNone(Promoted(s))
  BY PromotedTasks DEF ClosesNone
<1>5. QED
  BY <1>1, <1>2, <1>3, <1>4, RefreshProgresses

(* Every step is of one of these kinds.                                     *)
LEMMA ResultKinds ==
  ASSUME TypeOK, [Next]_vars
  PROVE  Progresses \/ PromotesLate \/ Receipts \/ \E W : Retry(W)
<1>0. st \in [Tasks -> TaskStatus] /\ "running" \notin TerminalTask /\ ClosesNone(st)
  BY DEF TypeOK, TerminalTask, ClosesNone
<1>1. ASSUME NEW d \in Dispatchers, RecoverFinish(d) PROVE Progresses \/ Receipts
  <2> DEFINE t == rec[d][1]
             next == IF attempt[t] >= MaxAttempts[t] THEN "failed" ELSE "queued"
             s == [st EXCEPT ![t] = next]
  <2>1. CASE StillRecovering(d, t)
    <3>1. PromoteAndRefresh(s, why, delayed) /\ gen' = gen /\ IsLive /\ st[t] = "running"
      BY <1>1, <2>1 DEF RecoverFinish, StillRecovering
    <3>2. /\ s \in [Tasks -> TaskStatus] /\ ClosesNone(s)
          /\ \A u \in Tasks : st[u] \in TerminalTask => s[u] = st[u]
      BY <1>0, <3>1 DEF TaskStatus, ClosesNone
    <3>3. QED
      BY <3>1, <3>2, PromoteProgresses
  <2>2. CASE ~StillRecovering(d, t)
    BY <1>1, <2>2 DEF RecoverFinish, teamVars, taskVars, Receipts
  <2>3. QED
    BY <2>1, <2>2
<1>2. ASSUME NEW d \in Dispatchers, NEW t \in Tasks, ClaimTask(d, t) PROVE Progresses
  <2> DEFINE s == [Settled EXCEPT ![t] = "running"]
  <2>1. Settled \in [Tasks -> TaskStatus] /\ Settled[t] = "queued"
    BY <1>0, <1>2, SettledTasks DEF Settled, ClaimTask, Candidates
  <2>2. \A u \in Tasks : st[u] \in TerminalTask => Settled[u] = st[u]
    BY <1>0, SettledTasks DEF Settled, TerminalTask
  <2>3. s \in [Tasks -> TaskStatus] /\ \A u \in Tasks : st[u] \in TerminalTask => s[u] = st[u]
    BY <2>1, <2>2 DEF TaskStatus, TerminalTask
  <2>4. IsLive /\ gen' = gen /\ Refresh(s, SettledWhy, delayed)
    BY <1>2 DEF ClaimTask, MayClaim
  <2>5. ASSUME NEW u \in Tasks, Settled[u] = "cancelled" PROVE st[u] = "cancelled"
    <3>1. Promoted(st) \in [Tasks -> TaskStatus] /\ Settled[t] \notin TerminalTask
      BY <1>0, <2>1, PromotedTasks DEF TerminalTask
    <3>2. Promoted(st)[u] = "cancelled"
      BY <2>5, <3>1, ClosedTogether DEF Settled
    <3>3. QED
      BY <1>0, <3>2, PromotedTasks
  <2>6. ClosesNone(s)
    BY <2>1, <2>5 DEF ClosesNone
  <2>7. QED
    BY <2>3, <2>4, <2>6, RefreshProgresses
<1>3. ASSUME NEW d \in Dispatchers, ClaimNothing(d) PROVE Progresses \/ Receipts
  <2>1. CASE CloseTeam("expired", TRUE)
    BY <2>1, CloseProgresses
  <2>2. CASE IsLive /\ PromoteAndRefresh(st, why, delayed) /\ UNCHANGED gen
    BY <1>0, <2>2, PromoteProgresses
  <2>3. CASE UNCHANGED <<teamVars, taskVars>>
    BY <2>3 DEF teamVars, taskVars, Receipts
  <2>4. QED
    BY <1>3, <2>1, <2>2, <2>3 DEF ClaimNothing
<1>4. ASSUME NEW h \in handlers, NEW o \in Outcomes, Complete(h, o) PROVE Progresses
  <2> DEFINE t == h[2]
             s == [st EXCEPT ![t] = After(t, o)]
  <2>1. IsLive /\ gen' = gen /\ st[t] = "running" /\ \E w, dl : PromoteAndRefresh(s, w, dl)
    BY <1>4 DEF Complete, LeaseValid
  <2>2. /\ s \in [Tasks -> TaskStatus] /\ ClosesNone(s)
        /\ \A u \in Tasks : st[u] \in TerminalTask => s[u] = st[u]
    BY <1>0, <2>1 DEF After, Outcomes, TaskStatus, ClosesNone
  <2>3. QED
    BY <2>1, <2>2, PromoteProgresses
<1>5. ASSUME NEW W, StopTasks(W) \/ StopTasksBegin(W) PROVE Progresses
  <2> DEFINE S == StopTargets(st, W)
  <2>1. \A t \in S : st[t] \notin TerminalTask
    BY StopTargetsUnfinished DEF Unfinished
  <2>2. /\ Stopped(S) \in [Tasks -> TaskStatus] /\ ClosesNone(Stopped(S))
        /\ \A t \in Tasks : st[t] \in TerminalTask => Stopped(S)[t] = st[t]
    BY <1>0, <2>1 DEF Stopped, TaskStatus, ClosesNone
  <2>3. CASE StopTasks(W)
    <3>1. IsLive /\ gen' = gen /\ PromoteAndRefresh(Stopped(S), why, delayed)
      BY <2>3 DEF StopTasks
    <3>2. QED
      BY <2>2, <3>1, PromoteProgresses
  <2>4. CASE StopTasksBegin(W)
    <3>1. IsLive /\ UNCHANGED teamVars /\ (st' = Stopped(S) \/ st' = st)
      BY <2>4 DEF StopTasksBegin
    <3>2. QED
      BY <1>0, <2>2, <3>1 DEF Progresses, teamVars
  <2>5. QED
    BY <1>5, <2>3, <2>4
<1>6. CASE StopTasksEnd
  <2>1. CASE IsLive /\ PromoteAndRefresh(st, why, delayed)
    <3>1. gen' = gen
      BY <1>6 DEF StopTasksEnd
    <3>2. QED
      BY <1>0, <2>1, <3>1, PromoteProgresses
  <2>2. CASE ~IsLive /\ st' = Promoted(st) /\ UNCHANGED <<team, notice, why, delayed>>
    BY <1>6, <2>2 DEF StopTasksEnd, PromotesLate
  <2>3. QED
    BY <1>6, <2>1, <2>2 DEF StopTasksEnd
<1>7. CASE CancelTeam \/ CancelResponseTeam \/ \E d \in Dispatchers : ExpireDue(d)
  <2>1. CASE \E deliver : CloseTeam("cancelled", deliver) \/ CloseTeam("expired", deliver)
    BY <2>1, CloseProgresses
  <2>2. CASE UNCHANGED <<teamVars, taskVars>>
    BY <2>2 DEF teamVars, taskVars, Receipts
  <2>3. QED
    BY <1>7, <2>1, <2>2 DEF CancelTeam, CancelResponseTeam, ExpireDue
<1>8. CASE SuppressReceipts \/ \E g \in 0..MaxRetries : TakeReceipt(g) \/ FinishReceipt(g)
  <2>1. UNCHANGED <<team, gen, st>>
    BY <1>8 DEF SuppressReceipts, TakeReceipt, FinishReceipt, taskVars
  <2>2. QED
    BY <1>8, <2>1 DEF Receipts
<1>9. CASE UNCHANGED <<team, gen, st, notice>>
  BY <1>9 DEF Receipts
<1>10. QED
  BY <1>1, <1>2, <1>3, <1>4, <1>5, <1>6, <1>7, <1>8, <1>9
     DEF Next, Sweep, Dispatch, Handler, User, Environment, RecoverBegin, RecoverStop,
         RecoverStopFails, RecoverExtend, SweepDone, Attach, Abandon, CleanupTerminal,
         StopParent, LeaseLapses, DelayEnds, DeadlinePasses, Crash, vars, teamVars, taskVars

(* A team that has ended is not live, and the other way round.              *)
LEMMA LiveOrEnded == TypeOK => (IsLive <=> team \notin TerminalTeam)
  BY DEF TypeOK, IsLive, TeamStatus, LiveTeam, TerminalTeam

-----------------------------------------------------------------------------
(* The end of a team.                                                      *)

(* No step leaves an open task in a team that has ended.                    *)
LEMMA SettledStep == TypeOK /\ TerminalSettled /\ [Next]_vars => TerminalSettled'
<1> SUFFICES ASSUME TypeOK, TerminalSettled, [Next]_vars, team' \in TerminalTeam
             PROVE  \A t \in Tasks : st'[t] \in TerminalTask
  BY DEF TerminalSettled
<1>1. CASE Progresses
  <2>1. CASE UNCHANGED <<team, notice>>
    BY <1>1, <2>1, LiveOrEnded DEF Progresses
  <2>2. CASE team' = Verdict(st') /\ \E s \in [Tasks -> TaskStatus] : st' = Refreshed(s)
    BY <2>2, VerdictIsFinal
  <2>3. CASE \A t \in Tasks : st'[t] \in TerminalTask
    BY <2>3
  <2>4. QED
    BY <1>1, <2>1, <2>2, <2>3 DEF Progresses
<1>2. CASE PromotesLate
  <2>1. \A t \in Tasks : st[t] \in TerminalTask
    BY <1>2 DEF PromotesLate, TerminalSettled
  <2>2. QED
    BY <1>2, <2>1, PromotedTasks DEF PromotesLate, TypeOK, TerminalTask
<1>3. CASE Receipts
  BY <1>3 DEF Receipts, TerminalSettled
<1>4. CASE \E W : Retry(W)
  BY <1>4 DEF Retry, TerminalTeam
<1>5. QED
  BY <1>1, <1>2, <1>3, <1>4, ResultKinds

(* A team ends only when each of its tasks has ended, whatever fails, is    *)
(* stopped or retried, and in whatever order.                              *)
THEOREM EndsAreFinal == Spec => []TerminalSettled
<1>1. Init => TerminalSettled
  BY DEF Init, TerminalSettled, TerminalTeam
<1>2. TypeOK /\ TerminalSettled /\ [Next]_vars => TerminalSettled'
  BY SettledStep
<1>3. QED
  BY <1>1, <1>2, TypeCorrect, PTL DEF Spec

(* The queue.                                                              *)

(* A task is closed with its team, and never alone.                        *)
CancelledTogether == (\E t \in Tasks : st[t] = "cancelled") => team = "cancelled"

LEMMA CancelStep == TypeOK /\ CancelledTogether /\ [Next]_vars => CancelledTogether'
<1> SUFFICES ASSUME TypeOK, CancelledTogether, [Next]_vars, NEW t \in Tasks, st'[t] = "cancelled"
             PROVE  team' = "cancelled"
  BY DEF CancelledTogether
<1>1. CASE st[t] = "cancelled"
  <2>1. team = "cancelled"
    BY <1>1 DEF CancelledTogether
  <2>2. CASE PromotesLate \/ Receipts
    BY <2>1, <2>2 DEF PromotesLate, Receipts
  <2>3. CASE Progresses \/ \E W : Retry(W)
    BY <2>1, <2>3 DEF Progresses, Retry, IsLive, LiveTeam
  <2>4. QED
    BY <2>2, <2>3, ResultKinds
<1>2. CASE st[t] # "cancelled"
  <2>1. CASE Progresses
    <3>1. ASSUME NEW s \in [Tasks -> TaskStatus], st' = Refreshed(s), ClosesNone(s),
                 team' = Verdict(st')
          PROVE  team' = "cancelled"
      <4>1. AllWorkStopped(st')
        BY <1>2, <3>1, ClosedTogether DEF ClosesNone
      <4>2. QED
        BY <3>1, <4>1 DEF Verdict
    <3>2. QED
      BY <1>2, <2>1, <3>1 DEF Progresses, ClosesNone
  <2>2. CASE PromotesLate
    BY <1>2, <2>2, PromotedTasks DEF PromotesLate, TypeOK
  <2>3. CASE Receipts
    BY <1>2, <2>3 DEF Receipts
  <2>4. ASSUME NEW W, Retry(W) PROVE FALSE
    BY <1>2, <2>4 DEF Retry
  <2>5. QED
    BY <2>1, <2>2, <2>3, <2>4, ResultKinds
<1>3. QED
  BY <1>1, <1>2

LEMMA QueueMoves == TypeOK /\ CancelledTogether => NothingStalls
<1> SUFFICES ASSUME TypeOK, CancelledTogether, IsLive,
                    \A t \in Tasks : Settled[t] \notin {"queued", "running"},
                    \A v \in Verification : st[v] # "stopped"
             PROVE  Verdict(Settled) \in TerminalTeam
  BY DEF NothingStalls
<1>1. /\ st \in [Tasks -> TaskStatus] /\ Promoted(st) \in [Tasks -> TaskStatus]
      /\ \A t \in Tasks : st[t] # "cancelled"
  BY PromotedTasks DEF TypeOK, CancelledTogether, IsLive, LiveTeam
<1>2. Settled \in [Tasks -> TaskStatus] /\ \A t \in Tasks : Settled[t] \in TerminalTask
  BY <1>1, SettledTasks, NothingWaitsForEver DEF Settled
<1>3. (\E t \in Tasks : Settled[t] = "cancelled") => AllWorkStopped(Settled)
  <2>1. \A t \in Tasks : Promoted(st)[t] # "cancelled"
    BY <1>1, PromotedTasks
  <2>2. QED
    BY <1>1, <2>1, ClosedTogether DEF Settled
<1>4. \A v \in Verification : Settled[v] # "stopped"
  BY <1>1, SettledTasks DEF Settled, Verification
<1>5. QED
  BY <1>2, <1>3, <1>4, EndedIsFinal

(* A live team is never stuck, for every work graph that _create_team       *)
(* accepts: what claim_next_task promotes and refreshes has a task to run   *)
(* or ends the team, unless the user stopped a verifier or summarizer.     *)
THEOREM NeverStuck == Spec => []NothingStalls
<1>1. Init => CancelledTogether
  BY DEF Init, CancelledTogether
<1>2. TypeOK /\ CancelledTogether /\ [Next]_vars => CancelledTogether'
  BY CancelStep
<1>3. QED
  BY <1>1, <1>2, QueueMoves, TypeCorrect, PTL DEF Spec

-----------------------------------------------------------------------------
(* The result of a team.                                                   *)

(* A late promotion finds nothing that waits: what has ended stays as it    *)
(* is.                                                                     *)
LEMMA PromotedEnd ==
  ASSUME TypeOK, TerminalSettled, team \in TerminalTeam
  PROVE  Promoted(st) = st
<1>1. st \in [Tasks -> TaskStatus] /\ \A t \in Tasks : st[t] # "waiting_dependency"
  BY DEF TypeOK, TerminalSettled, TerminalTask
<1>2. Promoted(st) \in [Tasks -> TaskStatus] /\ \A t \in Tasks : Promoted(st)[t] = st[t]
  BY <1>1, PromotedTasks
<1>3. QED
  BY <1>1, <1>2

(* No step makes a team report a result it does not have.                   *)
LEMMA DeliverStep ==
  TypeOK /\ TerminalSettled /\ CompletedDelivers /\ [Next]_vars => CompletedDelivers'
<1> SUFFICES ASSUME TypeOK, TerminalSettled, CompletedDelivers, [Next]_vars, team' = "completed"
             PROVE  /\ \E v \in Verification : st'[v] = "completed"
                    /\ \E w \in Workers : st'[w] = "completed"
  BY DEF CompletedDelivers
<1>1. CASE Progresses
  <2>1. team # "completed"
    BY <1>1 DEF Progresses, IsLive, LiveTeam
  <2>2. CASE team' = Verdict(st') /\ \E s \in [Tasks -> TaskStatus] : st' = Refreshed(s)
    <3>1. st' \in [Tasks -> TaskStatus]
      BY <2>2, RefreshedTasks
    <3>2. QED
      BY <2>2, <3>1, CompletionDelivers
  <2>3. QED
    BY <1>1, <2>1, <2>2 DEF Progresses
<1>2. CASE PromotesLate
  <2>1. team = "completed" /\ team \in TerminalTeam
    BY <1>2 DEF PromotesLate, TerminalTeam
  <2>2. st' = st
    BY <1>2, <2>1, PromotedEnd DEF PromotesLate
  <2>3. QED
    BY <2>1, <2>2 DEF CompletedDelivers
<1>3. CASE Receipts
  BY <1>3 DEF Receipts, CompletedDelivers
<1>4. CASE \E W : Retry(W)
  BY <1>4 DEF Retry
<1>5. QED
  BY <1>1, <1>2, <1>3, <1>4, ResultKinds

(* A team that reports "completed" has the result of a worker and of a      *)
(* verifier or summarizer, for every work graph that _create_team accepts. *)
THEOREM CompletionIsEarned == Spec => []CompletedDelivers
<1>1. Init => CompletedDelivers
  BY DEF Init, CompletedDelivers
<1>2. TypeOK /\ TerminalSettled /\ CompletedDelivers /\ [Next]_vars => CompletedDelivers'
  BY DeliverStep
<1>3. QED
  BY <1>1, <1>2, TypeCorrect, EndsAreFinal, PTL DEF Spec

(* A team that has ended, and its tasks, change only by a retry request;    *)
(* a cancelled or expired team never changes.                              *)
THEOREM EndsStay == Spec => TerminalStays
<1>1. ASSUME TypeOK, TerminalSettled, [Next]_vars, team \in TerminalTeam
      PROVE  \/ team' = team /\ st' = st
             \/ team \notin {"cancelled", "expired"} /\ gen' = gen + 1
  <2>1. CASE PromotesLate
    BY <1>1, <2>1, PromotedEnd DEF PromotesLate
  <2>2. CASE Receipts
    BY <2>2 DEF Receipts
  <2>3. CASE \E W : Retry(W)
    BY <2>3 DEF Retry
  <2>4. QED
    BY <1>1, <2>1, <2>2, <2>3, ResultKinds, LiveOrEnded DEF Progresses
<1>2. QED
  BY <1>1, TypeCorrect, EndsAreFinal, PTL DEF Spec, TerminalStays

(* A task that was stopped, or closed with its team, never starts again.    *)
THEOREM StopsStay == Spec => StoppedStays
<1>1. ASSUME TypeOK, [Next]_vars, NEW t \in Tasks, st[t] \in {"stopped", "cancelled"}
      PROVE  st'[t] = st[t]
  <2>1. CASE Progresses
    BY <1>1, <2>1 DEF Progresses, TerminalTask
  <2>2. CASE PromotesLate
    BY <1>1, <2>2, PromotedTasks DEF PromotesLate, TypeOK
  <2>3. CASE Receipts
    BY <2>3 DEF Receipts
  <2>4. CASE \E W : Retry(W)
    BY <1>1, <2>4, RetryRowsEnded DEF Retry
  <2>5. QED
    BY <1>1, <2>1, <2>2, <2>3, <2>4, ResultKinds
<1>2. TypeOK /\ [Next]_vars
        => [\A t \in Tasks : st[t] \in {"stopped", "cancelled"} => st'[t] = st[t]]_vars
  BY <1>1
<1>3. QED
  BY <1>2, TypeCorrect, PTL DEF Spec, StoppedStays

-----------------------------------------------------------------------------
(* Receipts.                                                               *)

(* _persist_terminal_team_notification writes the receipt of the present    *)
(* generation and no other.                                                *)
LEMMA NotifiedReceipts ==
  ASSUME TypeOK, NEW deliver
  PROVE  /\ \A g \in 0..MaxRetries \ {gen} : Notified(deliver)[g] = notice[g]
         /\ Notified(deliver)[gen] # "none"
         /\ notice[gen] # "none" => Notified(deliver) = notice
  BY DEF Notified, TypeOK

(* No step leaves two receipts that can reach the session, or an end        *)
(* without one.                                                            *)
LEMMA ReceiptStep == TypeOK /\ ReceiptPerGeneration /\ [Next]_vars => ReceiptPerGeneration'
<1> SUFFICES ASSUME TypeOK, ReceiptPerGeneration, [Next]_vars PROVE ReceiptPerGeneration'
  OBVIOUS
<1>0. gen \in 0..MaxRetries /\ gen \in Nat /\ notice \in [0..MaxRetries -> NoticeStatus]
  BY ParameterAssumption DEF TypeOK
<1>1. CASE Progresses
  <2>1. team \notin TerminalTeam /\ notice[gen] = "none" /\ gen' = gen
    BY <1>1, LiveOrEnded DEF Progresses, ReceiptPerGeneration
  <2>2. CASE UNCHANGED <<team, notice>>
    BY <2>1, <2>2 DEF ReceiptPerGeneration
  <2>3. CASE team' \notin TerminalTeam /\ notice' = notice
    BY <2>1, <2>3 DEF ReceiptPerGeneration
  <2>4. CASE team' \in TerminalTeam /\ \E deliver : notice' = Notified(deliver)
    BY <1>0, <2>1, <2>4, NotifiedReceipts DEF ReceiptPerGeneration
  <2>5. QED
    BY <1>1, <2>2, <2>3, <2>4 DEF Progresses, TerminalTeam
<1>2. CASE PromotesLate
  BY <1>2 DEF PromotesLate, ReceiptPerGeneration
<1>3. CASE Receipts
  <2>1. UNCHANGED <<team, gen>>
    BY <1>3 DEF Receipts
  <2>2. CASE UNCHANGED notice
    BY <2>1, <2>2 DEF ReceiptPerGeneration
  <2>3. CASE SuppressReceipts
    <3>1. \A g \in 0..MaxRetries : notice'[g] = notice[g]
                                   \/ (notice[g] # "none" /\ notice'[g] = "cancelled")
      BY <2>3 DEF SuppressReceipts
    <3>2. QED
      BY <1>0, <2>1, <3>1 DEF ReceiptPerGeneration
  <2>4. ASSUME NEW g \in 0..MaxRetries, TakeReceipt(g) \/ FinishReceipt(g)
        PROVE  ReceiptPerGeneration'
    <3>1. notice[g] \in {"queued", "processing"}
      BY <2>4 DEF TakeReceipt, FinishReceipt
    <3>2. g = gen
      BY <1>0, <3>1 DEF ReceiptPerGeneration
    <3>3. /\ notice'[g] # "none"
          /\ \A k \in 0..MaxRetries : k # g => notice'[k] = notice[k]
      BY <1>0, <2>4 DEF TakeReceipt, FinishReceipt
    <3>4. QED
      BY <1>0, <2>1, <3>1, <3>2, <3>3 DEF ReceiptPerGeneration
  <2>5. QED
    BY <1>3, <2>2, <2>3, <2>4 DEF Receipts
<1>4. ASSUME NEW W, Retry(W) PROVE ReceiptPerGeneration'
  <2>1. gen' = gen + 1 /\ gen < MaxRetries /\ team' \notin TerminalTeam
    BY <1>4 DEF Retry, TerminalTeam
  <2>2. \A g \in 0..MaxRetries :
          notice'[g] = IF notice[g] = "queued" THEN "superseded" ELSE notice[g]
    BY <1>4 DEF Retry, Superseded
  <2>3. notice[gen] # "processing" /\ notice[gen + 1] = "none"
    BY <1>0, <1>4, <2>1, ParameterAssumption DEF Retry, NoReceiptInHand, ReceiptPerGeneration
  <2>4. \A g \in 0..MaxRetries : g < gen + 1 => g < gen \/ g = gen
    BY <1>0
  <2>5. \A g \in 0..MaxRetries : g > gen + 1 => g > gen
    BY <1>0
  <2>6. gen + 1 \in 0..MaxRetries
    BY <1>0, <2>1, ParameterAssumption
  <2>7. QED
    BY <1>0, <2>1, <2>2, <2>3, <2>4, <2>5, <2>6 DEF ReceiptPerGeneration
<1>5. QED
  BY <1>1, <1>2, <1>3, <1>4, ResultKinds

(* A team that has ended has the one receipt of its present generation, and *)
(* no receipt of an earlier generation can still reach the session.        *)
THEOREM OneReceipt == Spec => []ReceiptPerGeneration
<1>1. Init => ReceiptPerGeneration
  BY ParameterAssumption DEF Init, ReceiptPerGeneration, TerminalTeam
<1>2. TypeOK /\ ReceiptPerGeneration /\ [Next]_vars => ReceiptPerGeneration'
  BY ReceiptStep
<1>3. QED
  BY <1>1, <1>2, TypeCorrect, PTL DEF Spec

(* The stop of the response run is complete only when its receipts are      *)
(* withdrawn.                                                              *)
LEMMA StopCompletes ==
  ASSUME [Next]_vars, parent' = "settled", parent # "settled"
  PROVE  SuppressReceipts
  BY DEF Next, Sweep, Dispatch, Handler, User, Environment, ExpireDue, RecoverBegin,
     RecoverStop, RecoverStopFails, RecoverExtend, RecoverFinish, SweepDone, ClaimTask,
     ClaimNothing, Attach, Complete, Abandon, CleanupTerminal, CancelTeam, StopTasks,
     StopTasksBegin, StopTasksEnd, Retry, StopParent, CancelResponseTeam,
     TakeReceipt, FinishReceipt, LeaseLapses, DelayEnds, DeadlinePasses, Crash, vars, envVars

(* No step offers a receipt once the stop of the response run is complete.  *)
LEMMA SilenceStep == TypeOK /\ ParentSilenced /\ [Next]_vars => ParentSilenced'
<1> SUFFICES ASSUME TypeOK, ParentSilenced, [Next]_vars, parent' = "settled"
             PROVE  \A g \in 0..MaxRetries : notice'[g] \notin {"queued", "processing"}
  BY DEF ParentSilenced
<1>1. CASE parent # "settled"
  BY <1>1, StopCompletes DEF SuppressReceipts
<1>2. CASE parent = "settled"
  <2>0. \A g \in 0..MaxRetries : notice[g] \notin {"queued", "processing"}
    BY <1>2 DEF ParentSilenced
  <2>1. CASE Progresses
    <3>1. \A deliver : \A g \in 0..MaxRetries :
            Notified(deliver)[g] \notin {"queued", "processing"}
      BY <1>2, <2>0 DEF Notified, TypeOK
    <3>2. notice' = notice \/ \E deliver : notice' = Notified(deliver)
      BY <2>1 DEF Progresses
    <3>3. QED
      BY <2>0, <3>1, <3>2
  <2>2. CASE PromotesLate
    BY <2>0, <2>2 DEF PromotesLate
  <2>3. CASE Receipts
    BY <1>2, <2>0, <2>3 DEF Receipts, SuppressReceipts, TakeReceipt, FinishReceipt
  <2>4. CASE \E W : Retry(W)
    BY <2>0, <2>4 DEF Retry, Superseded
  <2>5. QED
    BY <2>1, <2>2, <2>3, <2>4, ResultKinds
<1>3. QED
  BY <1>1, <1>2

(* When the stop of the response run is through, no receipt of its team     *)
(* wakes the session again, however late the team ends or is retried.      *)
THEOREM StoppedRunIsSilent == Spec => []ParentSilenced
<1>1. Init => ParentSilenced
  BY DEF Init, ParentSilenced
<1>2. TypeOK /\ ParentSilenced /\ [Next]_vars => ParentSilenced'
  BY SilenceStep
<1>3. QED
  BY <1>1, <1>2, TypeCorrect, PTL DEF Spec

(* While a receipt is processed, the team and tasks it reports on stay as   *)
(* they are.                                                               *)
THEOREM ReaderSeesTheEnd == Spec => ReceiptStable
<1>1. ASSUME TypeOK, TerminalSettled, ReceiptPerGeneration, [Next]_vars,
             NEW g \in 0..MaxRetries, notice[g] = "processing", notice'[g] = "processing"
      PROVE  team' = team /\ st' = st
  <2>1. g = gen /\ team \in TerminalTeam
    BY <1>1, ParameterAssumption DEF ReceiptPerGeneration, TypeOK
  <2>2. ~IsLive
    BY <1>1, <2>1, LiveOrEnded
  <2>3. CASE PromotesLate
    BY <1>1, <2>1, <2>3, PromotedEnd DEF PromotesLate
  <2>4. CASE Receipts
    BY <2>4 DEF Receipts
  <2>5. CASE \E W : Retry(W)
    <3>1. g \in 0..gen
      BY <1>1, <2>1, ParameterAssumption DEF TypeOK
    <3>2. QED
      BY <1>1, <2>5, <3>1 DEF Retry, NoReceiptInHand
  <2>6. QED
    BY <1>1, <2>2, <2>3, <2>4, <2>5, ResultKinds DEF Progresses
<1>2. TypeOK /\ TerminalSettled /\ ReceiptPerGeneration /\ [Next]_vars
        => [\A g \in 0..MaxRetries :
              notice[g] = "processing" /\ notice'[g] = "processing"
                => team' = team /\ st' = st]_vars
  BY <1>1
<1>3. QED
  BY <1>2, TypeCorrect, EndsAreFinal, OneReceipt, PTL DEF Spec, ReceiptStable

-----------------------------------------------------------------------------
(* The results that tasks are given.                                       *)

Solid     == Tasks \ Reports
Delivered == {"completed", "stopped"}
Started   == {"queued", "running", "completed"}

\* What a task needs has ended for good before the task may start.
InputsEnded ==
  \A t \in Solid : st[t] \in Started => \A u \in Deps[t] : st[u] \in Delivered

\* What a step other than a retry does to the statuses: a result stays, a new one
\* is that of a running task, and what may start has its inputs.
Grounded ==
  \A t \in Tasks :
    /\ st[t] \in Delivered => st'[t] = st[t]
    /\ st'[t] = "completed" => st[t] \in {"completed", "running"}
    /\ t \notin Summarizers /\ st[t] \notin Started /\ st'[t] \in Started
         => \A u \in Deps[t] : st'[u] \in Delivered

LEMMA SolidDeps ==
  ASSUME NEW t \in Solid
  PROVE  t \in Tasks \ Summarizers /\ Deps[t] \subseteq Solid
<1> DEFINE Grow(S) == {x \in Tasks : Deps[x] \cap S # {}}
<1>1. t \in Tasks /\ t \notin Closure(Summarizers, Grow)
  BY DEF Solid, Reports
<1>2. PICK S \in SUBSET Tasks : Summarizers \cup Grow(S) \subseteq S /\ t \notin S
  BY <1>1 DEF Closure
<1>3. Deps[t] \cap S = {} /\ Deps[t] \subseteq Tasks
  BY <1>1, <1>2, GraphAssumption
<1>4. \A u \in Deps[t] : u \notin Closure(Summarizers, Grow)
  BY <1>2, <1>3 DEF Closure
<1>5. QED
  BY <1>1, <1>2, <1>3, <1>4 DEF Solid, Reports

(* A retry takes back no result that another task may have been given.      *)
LEMMA SolidKept ==
  ASSUME TypeOK, InputsEnded, NEW W, NEW t \in Solid, st[t] \in Delivered
  PROVE  t \notin RetryRows(st, why, W)
<1> DEFINE Lost == Tasks \ {x \in Solid : st[x] \in Delivered}
           Grow(S) == {x \in Tasks :
                         \/ st[x] \in {"blocked", "completed"} /\ Deps[x] \cap S # {}
                         \/ st[x] = "blocked" /\ why[x] \cap S # {}}
<1>1. RetryRoots(st, W) \subseteq Lost
  BY DEF RetryRoots, Failures, InStatus, Delivered
<1>2. ASSUME NEW x \in Grow(Lost) PROVE x \in Lost
  <2>1. CASE x \in Solid /\ st[x] \in Delivered
    <3>1. st[x] = "completed" /\ Deps[x] \cap Lost # {}
      BY <1>2, <2>1 DEF Delivered
    <3>2. \A u \in Deps[x] : u \in Solid /\ st[u] \in Delivered
      BY <2>1, <3>1, SolidDeps DEF InputsEnded, Started
    <3>3. QED
      BY <3>1, <3>2
  <2>2. QED
    BY <2>1
<1>3. RetryRoots(st, W) \cup Grow(Lost) \subseteq Lost
  BY <1>1, <1>2
<1>4. Closure(RetryRoots(st, W), Grow) \subseteq Lost
  BY <1>3 DEF Closure
<1>5. QED
  BY <1>4 DEF RetryRows

(* After _promote_dependencies, and after the refresh, what a promotion      *)
(* queued has its inputs.                                                  *)
LEMMA QueuedHasInputs ==
  ASSUME NEW s \in [Tasks -> TaskStatus], NEW r, r = Promoted(s) \/ r = Refreshed(Promoted(s)),
         NEW t \in Tasks \ Summarizers, s[t] \notin Started, r[t] \in Started
  PROVE  \A u \in Deps[t] : r[u] \in Delivered
<1>1. Deps[t] \subseteq Tasks
  BY GraphAssumption
<1>2. Promoted(s) \in [Tasks -> TaskStatus]
  BY PromotedTasks
<1>3. s[t] = "waiting_dependency" /\ Promoted(s)[t] = "queued"
  <2>1. Promoted(s)[t] \in Started
    BY <1>2, RefreshedTasks DEF Started
  <2>2. QED
    BY <2>1, PromotedTasks DEF Started
<1>4. \A u \in Deps[t] : s[u] \in Delivered
  BY <1>3, PromotedReady DEF Delivered
<1>5. \A u \in Deps[t] : Promoted(s)[u] = s[u]
  BY <1>1, <1>4, PromotedTasks DEF Delivered
<1>6. \A u \in Deps[t] : Refreshed(Promoted(s))[u] = Promoted(s)[u]
  BY <1>1, <1>2, <1>4, <1>5, RefreshedTasks DEF Delivered
<1>7. QED
  BY <1>4, <1>5, <1>6

\* Statuses that a service function may give to rows before it promotes.
Written(s) ==
  \A t \in Tasks : \/ s[t] = st[t]
                   \/ st[t] = "running"
                   \/ st[t] \in Unfinished /\ s[t] \in {"stopped", "cancelled", "expired"}

LEMMA PromotionGrounded ==
  ASSUME TypeOK, NEW s \in [Tasks -> TaskStatus], Written(s),
         st' = Promoted(s) \/ st' = Refreshed(Promoted(s))
  PROVE  Grounded
<1>1. \A t \in Tasks :
        \/ st'[t] = s[t]
        \/ /\ s[t] \in {"queued", "waiting_dependency"}
           /\ st'[t] \in {"blocked", "cancelled", "queued"}
  BY PromotedTasks, SettledTasks
<1>2. \A t \in Tasks : st[t] \in Delivered => s[t] = st[t]
  BY DEF Written, Delivered, Unfinished, TerminalTask
<1>3. \A t \in Tasks : st[t] \in Delivered => st'[t] = st[t]
  BY <1>1, <1>2 DEF Delivered
<1>4. \A t \in Tasks : st'[t] = "completed" => st[t] \in {"completed", "running"}
  BY <1>1 DEF Written
<1>5. ASSUME NEW t \in Tasks, t \notin Summarizers, st[t] \notin Started, st'[t] \in Started
      PROVE  \A u \in Deps[t] : st'[u] \in Delivered
  <2>1. s[t] \notin Started
    BY <1>5 DEF Written, Started
  <2>2. QED
    BY <1>5, <2>1, QueuedHasInputs
<1>6. QED
  BY <1>3, <1>4, <1>5 DEF Grounded

LEMMA CloseGrounded ==
  ASSUME TypeOK, NEW final \in {"cancelled", "expired"}, NEW deliver, CloseTeam(final, deliver)
  PROVE  Grounded
<1>1. \A t \in Tasks : st'[t] = IF st[t] \in Unfinished THEN final ELSE st[t]
  BY DEF CloseTeam, InStatus
<1>2. QED
  BY <1>1 DEF Grounded, Delivered, Started, Unfinished, TerminalTask

LEMMA ClaimGrounded ==
  ASSUME TypeOK, NEW d \in Dispatchers, NEW t \in Tasks, ClaimTask(d, t)
  PROVE  Grounded
<1> DEFINE s == [Settled EXCEPT ![t] = "running"]
<1>1. Settled \in [Tasks -> TaskStatus] /\ Settled[t] = "queued" /\ st \in [Tasks -> TaskStatus]
  BY SettledTasks DEF TypeOK, Settled, ClaimTask, Candidates
<1>2. s \in [Tasks -> TaskStatus] /\ s[t] = "running" /\ \A u \in Tasks \ {t} : s[u] = Settled[u]
  BY <1>1 DEF TaskStatus
<1>3. st' = Refreshed(s)
  BY DEF ClaimTask, Refresh
<1>4. \A u \in Tasks : Settled[u] \in Delivered => st'[u] = Settled[u]
  <2>1. \A u \in Tasks : s[u] \in Delivered => st'[u] = s[u]
    BY <1>2, <1>3, RefreshedTasks DEF Delivered
  <2>2. \A u \in Tasks : Settled[u] \in Delivered => u # t
    BY <1>1 DEF Delivered
  <2>3. QED
    BY <1>2, <2>1, <2>2
<1>5. \A u \in Tasks : st[u] \in Delivered => Settled[u] = st[u]
  BY <1>1, SettledTasks DEF Settled, Delivered
<1>6. \A u \in Tasks : st'[u] = "completed" => st[u] = "completed"
  <2>1. \A u \in Tasks : st'[u] = "completed" => s[u] = "completed"
    BY <1>2, <1>3, RefreshedTasks
  <2>2. \A u \in Tasks : Settled[u] = "completed" => st[u] = "completed"
    BY <1>1, SettledTasks DEF Settled
  <2>3. QED
    BY <1>2, <2>1, <2>2
<1>7. \A u \in Tasks : st'[u] \in Started => Settled[u] \in Started
  <2>1. \A u \in Tasks : st'[u] \in Started => s[u] \in Started
    BY <1>2, <1>3, RefreshedTasks DEF Started
  <2>2. Settled[t] \in Started
    BY <1>1 DEF Started
  <2>3. QED
    BY <1>2, <2>1, <2>2
<1>8. ASSUME NEW u \in Tasks, u \notin Summarizers, st[u] \notin Started, st'[u] \in Started
      PROVE  \A x \in Deps[u] : st'[x] \in Delivered
  <2>1. \A x \in Deps[u] : x \in Tasks /\ Settled[x] \in Delivered
    BY <1>1, <1>7, <1>8, QueuedHasInputs, GraphAssumption DEF Settled
  <2>2. QED
    BY <1>4, <2>1
<1>9. QED
  BY <1>4, <1>5, <1>6, <1>8 DEF Grounded

(* Every step but a retry is grounded.                                      *)
LEMMA GroundedStep ==
  ASSUME TypeOK, [Next]_vars, ~\E W : Retry(W)
  PROVE  Grounded
<1>0. st \in [Tasks -> TaskStatus]
  BY DEF TypeOK
<1>a. CASE UNCHANGED st
  BY <1>a DEF Grounded, Delivered, Started
<1>b. ASSUME NEW s \in [Tasks -> TaskStatus], Written(s), NEW w, NEW dl, PromoteAndRefresh(s, w, dl)
      PROVE  Grounded
  BY <1>b, PromotionGrounded DEF PromoteAndRefresh, Refresh
<1>c. Written(st)
  BY DEF Written
<1>1. ASSUME NEW d \in Dispatchers, RecoverFinish(d) PROVE Grounded
  <2> DEFINE t == rec[d][1]
             next == IF attempt[t] >= MaxAttempts[t] THEN "failed" ELSE "queued"
             s == [st EXCEPT ![t] = next]
  <2>1. CASE StillRecovering(d, t)
    <3>1. PromoteAndRefresh(s, why, delayed) /\ st[t] = "running"
      BY <1>1, <2>1 DEF RecoverFinish, StillRecovering
    <3>2. s \in [Tasks -> TaskStatus] /\ Written(s)
      BY <1>0, <3>1 DEF TaskStatus, Written
    <3>3. QED
      BY <1>b, <3>1, <3>2
  <2>2. CASE ~StillRecovering(d, t)
    BY <1>1, <2>2, <1>a DEF RecoverFinish, taskVars
  <2>3. QED
    BY <2>1, <2>2
<1>2. ASSUME NEW d \in Dispatchers, ClaimNothing(d) PROVE Grounded
  BY <1>0, <1>2, <1>a, <1>b, <1>c, CloseGrounded DEF ClaimNothing, taskVars
<1>3. ASSUME NEW h \in handlers, NEW o \in Outcomes, Complete(h, o) PROVE Grounded
  <2> DEFINE t == h[2]
             s == [st EXCEPT ![t] = After(t, o)]
  <2>1. st[t] = "running" /\ \E w, dl : PromoteAndRefresh(s, w, dl)
    BY <1>3 DEF Complete, LeaseValid
  <2>2. s \in [Tasks -> TaskStatus] /\ Written(s)
    BY <1>0, <2>1 DEF After, Outcomes, TaskStatus, Written
  <2>3. QED
    BY <1>b, <2>1, <2>2
<1>4. ASSUME NEW W, StopTasks(W) \/ StopTasksBegin(W) PROVE Grounded
  <2> DEFINE s == Stopped(StopTargets(st, W))
  <2>1. s \in [Tasks -> TaskStatus] /\ Written(s)
    BY <1>0, StopTargetsUnfinished DEF Stopped, TaskStatus, Written
  <2>2. CASE StopTasks(W)
    BY <1>b, <2>1, <2>2 DEF StopTasks
  <2>3. CASE StopTasksBegin(W)
    <3>1. CASE st' = s
      <4>1. \A t \in Tasks : s[t] = st[t] \/ (st[t] \in Unfinished /\ s[t] = "stopped")
        BY StopTargetsUnfinished DEF Stopped
      <4>2. QED
        BY <3>1, <4>1 DEF Grounded, Delivered, Started, Unfinished, TerminalTask
    <3>2. QED
      BY <1>a, <2>3, <3>1 DEF StopTasksBegin
  <2>4. QED
    BY <1>4, <2>2, <2>3
<1>5. CASE StopTasksEnd
  BY <1>0, <1>5, <1>b, <1>c, PromotionGrounded DEF StopTasksEnd
<1>6. CASE CancelTeam \/ CancelResponseTeam \/ \E d \in Dispatchers : ExpireDue(d)
  BY <1>6, <1>a, CloseGrounded DEF CancelTeam, CancelResponseTeam, ExpireDue, taskVars
<1>7. ASSUME NEW d \in Dispatchers, NEW t \in Tasks, ClaimTask(d, t) PROVE Grounded
  BY <1>7, ClaimGrounded
<1>8. QED
  BY <1>a, <1>1, <1>2, <1>3, <1>4, <1>5, <1>6, <1>7
     DEF Next, Sweep, Dispatch, Handler, User, Environment, RecoverBegin, RecoverStop,
         RecoverStopFails, RecoverExtend, SweepDone, Attach, Abandon, CleanupTerminal,
         StopParent, SuppressReceipts, TakeReceipt, FinishReceipt,
         LeaseLapses, DelayEnds, DeadlinePasses, Crash, vars, taskVars

(* Tasks are given their inputs when they are claimed.                      *)
LEMMA ReadsChange ==
  ASSUME TypeOK, [Next]_vars
  PROVE  \/ \E W : Retry(W)
         \/ \E d \in Dispatchers, t \in Tasks : ClaimTask(d, t)
         \/ reads' = reads /\ \A t \in Tasks : st'[t] = "running" => st[t] = "running"
<1>1. CASE reads' = reads
  <2>1. (\E S \in SUBSET Tasks : Ends(S)) => \A t \in Tasks : st'[t] = "running" => st[t] = "running"
    BY DEF Ends
  <2>2. QED
    BY <1>1, <2>1, StepKinds DEF RecoverBegin, RecoverExtend, LeaseLapses
<1>2. QED
  BY <1>1 DEF Next, Sweep, Dispatch, Handler, User, Environment, ExpireDue, RecoverBegin,
     RecoverStop, RecoverStopFails, RecoverExtend, RecoverFinish, SweepDone, ClaimNothing,
     Attach, Complete, Abandon, CleanupTerminal, CancelTeam, StopTasks, StopTasksBegin,
     StopTasksEnd, StopParent, CancelResponseTeam, SuppressReceipts, TakeReceipt,
     FinishReceipt, LeaseLapses, DelayEnds, DeadlinePasses, Crash, CloseTeam, vars, taskVars

LEMMA InputsStep == TypeOK /\ InputsEnded /\ [Next]_vars => InputsEnded'
<1> SUFFICES ASSUME TypeOK, InputsEnded, [Next]_vars,
                    NEW t \in Solid, st'[t] \in Started, NEW u \in Deps[t]
             PROVE  st'[u] \in Delivered
  BY DEF InputsEnded, Solid, Reports, Closure, Delivered, Started
<1>0. t \in Tasks \ Summarizers /\ u \in Solid /\ u \in Tasks
  BY SolidDeps DEF Solid
<1>1. ASSUME NEW W, Retry(W) PROVE st'[u] \in Delivered
  <2> DEFINE rows == RetryRows(st, why, W)
  <2>1. st' = [x \in Tasks |-> IF x \notin rows THEN st[x]
                               ELSE IF Deps[x] = {} THEN "queued" ELSE "waiting_dependency"]
    BY <1>1 DEF Retry
  <2>2. t \notin rows /\ st[t] \in Started
    BY <1>0, <2>1 DEF Started
  <2>3. st[u] \in Delivered
    BY <2>2 DEF InputsEnded
  <2>4. u \notin rows
    BY <1>0, <2>3, SolidKept
  <2>5. QED
    BY <1>0, <2>1, <2>3, <2>4
<1>2. CASE Grounded
  <2>1. CASE st[t] \in Started
    BY <1>0, <1>2, <2>1 DEF InputsEnded, Grounded
  <2>2. CASE st[t] \notin Started
    BY <1>0, <1>2, <2>2 DEF Grounded
  <2>3. QED
    BY <2>1, <2>2
<1>3. QED
  BY <1>1, <1>2, GroundedStep

LEMMA FreshStep == TypeOK /\ InputsEnded /\ FreshInputs /\ [Next]_vars => FreshInputs'
<1> SUFFICES ASSUME TypeOK, InputsEnded, FreshInputs, [Next]_vars,
                    NEW t \in Solid, st'[t] \in {"running", "completed"},
                    NEW u \in Deps[t], st'[u] = "completed"
             PROVE  <<t, u>> \in reads'
  BY DEF FreshInputs, Solid, Reports, Closure
<1>0. t \in Tasks /\ u \in Tasks
  BY SolidDeps DEF Solid
<1>1. ASSUME NEW W, Retry(W) PROVE <<t, u>> \in reads'
  <2> DEFINE rows == RetryRows(st, why, W)
  <2>1. /\ st' = [x \in Tasks |-> IF x \notin rows THEN st[x]
                                  ELSE IF Deps[x] = {} THEN "queued" ELSE "waiting_dependency"]
        /\ reads' = {p \in reads : p[1] \notin rows /\ p[2] \notin rows}
    BY <1>1 DEF Retry
  <2>2. t \notin rows /\ u \notin rows /\ st[t] \in {"running", "completed"} /\ st[u] = "completed"
    BY <1>0, <2>1
  <2>3. <<t, u>> \in reads
    BY <2>2 DEF FreshInputs, Solid
  <2>4. QED
    BY <2>1, <2>2, <2>3
<1>2. ASSUME Grounded, st[t] \in {"running", "completed"} PROVE <<t, u>> \in reads
  <2>1. st[u] \in Delivered /\ st[u] \in {"completed", "running"}
    BY <1>0, <1>2 DEF InputsEnded, Started, Grounded
  <2>2. st[u] = "completed"
    BY <2>1 DEF Delivered
  <2>3. QED
    BY <1>2, <2>2 DEF FreshInputs, Solid
<1>3. ASSUME NEW d \in Dispatchers, NEW x \in Tasks, ClaimTask(d, x), Grounded
      PROVE  <<t, u>> \in reads'
  <2>1. reads' = {p \in reads : p[1] # x}
                 \cup {<<x, y>> : y \in {v \in Deps[x] : Settled[v] \in TerminalTask}}
    BY <1>3 DEF ClaimTask
  <2>2. CASE t = x
    <3> DEFINE s == [Settled EXCEPT ![x] = "running"]
    <3>1. Settled \in [Tasks -> TaskStatus] /\ s \in [Tasks -> TaskStatus]
      BY SettledTasks DEF Settled, TypeOK, TaskStatus
    <3>2. st' = Refreshed(s)
      BY <1>3 DEF ClaimTask, Refresh
    <3>3. s[u] = "completed"
      BY <1>0, <3>1, <3>2, RefreshedTasks
    <3>4. Settled[u] = "completed"
      BY <1>0, <3>1, <3>3
    <3>5. QED
      BY <2>1, <2>2, <3>4 DEF TerminalTask
  <2>3. CASE t # x
    <3>1. st'[t] = "running" => st[t] = "running"
      BY <1>0, <1>3, <2>3, ClaimStarts
    <3>2. st[t] \in {"running", "completed"}
      BY <1>0, <1>3, <3>1 DEF Grounded
    <3>3. QED
      BY <1>2, <1>3, <2>1, <2>3, <3>2
  <2>4. QED
    BY <2>2, <2>3
<1>4. ASSUME reads' = reads, \A x \in Tasks : st'[x] = "running" => st[x] = "running", Grounded
      PROVE  <<t, u>> \in reads'
  <2>1. st[t] \in {"running", "completed"}
    BY <1>0, <1>4 DEF Grounded
  <2>2. QED
    BY <1>2, <1>4, <2>1
<1>5. QED
  BY <1>1, <1>3, <1>4, ReadsChange, GroundedStep

(* No task runs or completes on a result that a retry took back, unless it  *)
(* builds on a report: whatever fails, is stopped, recovered or retried.   *)
THEOREM InputsStayFresh == Spec => []FreshInputs
<1>1. Init => InputsEnded /\ FreshInputs
  BY DEF Init, InputsEnded, FreshInputs, Solid, Started
<1>2. TypeOK /\ InputsEnded /\ FreshInputs /\ [Next]_vars => InputsEnded' /\ FreshInputs'
  BY InputsStep, FreshStep
<1>3. QED
  BY <1>1, <1>2, TypeCorrect, PTL DEF Spec

-----------------------------------------------------------------------------
(* The refinement.                                                         *)

(* The step that offers a running task again leaves the others running.     *)
LEMMA RequeuedAlone ==
  ASSUME TypeOK, [Next]_vars, NEW t \in Tasks, st[t] = "running", st'[t] \in Offered,
         NEW u \in Tasks \ {t}, st[u] = "running"
  PROVE  st'[u] = "running"
<1>0. \A s \in [Tasks -> TaskStatus] : \A w, dl :
        PromoteAndRefresh(s, w, dl) /\ s[u] = "running" => st'[u] = "running"
  BY SettledTasks DEF PromoteAndRefresh, Refresh
<1>1. ASSUME NEW d \in Dispatchers, RecoverFinish(d), rec[d][1] = t, StillRecovering(d, t)
      PROVE  st'[u] = "running"
  <2> DEFINE next == IF attempt[t] >= MaxAttempts[t] THEN "failed" ELSE "queued"
             s == [st EXCEPT ![t] = next]
  <2>1. PromoteAndRefresh(s, why, delayed)
    BY <1>1 DEF RecoverFinish
  <2>2. s \in [Tasks -> TaskStatus] /\ s[u] = "running"
    BY DEF TypeOK, TaskStatus
  <2>3. QED
    BY <1>0, <2>1, <2>2
<1>2. ASSUME NEW h \in handlers, NEW o \in Outcomes, Complete(h, o), h[2] = t
      PROVE  st'[u] = "running"
  <2> DEFINE s == [st EXCEPT ![t] = After(t, o)]
  <2>1. \E w, dl : PromoteAndRefresh(s, w, dl)
    BY <1>2 DEF Complete
  <2>2. s \in [Tasks -> TaskStatus] /\ s[u] = "running"
    BY DEF TypeOK, TaskStatus, After, Outcomes
  <2>3. QED
    BY <1>0, <2>1, <2>2
<1>3. QED
  BY <1>1, <1>2, Requeues

(* What the board shows of a task.                                         *)
LEMMA Showing ==
  ASSUME TypeOK
  PROVE  /\ Watched \in [Tasks -> {"offered", "lent", "done"}]
         /\ \A t \in Tasks :
              /\ Watched[t] = "lent" <=> st[t] = "running"
              /\ Watched[t] = "done" <=> st[t] \in TerminalTask
              /\ Watched[t] = "offered" <=> st[t] \in Offered
  BY DEF Watched, TypeOK, TaskStatus, TerminalTask, Offered

(* A step of a live team that starts nothing takes tasks off the board, or  *)
(* gives one back, and closes it when nothing is left.                      *)
LEMMA EndsAreShown ==
  ASSUME TypeOK, TypeOK', TerminalSettled', [Next]_vars, NEW S \in SUBSET Tasks, Ends(S), Progresses
  PROVE  Board!TakeOff \/ \E t \in Tasks : Board!GiveBack(t)
<1>1. Shown = "open" /\ UNCHANGED <<gen, attempt>>
  BY DEF Ends, Progresses, Shown
<1>2. Board!MayClose
  <2>1. CASE IsLive'
    BY <1>1, <2>1 DEF Shown, Board!MayClose
  <2>2. CASE ~IsLive'
    <3>1. \A t \in Tasks : st'[t] \in TerminalTask
      BY <2>2 DEF TypeOK, TerminalSettled, IsLive, TeamStatus
    <3>2. \A t \in Tasks : Watched'[t] = "done"
      BY <3>1 DEF Watched, TerminalTask
    <3>3. Shown' \in {"closed", "off"}
      BY <2>2 DEF Shown
    <3>4. QED
      BY <3>2, <3>3 DEF Board!MayClose
  <2>3. QED
    BY <2>1, <2>2
<1>3. Watched' \in [Tasks -> {"offered", "lent", "done"}]
  BY DEF Watched
<1>4. ASSUME NEW t \in Tasks, ~(st[t] = "running" /\ st'[t] \in Offered)
      PROVE  Watched'[t] = Watched[t] \/ Watched'[t] = "done"
  <2>1. st[t] \in TaskStatus /\ st'[t] \in TaskStatus
    BY DEF TypeOK
  <2>2. st'[t] = "running" => st[t] = "running"
    BY DEF Ends
  <2>3. st[t] \in TerminalTask => st'[t] = st[t]
    BY DEF Progresses
  <2>4. QED
    BY <1>4, <2>1, <2>2, <2>3 DEF Watched, TaskStatus, TerminalTask, Offered
<1>5. CASE \A t \in Tasks : ~(st[t] = "running" /\ st'[t] \in Offered)
  <2>1. Board!OnlyEnds({})
    BY <1>4, <1>5 DEF Board!OnlyEnds
  <2>2. QED
    BY <1>1, <1>2, <1>3, <2>1 DEF Board!TakeOff
<1>6. CASE \E t \in Tasks : st[t] = "running" /\ st'[t] \in Offered
  <2>1. PICK t \in Tasks : st[t] = "running" /\ st'[t] \in Offered
    BY <1>6
  <2>2. \A u \in Tasks \ {t} : ~(st[u] = "running" /\ st'[u] \in Offered)
    BY <2>1, RequeuedAlone DEF Offered
  <2>3. Board!OnlyEnds({t})
    BY <1>4, <2>2 DEF Board!OnlyEnds
  <2>4. Watched[t] = "lent" /\ Watched'[t] = "offered"
    BY <2>1 DEF Watched, Offered, TerminalTask
  <2>5. Board!GiveBack(t)
    BY <1>1, <1>2, <1>3, <2>3, <2>4 DEF Board!GiveBack
  <2>6. QED
    BY <2>5
<1>7. QED
  BY <1>5, <1>6

(* The board counts as this module does.                                    *)
LEMMA SameCount == ASSUME NEW S PROVE Board!Cardinality(S) = Cardinality(S)
  BY DEF Board!Cardinality, Cardinality

LEMMA ClaimIsLoan ==
  ASSUME TypeOK, TypeOK', NEW d \in Dispatchers, NEW t \in Tasks, ClaimTask(d, t)
  PROVE  Board!Lend(t)
<1>1. /\ st[t] \in Offered /\ st'[t] = "running"
      /\ \A u \in Tasks \ {t} :
           /\ st'[u] = "running" <=> st[u] = "running"
           /\ st'[u] \in Offered => st[u] \in Offered
      /\ Cardinality(Running(st)) < MaxActive
  BY ClaimStarts
<1>2. attempt' = [attempt EXCEPT ![t] = @ + 1] /\ gen' = gen /\ IsLive
  BY DEF ClaimTask, MayClaim
<1>3. IsLive'
  <2> DEFINE s == [Settled EXCEPT ![t] = "running"]
  <2>1. s \in [Tasks -> TaskStatus]
    BY SettledTasks DEF Settled, TypeOK, TaskStatus
  <2>2. st' = Refreshed(s) /\ team' = Verdict(Refreshed(s))
    BY DEF ClaimTask, Refresh
  <2>3. team' \notin TerminalTeam
    BY <1>1, <2>1, <2>2, VerdictIsFinal DEF TerminalTask
  <2>4. QED
    BY <2>3 DEF TypeOK, IsLive, TeamStatus
<1>4. Shown = "open" /\ Shown' = "open"
  BY <1>2, <1>3 DEF Shown
<1>5. Watched[t] = "offered" /\ Watched'[t] = "lent"
  BY <1>1 DEF Watched, Offered, TerminalTask
<1>6. Watched' \in [Tasks -> {"offered", "lent", "done"}]
  BY DEF Watched
<1>7. Board!OnlyEnds({t})
  <2>1. \A u \in Tasks : st[u] \in TaskStatus /\ st'[u] \in TaskStatus
    BY DEF TypeOK
  <2>2. ASSUME NEW u \in Tasks \ {t} PROVE Watched'[u] = Watched[u] \/ Watched'[u] = "done"
    BY <1>1, <2>1 DEF Watched, Offered, TaskStatus, TerminalTask
  <2>3. QED
    BY <2>2 DEF Board!OnlyEnds
<1>8. Board!Lent = Running(st)
  BY Showing DEF Board!Lent, Running, InStatus
<1>9. QED
  BY <1>1, <1>2, <1>4, <1>5, <1>6, <1>7, <1>8, SameCount DEF Board!Lend

LEMMA RetryIsRound ==
  ASSUME TypeOK, NEW W, Retry(W)
  PROVE  Board!Reopen
<1> DEFINE rows == RetryRows(st, why, W)
<1>1. /\ team \in {"failed", "blocked", "completed", "queued", "running"} /\ team' = "queued"
      /\ gen' = gen + 1 /\ attempt' = attempt
      /\ st' = [t \in Tasks |-> IF t \notin rows THEN st[t]
                                ELSE IF Deps[t] = {} THEN "queued" ELSE "waiting_dependency"]
  BY DEF Retry
<1>2. Shown # "off" /\ Shown' = "open"
  BY <1>1 DEF Shown, IsLive, LiveTeam
<1>3. \A t \in rows : st[t] \in TerminalTask
  BY RetryRowsEnded DEF TerminalTask
<1>4. \A t \in Tasks :
        Watched'[t] = Watched[t] \/ (Watched[t] = "done" /\ Watched'[t] = "offered")
  BY <1>1, <1>3 DEF Watched, TerminalTask
<1>5. Watched' \in [Tasks -> {"offered", "lent", "done"}]
  BY DEF Watched
<1>6. QED
  BY <1>1, <1>2, <1>4, <1>5 DEF Board!Reopen

LEMMA BoardStep ==
  TypeOK /\ TypeOK' /\ TerminalSettled /\ TerminalSettled' /\ [Next]_vars => [Board!Next]_Board!bvars
<1> SUFFICES ASSUME TypeOK, TypeOK', TerminalSettled, TerminalSettled', [Next]_vars
             PROVE  [Board!Next]_Board!bvars
  OBVIOUS
<1>1. CASE UNCHANGED <<team, gen, st, attempt>>
  BY <1>1 DEF Board!bvars, Shown, IsLive, Watched
<1>2. ASSUME NEW d \in Dispatchers, NEW t \in Tasks, RecoverBegin(d, t) PROVE [Board!Next]_Board!bvars
  BY <1>1, <1>2 DEF RecoverBegin, teamVars
<1>3. ASSUME NEW d \in Dispatchers, RecoverExtend(d) PROVE [Board!Next]_Board!bvars
  BY <1>1, <1>3 DEF RecoverExtend, teamVars
<1>4. ASSUME NEW t \in Tasks, LeaseLapses(t) PROVE [Board!Next]_Board!bvars
  BY <1>1, <1>4 DEF LeaseLapses, teamVars
<1>5. ASSUME NEW d \in Dispatchers, NEW t \in Tasks, ClaimTask(d, t) PROVE Board!Next
  BY <1>5, ClaimIsLoan DEF Board!Next
<1>6. ASSUME NEW W, Retry(W) PROVE Board!Next
  BY <1>6, RetryIsRound DEF Board!Next
<1>7. ASSUME NEW S \in SUBSET Tasks, Ends(S) PROVE [Board!Next]_Board!bvars
  <2>1. CASE Progresses
    BY <1>7, <2>1, EndsAreShown DEF Board!Next
  <2>2. CASE PromotesLate
    <3>1. st' = st
      BY <2>2, LiveOrEnded, PromotedEnd DEF PromotesLate
    <3>2. QED
      BY <1>1, <1>7, <2>2, <3>1 DEF PromotesLate, Ends
  <2>3. CASE Receipts
    BY <1>1, <1>7, <2>3 DEF Receipts, Ends
  <2>4. QED
    BY <1>6, <2>1, <2>2, <2>3, ResultKinds
<1>8. QED
  BY <1>2, <1>3, <1>4, <1>5, <1>6, <1>7, StepKinds

LEMMA BoardInit == Init => Board!Init
  BY DEF Init, Board!Init, Watched, Shown, IsLive, LiveTeam, TerminalTask

(* A team with its dispatchers, leases, recoveries, stops and retries is a  *)
(* board of tasks: each is lent to one attempt at a time, at most MaxActive *)
(* at once, and a team that ends has nothing left on it.                    *)
THEOREM TeamIsBoard == Spec => ImplementsBoard
<1>1. QED
  BY BoardInit, BoardStep, TypeCorrect, EndsAreFinal, PTL DEF Spec, ImplementsBoard, Board!Spec
=============================================================================
