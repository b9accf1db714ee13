-------------------------- MODULE TeamGraphProofs --------------------------
(***************************************************************************)
(* What the rules of TeamGraph do to one task, for every work graph: the   *)
(* facts on which the proofs about AgentTeam rest.                         *)
(***************************************************************************)
EXTENDS TeamGraph, WellFoundedInduction, TLAPS

(* _promote_dependencies touches only tasks that wait, and either blocks or *)
(* queues them.                                                            *)
LEMMA PromotedTasks ==
  ASSUME NEW s \in [Tasks -> TaskStatus]
  PROVE  /\ Promoted(s) \in [Tasks -> TaskStatus]
         /\ \A t \in Tasks :
              \/ Promoted(s)[t] = s[t]
              \/ s[t] = "waiting_dependency" /\ Promoted(s)[t] \in {"blocked", "queued"}
<1>1. \A t \in Tasks : t \in Doomed(s) => s[t] = "waiting_dependency"
  BY DEF Doomed, WaitingWork
<1>2. \A t \in Tasks : t \in Ready(s, Doomed(s)) => s[t] = "waiting_dependency"
  BY DEF Ready
<1>3. QED
  BY <1>1, <1>2 DEF Promoted, TaskStatus

(* _refresh_team_status touches only tasks that are queued or wait, and     *)
(* closes them.                                                            *)
LEMMA RefreshedTasks ==
  ASSUME NEW s \in [Tasks -> TaskStatus]
  PROVE  /\ Refreshed(s) \in [Tasks -> TaskStatus]
         /\ \A t \in Tasks :
              \/ Refreshed(s)[t] = s[t]
              \/ /\ s[t] \in {"queued", "waiting_dependency"}
                 /\ Refreshed(s)[t] \in {"blocked", "cancelled"}
<1>1. \A t \in Tasks : AllWorkStopped(s) /\ t \in InStatus(s, Unfinished)
        => s[t] \in {"queued", "waiting_dependency"}
  BY DEF AllWorkStopped, Running, InStatus, Unfinished, TaskStatus, TerminalTask
<1>2. \A t \in Tasks : t \in Pending(s) => s[t] \in {"queued", "waiting_dependency"}
  BY DEF Pending, InStatus
<1>3. QED
  BY <1>1, <1>2 DEF Refreshed, TaskStatus

(* Together, as at the end of every function of the service: no task starts *)
(* or stops running, and what has ended stays as it is.                    *)
LEMMA SettledTasks ==
  ASSUME NEW s \in [Tasks -> TaskStatus]
  PROVE  /\ Refreshed(Promoted(s)) \in [Tasks -> TaskStatus]
         /\ \A t \in Tasks :
              \/ Refreshed(Promoted(s))[t] = s[t]
              \/ /\ s[t] \in {"queued", "waiting_dependency"}
                 /\ Refreshed(Promoted(s))[t] \in {"blocked", "cancelled"}
              \/ /\ s[t] = "waiting_dependency"
                 /\ Refreshed(Promoted(s))[t] = "queued"
<1>1. Promoted(s) \in [Tasks -> TaskStatus]
  BY PromotedTasks
<1>2. QED
  BY <1>1, PromotedTasks, RefreshedTasks

(* Only the end of the team cancels a task, and leaves none of them open.   *)
LEMMA ClosedTogether ==
  ASSUME NEW s \in [Tasks -> TaskStatus],
         NEW t \in Tasks, Refreshed(s)[t] = "cancelled", s[t] # "cancelled"
  PROVE  AllWorkStopped(Refreshed(s)) /\ \A u \in Tasks : Refreshed(s)[u] \in TerminalTask
<1>1. AllWorkStopped(s)
  BY DEF Refreshed
<1>2. \A u \in Tasks : Refreshed(s)[u] = IF s[u] \in Unfinished THEN "cancelled" ELSE s[u]
  BY <1>1 DEF Refreshed, FailFast, InStatus
<1>3. \A w \in Workers : Refreshed(s)[w] = "stopped"
  BY <1>1, <1>2 DEF AllWorkStopped, Workers, Unfinished, TerminalTask
<1>4. \A u \in Tasks : Refreshed(s)[u] \in TerminalTask
  BY <1>2 DEF Unfinished, TerminalTask
<1>5. Running(Refreshed(s)) = {}
  BY <1>4 DEF Running, InStatus, TerminalTask
<1>6. QED
  BY <1>3, <1>4, <1>5 DEF AllWorkStopped

(* A team gets a final status only when none of its tasks is left open: no  *)
(* running task is abandoned, and fail-fast has closed all that waits.     *)
LEMMA VerdictIsFinal ==
  ASSUME NEW s \in [Tasks -> TaskStatus], Verdict(Refreshed(s)) \in TerminalTeam
  PROVE  \A t \in Tasks : Refreshed(s)[t] \in TerminalTask
<1> DEFINE r == Refreshed(s)
<1>1. r \in [Tasks -> TaskStatus]
  BY RefreshedTasks
<1>2. CASE AllWorkStopped(s)
  BY <1>2 DEF Refreshed, InStatus, Unfinished, TerminalTask, TaskStatus
<1>3. CASE ~AllWorkStopped(s)
  <2>1. \A t \in Tasks : r[t] \in {"running", "stopped"} <=> s[t] \in {"running", "stopped"}
    BY RefreshedTasks
  <2>1a. \A t \in Tasks : r[t] = "stopped" <=> s[t] = "stopped"
    BY RefreshedTasks
  <2>2. ~AllWorkStopped(r)
    <3>1. Running(r) = Running(s)
      BY <2>1, <2>1a, RefreshedTasks DEF Running, InStatus
    <3>2. QED
      BY <1>3, <2>1a, <3>1 DEF AllWorkStopped, Workers
  <2>3. CASE AllVerified(r)
    BY <2>3 DEF AllVerified, Done, InStatus, TerminalTask
  <2>4. CASE ~AllVerified(r)
    <3>1. /\ Failures(r) # {} /\ Running(r) = {}
          /\ PendingSummarizers(r) = {}
          /\ Workers \cap InStatus(r, Unfinished) = {}
      BY <2>2, <2>4 DEF Verdict, TerminalTeam
    <3>2. \A t \in Tasks : r[t] \notin {"queued", "waiting_dependency"}
      <4>1. CASE FailFast(s)
        BY <1>3, <4>1 DEF Refreshed, Pending, InStatus, FailFast
      <4>2. CASE ~FailFast(s)
        <5>1. \A t \in Tasks : r[t] = s[t]
          BY <1>3, <4>2 DEF Refreshed
        <5>2. Failures(s) # {} /\ PendingSummarizers(s) = {}
          BY <3>1, <5>1 DEF Failures, PendingSummarizers, InStatus, Summarizers
        <5>3. QED
          BY <1>3, <4>2, <5>2 DEF FailFast
      <4>3. QED
        BY <4>1, <4>2
    <3>3. \A t \in Tasks : r[t] # "running"
      BY <3>1 DEF Running, InStatus
    <3>4. QED
      BY <1>1, <3>2, <3>3 DEF TaskStatus, TerminalTask
  <2>5. QED
    BY <2>3, <2>4
<1>4. QED
  BY <1>2, <1>3

(* A team that completes has the result of a worker and of a verifier or    *)
(* summarizer.                                                             *)
LEMMA CompletionDelivers ==
  ASSUME NEW s \in [Tasks -> TaskStatus], Verdict(s) = "completed"
  PROVE  /\ \E v \in Verification : s[v] = "completed"
         /\ \E w \in Workers : s[w] = "completed"
<1>1. CASE AllVerified(s)
  <2>1. \E v \in Verification : s[v] = "completed"
    BY <1>1, GraphAssumption DEF AllVerified
  <2>2. Running(s) = {} /\ \A w \in Workers : s[w] \in {"completed", "stopped"}
    BY <1>1 DEF AllVerified, Done, InStatus, Running, Workers
  <2>3. ~AllWorkStopped(s)
    BY DEF Verdict
  <2>4. QED
    BY <2>1, <2>2, <2>3 DEF AllWorkStopped
<1>2. CASE ~AllVerified(s)
  <2>1. FailureVerdict(s) = "completed"
    BY <1>2 DEF Verdict
  <2>2. QED
    BY <2>1 DEF FailureVerdict, PartialSuccess
<1>3. QED
  BY <1>1, <1>2

(* cancel_team_tasks stops only tasks that have not ended.                  *)
LEMMA StopTargetsUnfinished ==
  ASSUME NEW s, NEW W
  PROVE  StopTargets(s, W) \subseteq {t \in Tasks : s[t] \in Unfinished}
  BY DEF StopTargets, Closure

(* _select_retry_tasks starts only tasks again that failed, are blocked or  *)
(* completed: nothing that runs, and nothing that was stopped.             *)
LEMMA RetryRowsEnded ==
  ASSUME NEW s, NEW y, NEW W
  PROVE  RetryRows(s, y, W) \subseteq
           {t \in Tasks : s[t] \in {"failed", "blocked", "expired", "completed"}}
<1> DEFINE Ended == {t \in Tasks : s[t] \in {"failed", "blocked", "expired", "completed"}}
           Grow(S) == {t \in Tasks :
                         \/ s[t] \in {"blocked", "completed"} /\ Deps[t] \cap S # {}
                         \/ s[t] = "blocked" /\ y[t] \cap S # {}}
<1>1. RetryRoots(s, W) \cup Grow(Ended) \subseteq Ended
  BY DEF RetryRoots, Failures, InStatus
<1>2. Closure(RetryRoots(s, W), Grow) \subseteq Ended
  BY <1>1 DEF Closure
<1>3. QED
  BY <1>2 DEF RetryRows

(* _promote_dependencies queues a task other than a summarizer only on      *)
(* results: its dependencies completed, but for those the user stopped.    *)
LEMMA PromotedReady ==
  ASSUME NEW s \in [Tasks -> TaskStatus], NEW t \in Tasks \ Summarizers,
         s[t] = "waiting_dependency", Promoted(s)[t] = "queued"
  PROVE  \A u \in Deps[t] : s[u] \in {"completed", "stopped"}
<1>1. t \in Ready(s, Doomed(s))
  BY DEF Promoted
<1>2. \A u \in CountedDeps(s, t) : s[u] = "completed"
  BY <1>1 DEF Ready, Summarizers
<1>3. QED
  BY <1>2 DEF CountedDeps

-----------------------------------------------------------------------------
(* The three fixpoints: each contains what it starts from, is closed under *)
(* its rule, and lies in every other such set.                             *)

DoomSeed(s)    == {t \in WaitingWork(s) :
                     \E d \in CountedDeps(s, t) : s[d] \in TerminalTask \ {"completed"}}
DoomGrow(s, S) == {t \in WaitingWork(s) : CountedDeps(s, t) \cap S # {}}

(* A waiting task is doomed by a dependency that ended without success or   *)
(* is doomed itself, and every set closed under this holds all of them.    *)
LEMMA DoomedLeast ==
  ASSUME NEW s
  PROVE  /\ DoomSeed(s) \cup DoomGrow(s, Doomed(s)) \subseteq Doomed(s)
         /\ Doomed(s) \subseteq WaitingWork(s)
         /\ \A S \in SUBSET Tasks :
              DoomSeed(s) \cup DoomGrow(s, S) \subseteq S => Doomed(s) \subseteq S
<1> DEFINE Grow(S) == DoomGrow(s, S)
           C == {t \in Tasks : \A S \in SUBSET Tasks : DoomSeed(s) \cup Grow(S) \subseteq S => t \in S}
<1>1. Doomed(s) = WaitingWork(s) \cap C
  BY DEF Doomed, Closure, DoomSeed, DoomGrow
<1>2. DoomSeed(s) \subseteq Tasks /\ DoomSeed(s) \subseteq WaitingWork(s)
  BY DEF DoomSeed, WaitingWork
<1>3. \A S : Grow(S) \subseteq Tasks /\ Grow(S) \subseteq WaitingWork(s)
  BY DEF DoomGrow, WaitingWork
<1>4. \A S, R : S \subseteq R => Grow(S) \subseteq Grow(R)
  BY DEF DoomGrow
<1> HIDE DEF Grow
<1>5. DoomSeed(s) \subseteq Doomed(s)
  BY <1>1, <1>2
<1>6. Grow(Doomed(s)) \subseteq C
  BY <1>1, <1>3, <1>4
<1>7. Grow(Doomed(s)) \subseteq Doomed(s)
  BY <1>1, <1>3, <1>6
<1>8. \A S \in SUBSET Tasks : DoomSeed(s) \cup Grow(S) \subseteq S => Doomed(s) \subseteq S
  BY <1>1
<1>9. QED
  BY <1>1, <1>5, <1>7, <1>8 DEF Grow

(* A task other than a summarizer whose counted dependencies all completed  *)
(* is not doomed: its dependencies do not wait.                            *)
LEMMA DeliveredNotDoomed ==
  ASSUME NEW s, NEW t \in Tasks, \A d \in CountedDeps(s, t) : s[d] = "completed"
  PROVE  t \notin Doomed(s)
<1> DEFINE S == WaitingWork(s) \ {t}
<1>1. S \in SUBSET Tasks
  BY DEF WaitingWork
<1>2. t \notin DoomSeed(s)
  BY DEF DoomSeed
<1>3. \A d \in S : s[d] = "waiting_dependency"
  BY DEF WaitingWork
<1>4. t \notin DoomGrow(s, S)
  BY <1>3 DEF DoomGrow
<1>5. DoomSeed(s) \cup DoomGrow(s, S) \subseteq S
  BY <1>2, <1>4 DEF DoomSeed, DoomGrow
<1>6. Doomed(s) \subseteq S
  BY <1>1, <1>5, DoomedLeast
<1>7. QED
  BY <1>6

CascadeGrow(s, S) == {t \in Tasks \ Summarizers :
                        /\ s[t] \in Unfinished
                        /\ Deps[t] # {}
                        /\ \A d \in Deps[t] : d \in S \/ s[d] = "stopped"}

\* All that goes with the tasks W, those of them that have ended included.
Cascade(s, W) ==
  {t \in Tasks : \A S \in SUBSET Tasks : W \cup CascadeGrow(s, S) \subseteq S => t \in S}

(* What the user stops takes with it the tasks that have nothing left to    *)
(* wait for, and no others.                                                *)
LEMMA StopTargetsLeast ==
  ASSUME NEW s, NEW W \in SUBSET Tasks
  PROVE  /\ StopTargets(s, W) = {t \in Cascade(s, W) : s[t] \in Unfinished}
         /\ W \subseteq Cascade(s, W) /\ Cascade(s, W) \subseteq Tasks
         /\ \A S \in SUBSET Cascade(s, W) : CascadeGrow(s, S) \subseteq Cascade(s, W)
         /\ \A S \in SUBSET Tasks : W \cup CascadeGrow(s, S) \subseteq S => Cascade(s, W) \subseteq S
<1>1. StopTargets(s, W) = {t \in Cascade(s, W) : s[t] \in Unfinished}
  BY DEF StopTargets, Closure, Cascade, CascadeGrow
<1>2. \A S, R : S \subseteq R => CascadeGrow(s, S) \subseteq CascadeGrow(s, R)
  BY DEF CascadeGrow
<1>3. \A S : CascadeGrow(s, S) \subseteq Tasks
  BY DEF CascadeGrow
<1>4. \A S \in SUBSET Cascade(s, W) : CascadeGrow(s, S) \subseteq Cascade(s, W)
  <2>1. ASSUME NEW S \in SUBSET Cascade(s, W), NEW R \in SUBSET Tasks,
               W \cup CascadeGrow(s, R) \subseteq R
        PROVE  CascadeGrow(s, S) \subseteq R
    <3>1. S \subseteq R
      BY <2>1 DEF Cascade
    <3>2. QED
      BY <1>2, <2>1, <3>1
  <2>2. QED
    BY <1>3, <2>1 DEF Cascade
<1>5. W \subseteq Cascade(s, W) /\ Cascade(s, W) \subseteq Tasks
  BY DEF Cascade
<1>6. \A S \in SUBSET Tasks : W \cup CascadeGrow(s, S) \subseteq S => Cascade(s, W) \subseteq S
  BY DEF Cascade
<1>7. QED
  BY <1>1, <1>4, <1>5, <1>6

RetryGrow(s, y, S) == {t \in Tasks :
                         \/ s[t] \in {"blocked", "completed"} /\ Deps[t] \cap S # {}
                         \/ s[t] = "blocked" /\ y[t] \cap S # {}}

(* A retry starts the failed tasks again, what used their results and what  *)
(* was closed because of them, and no others.                              *)
LEMMA RetryRowsLeast ==
  ASSUME NEW s, NEW y, NEW W
  PROVE  /\ RetryRoots(s, W) \subseteq RetryRows(s, y, W) /\ RetryRows(s, y, W) \subseteq Tasks
         /\ \A S \in SUBSET RetryRows(s, y, W) : RetryGrow(s, y, S) \subseteq RetryRows(s, y, W)
         /\ \A S \in SUBSET Tasks :
              RetryRoots(s, W) \cup RetryGrow(s, y, S) \subseteq S => RetryRows(s, y, W) \subseteq S
<1> DEFINE Grow(S) == RetryGrow(s, y, S)
           Base    == RetryRoots(s, W)
           C       == {t \in Tasks : \A S \in SUBSET Tasks : Base \cup Grow(S) \subseteq S => t \in S}
<1>1. RetryRows(s, y, W) = C
  BY DEF RetryRows, Closure, RetryGrow
<1>2. \A S, R : S \subseteq R => Grow(S) \subseteq Grow(R)
  BY DEF RetryGrow
<1>3. \A S : Grow(S) \subseteq Tasks
  BY DEF RetryGrow
<1>4. Base \subseteq Tasks
  BY DEF RetryRoots, Failures, InStatus
<1> HIDE DEF Grow, Base
<1>5. \A S \in SUBSET C : Grow(S) \subseteq C
  <2>1. ASSUME NEW S \in SUBSET C, NEW R \in SUBSET Tasks, Base \cup Grow(R) \subseteq R
        PROVE  Grow(S) \subseteq R
    <3>1. S \subseteq R
      BY <2>1
    <3>2. QED
      BY <1>2, <2>1, <3>1
  <2>2. QED
    BY <1>3, <2>1
<1>6. Base \subseteq C /\ C \subseteq Tasks
  BY <1>4
<1>7. \A S \in SUBSET Tasks : Base \cup Grow(S) \subseteq S => C \subseteq S
  OBVIOUS
<1>8. QED
  BY <1>1, <1>5, <1>6, <1>7 DEF Grow, Base

-----------------------------------------------------------------------------
(* No team is stuck.                                                       *)

(* The graph has no cycle: of any tasks, one waits for none of the others.  *)
LEMMA FirstTask ==
  ASSUME NEW S \in SUBSET Tasks, S # {}
  PROVE  \E t \in S : Deps[t] \cap S = {}
<1>1. PICK rank \in [Tasks -> 1..Cardinality(Tasks)] :
        \A t \in Tasks : \A d \in Deps[t] : rank[d] < rank[t]
  BY GraphAssumption DEF Acyclic
<1> DEFINE R == {rank[t] : t \in S}
<1>2. R \subseteq Nat /\ R # {}
  BY <1>1
<1>3. IsWellFoundedOn(OpToRel(<, Nat), Nat)
  BY NatLessThanWellFounded
<1> HIDE DEF R
<1>4. PICK m \in R : \A k \in R : <<k, m>> \notin OpToRel(<, Nat)
  BY <1>2, <1>3, WFMin
<1>5. \A k \in R : ~ (k < m)
  BY <1>2, <1>4 DEF OpToRel
<1>6. PICK t \in S : rank[t] = m
  BY DEF R
<1>7. \A d \in S : ~ (rank[d] < rank[t])
  BY <1>5, <1>6 DEF R
<1> QED
  BY <1>1, <1>7

(* A task that waits for nothing any more does not wait after a promotion:  *)
(* a dependency that ended, or was blocked in the same pass, blocks it or   *)
(* leaves the others to decide.                                            *)
LEMMA NothingToWaitFor ==
  ASSUME NEW s \in [Tasks -> TaskStatus], NEW t \in Tasks,
         \A d \in Deps[t] : s[d] \in TerminalTask \/ d \in Doomed(s)
  PROVE  Promoted(s)[t] # "waiting_dependency"
<1> SUFFICES ASSUME s[t] = "waiting_dependency", t \notin Doomed(s) PROVE t \in Ready(s, Doomed(s))
  <2>1. Promoted(s)[t] = "waiting_dependency" => s[t] = "waiting_dependency" /\ t \notin Doomed(s)
    BY DEF Promoted
  <2>2. t \in Ready(s, Doomed(s)) => Promoted(s)[t] # "waiting_dependency"
    BY DEF Promoted
  <2> QED
    BY <2>1, <2>2
<1>1. CountedDeps(s, t) \subseteq Deps[t]
  BY DEF CountedDeps
<1>2. CASE t \in Summarizers
  BY <1>1, <1>2 DEF Ready, Summarizers
<1>3. CASE t \notin Summarizers
  <2>1. t \notin DoomSeed(s) \cup DoomGrow(s, Doomed(s)) /\ t \in WaitingWork(s)
    BY <1>3, DoomedLeast DEF WaitingWork
  <2>2. ASSUME NEW d \in CountedDeps(s, t) PROVE s[d] = "completed"
    <3>1. s[d] \in TerminalTask
      BY <1>1, <2>1, <2>2 DEF DoomGrow
    <3> QED
      BY <2>1, <2>2, <3>1 DEF DoomSeed
  <2> QED
    BY <2>2 DEF Ready
<1> QED
  BY <1>2, <1>3

(* When _promote_dependencies and _refresh_team_status have gone over the   *)
(* rows and left nothing to run, nothing waits either: the first task that *)
(* still waited would have had nothing to wait for.                        *)
LEMMA NothingWaitsForEver ==
  ASSUME NEW s \in [Tasks -> TaskStatus],
         \A t \in Tasks : Refreshed(Promoted(s))[t] \notin {"queued", "running"}
  PROVE  \A t \in Tasks : Refreshed(Promoted(s))[t] \in TerminalTask
<1> DEFINE p == Promoted(s)
           r == Refreshed(p)
           S == {t \in Tasks : r[t] = "waiting_dependency"}
<1>1. p \in [Tasks -> TaskStatus] /\ r \in [Tasks -> TaskStatus]
  BY PromotedTasks, RefreshedTasks
<1>2. \A t \in Tasks : r[t] \in TerminalTask \/ t \in S
  BY <1>1 DEF TaskStatus, TerminalTask
<1> SUFFICES ASSUME S # {} PROVE FALSE
  BY <1>2
<1>3. PICK t \in S : Deps[t] \cap S = {}
  BY FirstTask
<1>4. t \in Tasks /\ Deps[t] \subseteq Tasks
  BY <1>3, GraphAssumption
<1>5. p[t] = "waiting_dependency"
  BY <1>1, <1>3, RefreshedTasks
<1>6. ~ AllWorkStopped(p) /\ ~ FailFast(p)
  <2>1. t \in InStatus(p, Unfinished) /\ t \in Pending(p)
    BY <1>4, <1>5 DEF InStatus, Pending, Unfinished, TaskStatus, TerminalTask
  <2> QED
    BY <1>3, <2>1 DEF Refreshed
<1>7. \A u \in Tasks : r[u] = p[u]
  BY <1>6 DEF Refreshed
<1>8. ASSUME NEW d \in Deps[t] PROVE s[d] \in TerminalTask \/ d \in Doomed(s)
  <2>1. p[d] \in TerminalTask
    BY <1>2, <1>3, <1>4, <1>7
  <2>2. p[d] = s[d] \/ p[d] \in {"blocked", "queued"}
    BY <1>4, PromotedTasks
  <2>3. p[d] = "blocked" => d \in Doomed(s) \/ s[d] = "blocked"
    BY <1>4 DEF Promoted
  <2> QED
    BY <2>1, <2>2, <2>3 DEF TerminalTask
<1> QED
  BY <1>4, <1>5, <1>8, NothingToWaitFor

(* A team whose tasks have all ended gets a final status, unless one was    *)
(* closed alone or a verifier or summarizer was stopped.                   *)
LEMMA EndedIsFinal ==
  ASSUME NEW r \in [Tasks -> TaskStatus],
         \A t \in Tasks : r[t] \in TerminalTask,
         (\E t \in Tasks : r[t] = "cancelled") => AllWorkStopped(r),
         \A v \in Verification : r[v] # "stopped"
  PROVE  Verdict(r) \in TerminalTeam
<1>1. Running(r) = {} /\ InStatus(r, Unfinished) = {}
  BY DEF Running, InStatus, Unfinished, TerminalTask
<1>2. CASE AllWorkStopped(r) \/ AllVerified(r)
  BY <1>2 DEF Verdict, TerminalTeam
<1>3. CASE ~AllWorkStopped(r) /\ ~AllVerified(r) /\ Failures(r) # {}
  <2>1. Verdict(r) = FailureVerdict(r)
    BY <1>1, <1>3 DEF Verdict, PendingSummarizers
  <2> QED
    BY <2>1 DEF FailureVerdict, TerminalTeam
<1>4. CASE ~AllWorkStopped(r) /\ Failures(r) = {}
  <2>1. \A t \in Tasks : r[t] \in {"completed", "stopped"}
    BY <1>4 DEF TerminalTask, Failures, InStatus
  <2>2. Done(r) = Tasks
    BY <2>1 DEF Done, InStatus
  <2>3. \A v \in Verification : r[v] = "completed"
    BY <2>1 DEF Verification
  <2> QED
    BY <1>2, <2>2, <2>3 DEF AllVerified
<1> QED
  BY <1>2, <1>3, <1>4
=============================================================================
