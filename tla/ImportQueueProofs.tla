-------------------------- MODULE ImportQueueProofs --------------------------
(***************************************************************************)
(* Proofs about the import queue, for any number of tasks, attempts,       *)
(* crashes and changes of projects by their owner.  Types and refinement:  *)
(* for any number of dispatcher processes.  What is opened and what a      *)
(* success keeps: for one process, or any number if nobody renames a       *)
(* project.  Contents stored once, failures cleaned up: for one process.   *)
(***************************************************************************)
EXTENDS ImportQueueProps, FiniteSetTheorems, TLAPS

USE ImportAssumption

\* An import that may still be claimed has an attempt left.
AttemptsLeft ==
  \A t \in Tasks : status[t] \in {"new", "queued"} => attempt[t] < MaxAttempts

TInv == TypeOK /\ AttemptsLeft

(* A worker is a real project id.                                           *)
LEMMA WorkerIsProject == NoProject \notin Worker
  BY DEF NoProject, Worker

(* _cleanup_partial_import_project keeps the types.                         *)
LEMMA CleanedTypes ==
  ASSUME TypeOK, NEW t \in Tasks, NEW p \in Link, NEW state, Cleaned(t, p, state)
  PROVE  /\ link' \in [Tasks -> Link]
         /\ project' \in [Worker -> ProjectStatus] /\ files' \in [Worker -> 0..2]
         /\ UNCHANGED <<renamed, edits>>
  BY DEF Cleaned, TypeOK, Link, ProjectStatus, ownerVars

LEMMA CleanedNowTypes ==
  ASSUME TypeOK, NEW t \in Tasks, CleanedNow(t)
  PROVE  /\ link' \in [Tasks -> Link]
         /\ project' \in [Worker -> ProjectStatus] /\ files' \in [Worker -> 0..2]
         /\ UNCHANGED <<renamed, edits>>
<1>1. link[t] \in Link
  BY DEF TypeOK
<1>2. QED
  BY <1>1, CleanedTypes DEF CleanedNow

(* So does a worker that leaves.                                            *)
LEMMA LeavesTypes ==
  ASSUME TypeOK, NEW w \in Worker, Leaves(w)
  PROVE  /\ step' \in [Worker -> Step] /\ mine' \in [Worker -> Link]
         /\ batch' \in [Dispatchers -> SUBSET Worker]
  BY DEF Leaves, TypeOK, Step, Link

(* And fail_import_task.                                                    *)
LEMMA FailsTypes ==
  ASSUME TInv, NEW w \in Worker, NEW retryable \in BOOLEAN, Fails(w, retryable)
  PROVE  TInv'
<1> DEFINE t == w[1]
<1>0. t \in Tasks /\ TypeOK
  BY DEF Worker, TInv
<1>1. /\ step' \in [Worker -> Step] /\ mine' \in [Worker -> Link]
      /\ batch' \in [Dispatchers -> SUBSET Worker]
  BY <1>0, LeavesTypes DEF Fails
<1>2. UNCHANGED <<stage, seen, crashes, attempt>>
  BY DEF Fails
<1>3. CASE Holds(w)
  <2> DEFINE again == retryable /\ ~Exhausted(t)
  <2>1. /\ status' = [status EXCEPT ![t] = IF again THEN "queued" ELSE "failed"]
        /\ backoff' = IF again THEN backoff \cup {t} ELSE backoff
        /\ EndsLease(t) /\ CleanedNow(t)
    BY <1>3 DEF Fails
  <2>2. /\ link' \in [Tasks -> Link]
        /\ project' \in [Worker -> ProjectStatus] /\ files' \in [Worker -> 0..2]
        /\ UNCHANGED <<renamed, edits>>
    BY <1>0, <2>1, CleanedNowTypes
  <2>3. again => attempt[t] < MaxAttempts
    BY <1>0 DEF Exhausted, TypeOK
  <2>4. AttemptsLeft'
    BY <1>0, <1>2, <2>1, <2>3 DEF AttemptsLeft, TInv, TypeOK
  <2>5. status' \in [Tasks -> Status] /\ token' \in [Tasks -> 0..MaxAttempts]
        /\ lapsed' \subseteq Tasks /\ backoff' \subseteq Tasks
    BY <1>0, <2>1 DEF TypeOK, Status, Ended, EndsLease
  <2>6. QED
    BY <1>0, <1>1, <1>2, <2>2, <2>4, <2>5 DEF TInv, TypeOK
<1>4. CASE ~Holds(w)
  BY <1>0, <1>1, <1>2, <1>4 DEF Fails, projectVars, ownerVars, TInv, TypeOK, AttemptsLeft
<1>5. QED
  BY <1>3, <1>4

(* Every step keeps the types, and an attempt for what may be claimed.      *)
LEMMA TypeStep == TInv /\ [Next]_vars => TInv'
<1> SUFFICES ASSUME TInv, [Next]_vars PROVE TInv'
  OBVIOUS
<1> USE DEF TInv
<1>1. ASSUME NEW t \in Tasks, Create(t) PROVE TInv'
  BY <1>1 DEF Create, projectVars, ownerVars, procVars, workVars, TypeOK, AttemptsLeft, Status
<1>2. ASSUME NEW t \in Tasks, Cancel(t) PROVE TInv'
  <2>1. /\ link' \in [Tasks -> Link]
        /\ project' \in [Worker -> ProjectStatus] /\ files' \in [Worker -> 0..2]
        /\ UNCHANGED <<renamed, edits>>
    BY <1>2, CleanedNowTypes DEF Cancel
  <2>2. status' \in [Tasks -> Status] /\ token' \in [Tasks -> 0..MaxAttempts]
        /\ lapsed' \subseteq Tasks /\ backoff' \subseteq Tasks
    BY <1>2 DEF Cancel, EndsLease, TypeOK, Status, Ended
  <2>3. QED
    BY <1>2, <2>1, <2>2 DEF Cancel, procVars, workVars, TypeOK, AttemptsLeft
<1>3. ASSUME NEW t \in Tasks, LeaseLapses(t) \/ DelayEnds(t) PROVE TInv'
  BY <1>3 DEF LeaseLapses, DelayEnds, projectVars, ownerVars, procVars, workVars, TypeOK, AttemptsLeft
<1>4. ASSUME NEW w \in Worker, \E retryable \in BOOLEAN : Break(w, retryable) PROVE TInv'
  BY <1>4, FailsTypes DEF Break
<1>5. ASSUME NEW w \in Worker, Begin(w) PROVE TInv'
  <2> w[1] \in Tasks
    BY DEF Worker
  <2> DEFINE p == link[w[1]]
  <2>1. CASE p = NoProject
    BY <1>5, <2>1 DEF Begin, rowVars, projectVars, ownerVars, procVars, TypeOK, AttemptsLeft, Step
  <2>2. CASE p # NoProject /\ project[p] \in {"none", "deleted"}
    BY <1>5, <2>2, FailsTypes DEF Begin
  <2>3. CASE p # NoProject /\ project[p] \notin {"none", "deleted"}
    BY <1>5, <2>3 DEF Begin, rowVars, projectVars, ownerVars, procVars, TypeOK, AttemptsLeft, Step
  <2>4. QED
    BY <2>1, <2>2, <2>3
<1>6. ASSUME NEW w \in Worker, Download(w) \/ Scan(w) \/ Made(w) PROVE TInv'
  <2> w[1] \in Tasks
    BY DEF Worker
  <2>1. QED
    BY <1>6 DEF Download, Scan, Made, GoesTo, rowVars, projectVars, ownerVars, procVars, TypeOK, AttemptsLeft,
                Step, Status, Leased
<1>7. ASSUME NEW w \in Worker, Make(w) PROVE TInv'
  <2> w[1] \in Tasks
    BY DEF Worker
  <2>1. CASE NameTaken \/ NameBurnt
    BY <1>7, <2>1, FailsTypes DEF Make
  <2>2. CASE ~(NameTaken \/ NameBurnt)
    <3>1. /\ project' = [project EXCEPT ![w] = "importing"]
          /\ link' = [link EXCEPT ![w[1]] = w]
          /\ mine' = [mine EXCEPT ![w] = w]
          /\ step' = [step EXCEPT ![w] = "made"]
          /\ UNCHANGED <<status, attempt, token, lapsed, backoff, files, ownerVars, procVars>>
      BY <1>7, <2>2 DEF Make
    <3>2. link' \in [Tasks -> Link] /\ mine' \in [Worker -> Link]
      BY <3>1 DEF TypeOK, Link
    <3>3. project' \in [Worker -> ProjectStatus] /\ step' \in [Worker -> Step]
      BY <3>1 DEF TypeOK, Step, ProjectStatus, Visible
    <3>4. QED
      BY <3>1, <3>2, <3>3 DEF ownerVars, procVars, TypeOK, AttemptsLeft
  <2>3. QED
    BY <2>1, <2>2
<1>8. ASSUME NEW w \in Worker, Ingest(w) PROVE TInv'
  <2> DEFINE p == mine[w]
             stop == w[1] \in Audit /\ (project[p] \in {"none", "deleted"} \/ files[p] > 0)
  <2>1. CASE stop
    BY <1>8, <2>1, FailsTypes DEF Ingest
  <2>2. CASE ~stop
    <3>1. files' = [files EXCEPT ![p] = IF @ < 2 THEN @ + 1 ELSE @]
      BY <1>8, <2>2 DEF Ingest
    <3>2. /\ step' = [step EXCEPT ![w] = "finish"]
          /\ UNCHANGED <<mine, batch, stage, seen, crashes, project, renamed, edits>>
          /\ UNCHANGED <<status, attempt, token, lapsed, backoff, link>>
      BY <1>8, <2>2 DEF Ingest, GoesTo, procVars, rowVars, ownerVars
    <3>3. files' \in [Worker -> 0..2]
      <4>1. files \in [Worker -> 0..2]
        BY DEF TypeOK
      <4>2. \A n \in 0..2 : (IF n < 2 THEN n + 1 ELSE n) \in 0..2
        OBVIOUS
      <4>3. QED
        BY <3>1, <4>1, <4>2
    <3>4. QED
      BY <3>2, <3>3 DEF TypeOK, AttemptsLeft, Step
  <2>3. QED
    BY <2>1, <2>2
<1>9. ASSUME NEW w \in Worker, Finish(w) PROVE TInv'
  <2> w[1] \in Tasks
    BY DEF Worker
  <2>1. /\ step' \in [Worker -> Step] /\ mine' \in [Worker -> Link]
        /\ batch' \in [Dispatchers -> SUBSET Worker]
    BY <1>9, LeavesTypes DEF Finish
  <2>2. project' \in [Worker -> ProjectStatus]
    BY <1>9 DEF Finish, TypeOK, ProjectStatus, Visible
  <2>3. /\ status' \in [Tasks -> Status] /\ token' \in [Tasks -> 0..MaxAttempts]
        /\ lapsed' \subseteq Tasks
    BY <1>9 DEF Finish, EndsLease, TypeOK, Status, Ended
  <2>4. AttemptsLeft'
    BY <1>9 DEF Finish, AttemptsLeft, TypeOK
  <2>5. QED
    BY <1>9, <2>1, <2>2, <2>3, <2>4 DEF Finish, ownerVars, TypeOK
<1>10. ASSUME NEW w \in Worker, Heartbeat(w) PROVE TInv'
  BY <1>10 DEF Heartbeat, projectVars, ownerVars, procVars, workVars, TypeOK, AttemptsLeft
<1>11. ASSUME NEW d \in Dispatchers, Sweep(d) PROVE TInv'
  <2> DEFINE row(t) == [task |-> t, token |-> token[t], link |-> link[t],
                        state |-> Sees(link[t])]
  <2>1. \A t \in Due : row(t) \in SeenRow
    BY DEF Due, Sees, TypeOK, SeenRow, Link, ProjectStatus
  <2>2. seen' = [seen EXCEPT ![d] = {row(t) : t \in Due}]
    BY <1>11 DEF Sweep
  <2>3. seen' \in [Dispatchers -> SUBSET SeenRow]
    BY <2>1, <2>2 DEF TypeOK
  <2>4. QED
    BY <1>11, <2>3 DEF Sweep, rowVars, projectVars, ownerVars, workVars, TypeOK, AttemptsLeft
<1>12. ASSUME NEW d \in Dispatchers, Recover(d) PROVE TInv'
  <2>1. PICK r \in seen[d] :
          /\ seen' = [seen EXCEPT ![d] = @ \ {r}]
          /\ IF Recoverable(r)
               THEN /\ status' = [status EXCEPT ![r.task] =
                                    IF Exhausted(r.task) THEN "failed" ELSE "queued"]
                    /\ EndsLease(r.task)
                    /\ Cleaned(r.task, r.link, r.state)
               ELSE UNCHANGED <<status, token, lapsed, link, projectVars>>
    BY <1>12 DEF Recover
  <2>2. r.task \in Tasks /\ r.link \in Link /\ seen' \in [Dispatchers -> SUBSET SeenRow]
    BY <2>1 DEF TypeOK, SeenRow
  <2>3. UNCHANGED <<attempt, backoff, batch, stage, crashes, step, mine>>
    BY <1>12 DEF Recover, workVars
  <2>4. CASE Recoverable(r)
    <3>1. /\ link' \in [Tasks -> Link]
          /\ project' \in [Worker -> ProjectStatus] /\ files' \in [Worker -> 0..2]
          /\ UNCHANGED <<renamed, edits>>
      BY <2>1, <2>2, <2>4, CleanedTypes
    <3>2. /\ status' \in [Tasks -> Status] /\ token' \in [Tasks -> 0..MaxAttempts]
          /\ lapsed' \subseteq Tasks
      BY <2>1, <2>2, <2>4 DEF EndsLease, TypeOK, Status, Ended
    <3>3. AttemptsLeft'
      BY <2>1, <2>2, <2>3, <2>4 DEF AttemptsLeft, Exhausted, TypeOK
    <3>4. QED
      BY <2>2, <2>3, <3>1, <3>2, <3>3 DEF TypeOK
  <2>5. CASE ~Recoverable(r)
    BY <2>1, <2>2, <2>3, <2>5 DEF TypeOK, AttemptsLeft, projectVars, ownerVars
  <2>6. QED
    BY <2>4, <2>5
<1>13. ASSUME NEW d \in Dispatchers, Recovered(d) \/ Claimed(d) \/ Joined(d) PROVE TInv'
  BY <1>13 DEF Recovered, Claimed, Joined, rowVars, projectVars, ownerVars, workVars, TypeOK, AttemptsLeft
<1>14. ASSUME NEW d \in Dispatchers, NEW t \in Tasks, Claim(d, t) PROVE TInv'
  <2> DEFINE w == <<t, attempt[t] + 1>>
  <2>1. attempt[t] + 1 \in 1..MaxAttempts /\ status[t] = "queued"
    BY <1>14 DEF Claim, Claimable, AttemptsLeft, TypeOK
  <2>2. w \in Worker
    BY <2>1 DEF Worker
  <2>3. /\ attempt' = [attempt EXCEPT ![t] = w[2]] /\ token' = [token EXCEPT ![t] = w[2]]
        /\ batch' = [batch EXCEPT ![d] = @ \cup {w}] /\ step' = [step EXCEPT ![w] = "begin"]
        /\ status' = [status EXCEPT ![t] = "downloading"]
        /\ UNCHANGED <<lapsed, backoff, link, project, files, renamed, edits, stage, seen, crashes, mine>>
    BY <1>14 DEF Claim, projectVars, ownerVars
  <2>4. w[2] \in 0..MaxAttempts
    BY <2>1
  <2>5. QED
    BY <2>2, <2>3, <2>4 DEF TypeOK, AttemptsLeft, Status, Leased, Step
<1>15. ASSUME NEW d \in Dispatchers, Crash(d) PROVE TInv'
  BY <1>15 DEF Crash, rowVars, projectVars, ownerVars, TypeOK, AttemptsLeft, Step, Link
<1>16. CASE UNCHANGED vars
  BY <1>16 DEF vars, rowVars, projectVars, ownerVars, procVars, workVars, TypeOK, AttemptsLeft
<1>17. ASSUME NEW p \in Worker, DeleteProject(p) \/ UpdateStatus(p) PROVE TInv'
  <2>1. project' \in [Worker -> ProjectStatus] /\ edits' \in [Worker -> SUBSET Edit]
    BY <1>17 DEF DeleteProject, UpdateStatus, Noted, TypeOK, ProjectStatus, Visible, Edit
  <2>2. QED
    BY <1>17, <2>1 DEF DeleteProject, UpdateStatus, rowVars, procVars, workVars, TypeOK, AttemptsLeft
<1>18. ASSUME NEW p \in Worker, Rename(p) \/ EditFiles(p) PROVE TInv'
  <2>1. /\ files' \in [Worker -> 0..2] /\ edits' \in [Worker -> SUBSET Edit]
        /\ renamed' \subseteq Worker
    BY <1>18 DEF Rename, EditFiles, Noted, TypeOK, Edit
  <2>2. QED
    BY <1>18, <2>1 DEF Rename, EditFiles, rowVars, procVars, workVars, TypeOK, AttemptsLeft
<1>19. QED
  BY <1>1, <1>2, <1>3, <1>4, <1>5, <1>6, <1>7, <1>8, <1>9, <1>10, <1>11, <1>12, <1>13, <1>14,
     <1>15, <1>16, <1>17, <1>18 DEF Next, WorkerStep, Dispatch

LEMMA TypeInit == Init => TInv
  BY DEF Init, TInv, TypeOK, AttemptsLeft, Status, Link, ProjectStatus, Step

LEMMA TypeInvariance == Spec => []TInv
<1>1. QED
  BY TypeInit, TypeStep, PTL DEF Spec

(* Rows, projects, workers and dispatchers keep their types; in particular  *)
(* no import ever has more attempts than project_import_max_attempts.       *)
THEOREM ImportTypes == Spec => []TypeOK
<1>1. TInv => TypeOK
  BY DEF TInv
<1>2. QED
  BY <1>1, TypeInvariance, PTL
-----------------------------------------------------------------------------
(* Names of projects, and the records of changes, are the owner's alone.    *)
LEMMA OthersRenameNothing ==
  ASSUME [Next]_vars
  PROVE  \/ UNCHANGED ownerVars
         \/ \E p \in Worker : DeleteProject(p) \/ UpdateStatus(p) \/ Rename(p) \/ EditFiles(p)
<1>1. ASSUME NEW w \in Worker, NEW retryable \in BOOLEAN, Fails(w, retryable)
      PROVE  UNCHANGED ownerVars
  BY <1>1 DEF Fails, CleanedNow, Cleaned, projectVars
<1>2. ASSUME NEW t \in Tasks, Create(t) \/ Cancel(t) \/ LeaseLapses(t) \/ DelayEnds(t)
      PROVE  UNCHANGED ownerVars
  BY <1>2 DEF Create, Cancel, LeaseLapses, DelayEnds, CleanedNow, Cleaned, projectVars
<1>3. ASSUME NEW w \in Worker, WorkerStep(w) \/ Heartbeat(w)
      PROVE  UNCHANGED ownerVars
  <2>1. CASE \E retryable \in BOOLEAN : Break(w, retryable)
    BY <1>1, <2>1 DEF Break
  <2>2. CASE Begin(w) \/ Make(w) \/ Ingest(w)
    BY <1>1, <2>2 DEF Begin, Make, Ingest, projectVars
  <2>3. CASE Download(w) \/ Scan(w) \/ Made(w) \/ Finish(w) \/ Heartbeat(w)
    BY <2>3 DEF Download, Scan, Made, Finish, Heartbeat, projectVars
  <2>4. QED
    BY <1>3, <2>1, <2>2, <2>3 DEF WorkerStep
<1>4. ASSUME NEW d \in Dispatchers, Dispatch(d) \/ Crash(d)
      PROVE  UNCHANGED ownerVars
  BY <1>4 DEF Dispatch, Sweep, Recover, Recovered, Claim, Claimed, Joined, Crash, Cleaned, projectVars
<1>5. CASE UNCHANGED vars
  BY <1>5 DEF vars, projectVars
<1>6. QED
  BY <1>2, <1>3, <1>4, <1>5 DEF Next

\* A row, and a row a recovery has read, name a project of their own task.
Ownership ==
  /\ \A t \in Tasks : link[t] = NoProject \/ link[t][1] = t
  /\ \A d \in Dispatchers : \A r \in seen[d] : r.link = NoProject \/ r.link[1] = r.task

\* A worker that was not claimed yet knows no project.
Fresh == \A w \in Worker : w[2] > attempt[w[1]] => mine[w] = NoProject /\ step[w] = "off"

\* A worker that stores contents knows the project; when it holds the lease,
\* the row has a project.
Placed == \A w \in Worker : step[w] \in {"made", "ingest", "finish"} => mine[w] # NoProject
HasProject(t) == link[t] # NoProject /\ project[link[t]] # "none"
Holding == \A w \in Worker : Holds(w) /\ mine[w] # NoProject => HasProject(w[1])

SInv ==
  /\ Ownership /\ Fresh /\ Placed /\ Holding
  /\ ActiveIsEarned /\ SucceededKeepsProject

(* A clean-up for task t touches the project of no other task, and no       *)
(* active one becomes another's.                                            *)
LEMMA CleanedOwn ==
  ASSUME TypeOK, NEW t \in Tasks, NEW p \in Link, p = NoProject \/ p[1] = t, NEW state,
         Cleaned(t, p, state)
  PROVE  /\ \A u \in Tasks \ {t} : link'[u] = link[u]
         /\ link'[t] \in {link[t], NoProject}
         /\ \A q \in Worker : q[1] # t => project'[q] = project[q]
         /\ \A q \in Worker : q \in Shown' => q \in Shown
         /\ edits' = edits
  BY DEF Cleaned, TypeOK, ownerVars, Link, Shown

(* The lease of t is taken away, or was never given, and its half-finished  *)
(* project is cleaned up: by cancellation, failure or recovery.             *)
LEMMA LetGo ==
  ASSUME TypeOK, SInv, TypeOK', NEW t \in Tasks, status[t] # "succeeded",
         NEW s \in {"queued", "failed", "cancelled"}, status' = [status EXCEPT ![t] = s],
         NEW p \in Link, p = NoProject \/ p[1] = t, NEW state, Cleaned(t, p, state),
         token' = [token EXCEPT ![t] = 0], attempt' = attempt,
         \A d \in Dispatchers : seen'[d] \subseteq seen[d],
         \A w \in Worker : \/ mine'[w] = mine[w] /\ step'[w] = step[w]
                           \/ mine'[w] = NoProject /\ step'[w] = "off"
  PROVE  SInv'
<1>1. /\ \A u \in Tasks \ {t} : link'[u] = link[u] /\ status'[u] = status[u] /\ token'[u] = token[u]
      /\ link'[t] \in {link[t], NoProject}
      /\ \A q \in Worker : q[1] # t => project'[q] = project[q]
      /\ \A q \in Worker : q \in Shown' => q \in Shown
      /\ edits' = edits
  BY CleanedOwn DEF TypeOK
<1>2. status'[t] = s /\ s \notin Leased /\ s # "succeeded"
  BY DEF TypeOK, Leased
<1>3. Ownership'
  BY <1>1 DEF SInv, Ownership
<1>4. Fresh' /\ Placed'
  BY DEF SInv, Fresh, Placed
<1>5. \A u \in Tasks : link[u] # NoProject => link[u] \in Worker /\ link[u][1] = u
  BY DEF TypeOK, Link, SInv, Ownership
<1>6. Holding'
  <2> SUFFICES ASSUME NEW w \in Worker, Holds(w)', mine'[w] # NoProject
               PROVE  HasProject(w[1])'
    BY DEF Holding
  <2>1. w[1] \in Tasks /\ w[1] # t
    BY <1>2 DEF Worker, Holds
  <2>2. Holds(w) /\ mine[w] # NoProject
    BY <1>1, <2>1 DEF Holds
  <2>3. HasProject(w[1])
    BY <2>2 DEF SInv, Holding
  <2>4. QED
    BY <1>1, <1>5, <2>1, <2>3 DEF HasProject
<1>7. ActiveIsEarned'
  <2> SUFFICES ASSUME NEW q \in Shown', "opened" \notin edits'[q]
               PROVE  \E u \in Tasks : status'[u] = "succeeded" /\ link'[u] = q
    BY DEF ActiveIsEarned
  <2>1. PICK u \in Tasks : status[u] = "succeeded" /\ link[u] = q
    BY <1>1 DEF SInv, ActiveIsEarned, Shown
  <2>2. u # t
    BY <2>1
  <2>3. QED
    BY <1>1, <2>1, <2>2
<1>8. SucceededKeepsProject'
  <2> SUFFICES ASSUME NEW u \in Tasks, status'[u] = "succeeded"
               PROVE  link'[u] # NoProject /\ project'[link'[u]] \in {"active", "archived", "deleted"}
    BY DEF SucceededKeepsProject
  <2>1. u # t
    BY <1>2
  <2>2. link[u] # NoProject /\ project[link[u]] \in {"active", "archived", "deleted"}
    BY <1>1, <2>1 DEF SInv, SucceededKeepsProject
  <2>3. QED
    BY <1>1, <1>5, <2>1, <2>2
<1>9. QED
  BY <1>3, <1>4, <1>6, <1>7, <1>8 DEF SInv

\* A step that leaves rows and projects alone and makes no worker bolder.
RowsCalm ==
  /\ UNCHANGED <<attempt, token, link, project, edits>>
  /\ \A t \in Tasks : \/ status'[t] = status[t]
                      \/ {status[t], status'[t]} \subseteq Leased
                      \/ status[t] = "new" /\ status'[t] = "queued"
SeenCalm == \A d \in Dispatchers : \A r \in seen'[d] : r.link = NoProject \/ r.link[1] = r.task
WorkersCalm ==
  \A w \in Worker :
    /\ mine'[w] \in {mine[w], NoProject}
    /\ step'[w] # step[w] => step'[w] = "off" \/ w[2] <= attempt[w[1]]
    /\ step'[w] \in {"made", "ingest", "finish"} => mine'[w] # NoProject

(* Nothing a worker knows or does changes.                                  *)
LEMMA Still ==
  ASSUME SInv, UNCHANGED <<mine, step>>
  PROVE  WorkersCalm
  BY DEF SInv, Placed, WorkersCalm

(* Nothing a recovery has read changes.                                     *)
LEMMA StillSeen ==
  ASSUME SInv, \A d \in Dispatchers : seen'[d] \subseteq seen[d]
  PROVE  SeenCalm
  BY DEF SInv, Ownership, SeenCalm

(* Such a step is safe.                                                     *)
LEMMA Bystander ==
  ASSUME TypeOK, SInv, RowsCalm, SeenCalm, WorkersCalm
  PROVE  SInv'
<1> USE DEF RowsCalm, SeenCalm, WorkersCalm
<1>1. \A w \in Worker : w[1] \in Tasks /\ w[2] \in Nat
  BY DEF Worker
<1>2. Ownership'
  BY DEF SInv, Ownership
<1>3. Placed'
  BY DEF Placed
<1>4. \A t \in Tasks : /\ status'[t] \in Leased <=> status[t] \in Leased
                       /\ status'[t] = "succeeded" <=> status[t] = "succeeded"
  BY DEF Leased
<1>5. Holding'
  BY <1>1, <1>4 DEF SInv, Holding, Holds, HasProject
<1>6. ActiveIsEarned' /\ SucceededKeepsProject'
  BY <1>4 DEF SInv, ActiveIsEarned, Shown, SucceededKeepsProject
<1>7. Fresh'
  <2> SUFFICES ASSUME NEW w \in Worker, w[2] > attempt'[w[1]]
               PROVE  mine'[w] = NoProject /\ step'[w] = "off"
    BY DEF Fresh
  <2>1. w[2] > attempt[w[1]]
    BY <1>1
  <2>2. mine[w] = NoProject /\ step[w] = "off"
    BY <2>1 DEF SInv, Fresh
  <2>3. ~(w[2] <= attempt[w[1]])
    BY <2>1, <1>1 DEF TypeOK
  <2>4. QED
    BY <2>2, <2>3
<1>8. QED
  BY <1>2, <1>3, <1>5, <1>6, <1>7 DEF SInv

LEMMA FailsSafely ==
  ASSUME TInv, SInv, TInv', NEW w \in Worker, NEW retryable \in BOOLEAN, Fails(w, retryable)
  PROVE  SInv'
<1> DEFINE t == w[1]
<1>0. t \in Tasks /\ TypeOK /\ TypeOK'
  BY DEF Worker, TInv
<1>1. /\ \A v \in Worker : \/ mine'[v] = mine[v] /\ step'[v] = step[v]
                           \/ mine'[v] = NoProject /\ step'[v] = "off"
      /\ seen' = seen /\ attempt' = attempt
  BY <1>0 DEF Fails, Leaves, TypeOK
<1>2. CASE Holds(w)
  <2> DEFINE s == IF retryable /\ ~Exhausted(t) THEN "queued" ELSE "failed"
             p == link[t]
             state == Sees(p)
  <2>1. /\ status' = [status EXCEPT ![t] = s] /\ token' = [token EXCEPT ![t] = 0]
        /\ Cleaned(t, p, state)
    BY <1>2 DEF Fails, EndsLease, CleanedNow
  <2>2. p \in Link /\ (p = NoProject \/ p[1] = t)
    BY <1>0 DEF TypeOK, SInv, Ownership
  <2>3. status[t] # "succeeded"
    BY <1>2 DEF Holds, Leased
  <2>4. s \in {"queued", "failed", "cancelled"}
    OBVIOUS
  <2>5. \A d \in Dispatchers : seen'[d] \subseteq seen[d]
    BY <1>1
  <2> HIDE DEF s, p, state
  <2>6. QED
    BY <1>0, <1>1, <2>1, <2>2, <2>3, <2>4, <2>5, LetGo
<1>3. CASE ~Holds(w)
  <2>1. UNCHANGED <<status, token, link, project, edits>>
    BY <1>3 DEF Fails, projectVars, ownerVars
  <2>2. QED
    <3>1. RowsCalm
      BY <1>1, <2>1 DEF RowsCalm
    <3>2. SeenCalm
      BY <1>1, StillSeen
    <3>3. WorkersCalm
      BY <1>1 DEF SInv, Placed, WorkersCalm
    <3>4. QED
      BY <1>0, <3>1, <3>2, <3>3, Bystander
<1>4. QED
  BY <1>2, <1>3

\* A worker that comes late finds the name taken.
MakesInTime ==
  \A w \in Worker : step[w] = "make" /\ ~NameTaken /\ ~NameBurnt => status[w[1]] # "succeeded"

(* Every step keeps the invariant, if no worker comes too late.             *)
LEMMA SafeStep == TInv /\ TInv' /\ SInv /\ MakesInTime /\ [Next]_vars => SInv'
<1> SUFFICES ASSUME TInv, TInv', SInv, MakesInTime, [Next]_vars PROVE SInv'
  OBVIOUS
<1>0. TypeOK /\ TypeOK'
  BY DEF TInv
<1>a. Ownership /\ Fresh /\ Placed /\ Holding /\ ActiveIsEarned /\ SucceededKeepsProject
  BY DEF SInv
<1>b. \A w \in Worker : w[1] \in Tasks /\ w[2] \in 1..MaxAttempts
  BY DEF Worker
<1>c. \A w \in Worker : step[w] # "off" => w[2] <= attempt[w[1]]
  BY <1>0, <1>a, <1>b DEF Fresh, TypeOK
<1>1. ASSUME NEW t \in Tasks, Create(t) PROVE SInv'
  <2>1. UNCHANGED <<mine, step, seen>>
    BY <1>1 DEF Create, procVars, workVars
  <2>2. RowsCalm
    BY <1>0, <1>1 DEF Create, projectVars, ownerVars, TypeOK, RowsCalm
  <2>3. QED
    BY <1>0, <2>1, <2>2, Still, StillSeen, Bystander
<1>2. ASSUME NEW t \in Tasks, Cancel(t) PROVE SInv'
  <2> DEFINE p == link[t]
             state == Sees(p)
  <2>1. /\ status' = [status EXCEPT ![t] = "cancelled"] /\ token' = [token EXCEPT ![t] = 0]
        /\ Cleaned(t, p, state) /\ UNCHANGED <<attempt, seen, mine, step>>
    BY <1>2 DEF Cancel, EndsLease, CleanedNow, procVars, workVars
  <2>2. p \in Link /\ (p = NoProject \/ p[1] = t)
    BY <1>0, <1>a DEF TypeOK, Ownership
  <2>3. status[t] # "succeeded"
    BY <1>2 DEF Cancel, Cancellable, Leased
  <2> HIDE DEF p, state
  <2>4. QED
    BY <1>0, <2>1, <2>2, <2>3, LetGo
<1>3. ASSUME NEW t \in Tasks, LeaseLapses(t) \/ DelayEnds(t) PROVE SInv'
  <2>1. UNCHANGED <<mine, step, seen>>
    BY <1>3 DEF LeaseLapses, DelayEnds, procVars, workVars
  <2>2. RowsCalm
    BY <1>3 DEF LeaseLapses, DelayEnds, projectVars, ownerVars, RowsCalm
  <2>3. QED
    BY <1>0, <2>1, <2>2, Still, StillSeen, Bystander
<1>4. ASSUME NEW w \in Worker, \E retryable \in BOOLEAN : Break(w, retryable) PROVE SInv'
  BY <1>4, FailsSafely DEF Break
<1>5. ASSUME NEW w \in Worker, Begin(w) PROVE SInv'
  <2> DEFINE t == w[1]
             p == link[t]
  <2>1. CASE p = NoProject
    <3>1. step' = [step EXCEPT ![w] = "download"]
          /\ UNCHANGED <<rowVars, projectVars, procVars, mine>> /\ step[w] = "begin"
      BY <1>5, <2>1 DEF Begin
    <3>2. QED
      <4>1. RowsCalm
        BY <3>1 DEF rowVars, projectVars, ownerVars, RowsCalm
      <4>2. SeenCalm
        BY <3>1, StillSeen DEF procVars
      <4>3. WorkersCalm
        BY <1>0, <1>a, <1>c, <3>1 DEF TypeOK, Placed, WorkersCalm
      <4>4. QED
        BY <1>0, <4>1, <4>2, <4>3, Bystander
  <2>2. CASE p # NoProject /\ project[p] \in {"none", "deleted"}
    BY <1>5, <2>2, FailsSafely DEF Begin
  <2>3. CASE p # NoProject /\ project[p] \notin {"none", "deleted"}
    <3>1. /\ step' = [step EXCEPT ![w] = IF files[p] > 0 THEN "finish" ELSE "download"]
          /\ mine' = [mine EXCEPT ![w] = p] /\ Holds(w) /\ step[w] = "begin"
          /\ UNCHANGED <<rowVars, projectVars, procVars>>
      BY <1>5, <2>3 DEF Begin
    <3>2. p \in Worker /\ t \in Tasks
      BY <1>0, <1>b, <2>3 DEF TypeOK, Link
    <3>4. HasProject(t)
      BY <2>3 DEF HasProject
    <3>5. Holding'
      BY <1>0, <1>a, <3>1, <3>4 DEF Holding, Holds, HasProject, rowVars, projectVars, TypeOK
    <3>6. Fresh' /\ Placed'
      BY <1>0, <1>a, <1>c, <1>b, <2>3, <3>1 DEF Fresh, Placed, rowVars, TypeOK
    <3>7. QED
      BY <1>a, <3>1, <3>5, <3>6 DEF SInv, Ownership, ActiveIsEarned, Shown, SucceededKeepsProject,
         rowVars, projectVars, ownerVars, procVars
  <2>4. QED
    BY <2>1, <2>2, <2>3
<1>6. ASSUME NEW w \in Worker, Download(w) \/ Scan(w) \/ Made(w) PROVE SInv'
  <2>1. /\ UNCHANGED <<attempt, token, link, project, edits, mine, seen>>
        /\ \E s \in {"scan", "make", "made", "ingest", "finish"} :
             /\ step' = [step EXCEPT ![w] = s]
             /\ s \in {"made", "ingest", "finish"} => mine[w] # NoProject
    BY <1>6, <1>a DEF Download, Scan, Made, GoesTo, rowVars, projectVars, ownerVars, procVars, Placed
  <2>2. \A t \in Tasks : status'[t] = status[t] \/ {status[t], status'[t]} \subseteq Leased
    BY <1>0, <1>6 DEF Download, Scan, Made, rowVars, Holds, TypeOK, Leased
  <2>3. step[w] # "off"
    BY <1>6 DEF Download, Scan, Made
  <2>4. QED
    <3>1. RowsCalm
      BY <2>1, <2>2 DEF RowsCalm
    <3>2. SeenCalm
      BY <2>1, StillSeen
    <3>3. WorkersCalm
      BY <1>0, <1>a, <1>c, <2>1, <2>3 DEF TypeOK, Placed, WorkersCalm
    <3>4. QED
      BY <1>0, <3>1, <3>2, <3>3, Bystander
<1>7. ASSUME NEW w \in Worker, Make(w) PROVE SInv'
  <2>1. CASE NameTaken \/ NameBurnt
    BY <1>7, <2>1, FailsSafely DEF Make
  <2>2. CASE ~(NameTaken \/ NameBurnt)
    <3> DEFINE t == w[1]
    <3>1. /\ project' = [project EXCEPT ![w] = "importing"]
          /\ link' = [link EXCEPT ![t] = w]
          /\ mine' = [mine EXCEPT ![w] = w]
          /\ step' = [step EXCEPT ![w] = "made"]
          /\ UNCHANGED <<status, attempt, token, edits, seen>> /\ step[w] = "make"
      BY <1>7, <2>2 DEF Make, procVars, ownerVars
    <3>2. status[t] # "succeeded"
      BY <2>2, <3>1 DEF MakesInTime
    <3>3. w # NoProject /\ t \in Tasks
      BY <1>b, WorkerIsProject
    <3>4. /\ project'[w] = "importing" /\ \A q \in Worker \ {w} : project'[q] = project[q]
          /\ link'[t] = w /\ \A u \in Tasks \ {t} : link'[u] = link[u]
      BY <1>0, <3>1, <3>3 DEF TypeOK
    <3>5. \A u \in Tasks \ {t} : link[u] # NoProject => link[u] \in Worker \ {w}
      BY <1>0, <1>a DEF TypeOK, Link, Ownership
    <3>6. Ownership' /\ Placed'
      BY <1>0, <1>a, <3>1, <3>3 DEF Ownership, Placed, TypeOK
    <3>7. Fresh'
      BY <1>0, <1>a, <1>b, <1>c, <3>1 DEF Fresh, TypeOK
    <3>8. Holding'
      <4> SUFFICES ASSUME NEW v \in Worker, Holds(v)', mine'[v] # NoProject
                   PROVE  HasProject(v[1])'
        BY DEF Holding
      <4>1. CASE v[1] = t
        BY <3>3, <3>4, <4>1 DEF HasProject
      <4>2. CASE v[1] # t
        <5>1. Holds(v) /\ mine[v] # NoProject /\ v[1] \in Tasks \ {t}
          BY <1>0, <1>b, <3>1, <4>2 DEF Holds, TypeOK
        <5>2. HasProject(v[1])
          BY <1>a, <5>1 DEF Holding
        <5>3. QED
          BY <3>4, <3>5, <5>1, <5>2 DEF HasProject
      <4>3. QED
        BY <4>1, <4>2
    <3>9. ActiveIsEarned'
      <4> SUFFICES ASSUME NEW q \in Shown', "opened" \notin edits'[q]
                   PROVE  \E u \in Tasks : status'[u] = "succeeded" /\ link'[u] = q
        BY DEF ActiveIsEarned
      <4>1. q \in Shown
        BY <3>4 DEF Shown
      <4>2. PICK u \in Tasks : status[u] = "succeeded" /\ link[u] = q
        BY <1>a, <3>1, <4>1 DEF ActiveIsEarned
      <4>3. QED
        BY <3>1, <3>2, <3>4, <4>2
    <3>10. SucceededKeepsProject'
      <4> SUFFICES ASSUME NEW u \in Tasks, status'[u] = "succeeded"
                   PROVE  link'[u] # NoProject /\ project'[link'[u]] \in {"active", "archived", "deleted"}
        BY DEF SucceededKeepsProject
      <4>1. u \in Tasks \ {t} /\ status[u] = "succeeded"
        BY <3>1, <3>2
      <4>2. QED
        BY <1>a, <3>4, <3>5, <4>1 DEF SucceededKeepsProject
    <3>11. QED
      BY <3>6, <3>7, <3>8, <3>9, <3>10 DEF SInv
  <2>3. QED
    BY <2>1, <2>2
<1>8. ASSUME NEW w \in Worker, Ingest(w) PROVE SInv'
  <2> DEFINE p == mine[w]
             stop == w[1] \in Audit /\ (project[p] \in {"none", "deleted"} \/ files[p] > 0)
  <2>1. CASE stop
    BY <1>8, <2>1, FailsSafely DEF Ingest
  <2>2. CASE ~stop
    <3>1. /\ step' = [step EXCEPT ![w] = "finish"] /\ step[w] = "ingest"
          /\ UNCHANGED <<status, attempt, token, link, project, edits, mine, seen>>
      BY <1>8, <2>2 DEF Ingest, GoesTo, procVars, rowVars, ownerVars
    <3>2. mine[w] # NoProject
      BY <1>a, <3>1 DEF Placed
    <3>3. QED
      <4>1. RowsCalm
        BY <3>1 DEF RowsCalm
      <4>2. SeenCalm
        BY <3>1, StillSeen
      <4>3. WorkersCalm
        BY <1>0, <1>a, <1>c, <3>1, <3>2 DEF TypeOK, Placed, WorkersCalm
      <4>4. QED
        BY <1>0, <4>1, <4>2, <4>3, Bystander
  <2>3. QED
    BY <2>1, <2>2
<1>9. ASSUME NEW w \in Worker, Finish(w) PROVE SInv'
  <2> DEFINE t == w[1]
             p == link[t]
  <2>1. /\ step[w] = "finish" /\ Holds(w)
        /\ status' = [status EXCEPT ![t] = "succeeded"]
        /\ project' = IF p # NoProject /\ project[p] = "importing"
                         THEN [project EXCEPT ![p] = "active"] ELSE project
        /\ token' = [token EXCEPT ![t] = 0]
        /\ step' = [step EXCEPT ![w] = "off"] /\ mine' = [mine EXCEPT ![w] = NoProject]
        /\ UNCHANGED <<attempt, link, edits, seen>>
    BY <1>9 DEF Finish, EndsLease, Leaves, ownerVars
  <2>2. t \in Tasks /\ HasProject(t)
    BY <1>a, <1>b, <2>1 DEF Placed, Holding
  <2>3. p \in Worker /\ p[1] = t
    BY <1>0, <1>a, <2>2 DEF HasProject, TypeOK, Link, Ownership
  <2>4. \A q \in Worker : q # p => project'[q] = project[q]
    BY <2>1
  <2>5. project'[p] \in {"active", "archived", "deleted"}
    BY <1>0, <2>1, <2>2, <2>3 DEF HasProject, TypeOK, ProjectStatus, Visible
  <2>6. \A u \in Tasks \ {t} : link[u] # NoProject => link[u] \in Worker /\ link[u] # p
    BY <1>0, <1>a, <2>3 DEF TypeOK, Link, Ownership
  <2>7. Ownership' /\ Fresh' /\ Placed'
    BY <1>0, <1>a, <2>1 DEF Ownership, Fresh, Placed, TypeOK
  <2>8. Holding'
    <3> SUFFICES ASSUME NEW v \in Worker, Holds(v)', mine'[v] # NoProject
                 PROVE  HasProject(v[1])'
      BY DEF Holding
    <3>1. v[1] \in Tasks \ {t} /\ v # w
      BY <1>0, <1>b, <2>1 DEF Holds, TypeOK, Leased
    <3>2. Holds(v) /\ mine[v] # NoProject
      BY <1>0, <2>1, <3>1 DEF Holds, TypeOK
    <3>3. QED
      BY <1>a, <2>1, <2>4, <2>6, <3>1, <3>2 DEF Holding, HasProject
  <2>9. ActiveIsEarned'
    <3> SUFFICES ASSUME NEW q \in Shown', "opened" \notin edits'[q]
                 PROVE  \E u \in Tasks : status'[u] = "succeeded" /\ link'[u] = q
      BY DEF ActiveIsEarned
    <3>1. CASE q = p
      BY <1>0, <2>1, <2>2, <3>1 DEF TypeOK
    <3>2. CASE q # p
      <4>1. PICK u \in Tasks : status[u] = "succeeded" /\ link[u] = q
        BY <1>a, <2>1, <2>4, <3>2 DEF ActiveIsEarned, Shown
      <4>2. QED
        BY <1>0, <2>1, <4>1 DEF TypeOK
    <3>3. QED
      BY <3>1, <3>2
  <2>10. SucceededKeepsProject'
    <3> SUFFICES ASSUME NEW u \in Tasks, status'[u] = "succeeded"
                 PROVE  link'[u] # NoProject /\ project'[link'[u]] \in {"active", "archived", "deleted"}
      BY DEF SucceededKeepsProject
    <3>1. CASE u = t
      BY <2>1, <2>2, <2>5, <3>1 DEF HasProject
    <3>2. CASE u # t
      BY <1>0, <1>a, <2>1, <2>4, <2>6, <3>2 DEF SucceededKeepsProject, TypeOK
    <3>3. QED
      BY <3>1, <3>2
  <2>11. QED
    BY <2>7, <2>8, <2>9, <2>10 DEF SInv
<1>10. ASSUME NEW w \in Worker, Heartbeat(w) PROVE SInv'
  <2>1. UNCHANGED <<mine, step, seen>>
    BY <1>10 DEF Heartbeat, procVars, workVars
  <2>2. RowsCalm
    BY <1>10 DEF Heartbeat, projectVars, ownerVars, RowsCalm
  <2>3. QED
    BY <1>0, <2>1, <2>2, Still, StillSeen, Bystander
<1>11. ASSUME NEW p \in Worker, DeleteProject(p) \/ UpdateStatus(p) PROVE SInv'
  <2>1. /\ project[p] # "none" /\ \E s \in ProjectStatus \ {"none", "importing"} : project' = [project EXCEPT ![p] = s]
        /\ UNCHANGED <<status, attempt, token, link, seen, mine, step>>
    BY <1>11 DEF DeleteProject, UpdateStatus, Visible, ProjectStatus, rowVars, procVars, workVars
  <2>2. /\ project'[p] \in {"active", "archived", "deleted"}
        /\ \A q \in Worker \ {p} : project'[q] = project[q]
    BY <1>0, <2>1 DEF TypeOK, ProjectStatus, Visible
  <2>3. \A t \in Tasks : link[t] # NoProject => link[t] \in Worker
    BY <1>0 DEF TypeOK, Link
  <2>4. Ownership' /\ Fresh' /\ Placed'
    BY <1>a, <2>1 DEF Ownership, Fresh, Placed
  <2>5. Holding'
    <3> SUFFICES ASSUME NEW v \in Worker, Holds(v)', mine'[v] # NoProject
                 PROVE  HasProject(v[1])'
      BY DEF Holding
    <3>1. HasProject(v[1]) /\ v[1] \in Tasks
      BY <1>a, <1>b, <2>1 DEF Holding, Holds
    <3>2. QED
      BY <2>1, <2>2, <2>3, <3>1 DEF HasProject
  <2>6. ActiveIsEarned'
    <3> SUFFICES ASSUME NEW q \in Shown', "opened" \notin edits'[q]
                 PROVE  \E u \in Tasks : status'[u] = "succeeded" /\ link'[u] = q
      BY DEF ActiveIsEarned
    <3>1. q \in Shown /\ "opened" \notin edits[q]
      <4>1. CASE DeleteProject(p)
        BY <1>0, <4>1 DEF DeleteProject, Noted, Shown, TypeOK
      <4>2. CASE UpdateStatus(p)
        <5>1. edits[q] \subseteq edits'[q]
          BY <1>0, <4>2 DEF UpdateStatus, Noted, Shown, TypeOK
        <5>2. CASE q # p
          BY <2>2, <5>1, <5>2 DEF Shown
        <5>3. CASE q = p
          <6>1. project[p] \notin {"importing", "deleted"}
            BY <1>0, <4>2, <5>3 DEF UpdateStatus, Noted, TypeOK
          <6>2. QED
            BY <1>0, <2>1, <5>1, <5>3, <6>1 DEF Shown, TypeOK, ProjectStatus, Visible
        <5>4. QED
          BY <5>2, <5>3
      <4>3. QED
        BY <1>11, <4>1, <4>2
    <3>2. QED
      BY <1>a, <2>1, <3>1 DEF ActiveIsEarned
  <2>7. SucceededKeepsProject'
    BY <1>a, <2>1, <2>2, <2>3 DEF SucceededKeepsProject
  <2>8. QED
    BY <2>4, <2>5, <2>6, <2>7 DEF SInv
<1>12. ASSUME NEW d \in Dispatchers, Sweep(d) PROVE SInv'
  <2>1. UNCHANGED <<status, attempt, token, link, project, edits, mine, step>>
    BY <1>12 DEF Sweep, rowVars, projectVars, ownerVars, workVars
  <2>2. \A e \in Dispatchers : \A r \in seen'[e] : r.link = NoProject \/ r.link[1] = r.task
    BY <1>0, <1>12, <1>a DEF Sweep, Due, TypeOK, Ownership
  <2>3. RowsCalm /\ SeenCalm
    BY <2>1, <2>2 DEF RowsCalm, SeenCalm
  <2>4. QED
    BY <1>0, <2>1, <2>3, Still, Bystander
<1>13. ASSUME NEW d \in Dispatchers, Recover(d) PROVE SInv'
  <2>1. PICK r \in seen[d] :
          /\ seen' = [seen EXCEPT ![d] = @ \ {r}]
          /\ IF Recoverable(r)
               THEN /\ status' = [status EXCEPT ![r.task] =
                                    IF Exhausted(r.task) THEN "failed" ELSE "queued"]
                    /\ EndsLease(r.task)
                    /\ Cleaned(r.task, r.link, r.state)
               ELSE UNCHANGED <<status, token, lapsed, link, projectVars>>
    BY <1>13 DEF Recover
  <2>2. UNCHANGED <<attempt, step, mine>>
    BY <1>13 DEF Recover, workVars
  <2>3. \A e \in Dispatchers : seen'[e] \subseteq seen[e]
    BY <1>0, <2>1 DEF TypeOK
  <2>4. r.task \in Tasks /\ r.link \in Link /\ (r.link = NoProject \/ r.link[1] = r.task)
    BY <1>0, <1>a, <2>1 DEF TypeOK, SeenRow, Ownership
  <2>5. CASE Recoverable(r)
    <3> DEFINE s == IF Exhausted(r.task) THEN "failed" ELSE "queued"
    <3>1. s \in {"queued", "failed", "cancelled"} /\ status[r.task] # "succeeded"
      BY <2>5 DEF Recoverable, Leased
    <3>2. /\ status' = [status EXCEPT ![r.task] = s] /\ token' = [token EXCEPT ![r.task] = 0]
          /\ Cleaned(r.task, r.link, r.state)
      BY <2>1, <2>5 DEF EndsLease
    <3> HIDE DEF s
    <3>3. QED
      BY <1>0, <2>2, <2>3, <2>4, <3>1, <3>2, LetGo
  <2>6. CASE ~Recoverable(r)
    <3>1. UNCHANGED <<status, token, link, project, edits>>
      BY <2>1, <2>6 DEF projectVars, ownerVars
    <3>2. QED
      <4>1. RowsCalm
        BY <2>2, <3>1 DEF RowsCalm
      <4>2. QED
        BY <1>0, <2>2, <2>3, <4>1, Still, StillSeen, Bystander
  <2>7. QED
    BY <2>5, <2>6
<1>14. ASSUME NEW d \in Dispatchers, Recovered(d) \/ Claimed(d) \/ Joined(d) PROVE SInv'
  <2>1. UNCHANGED <<mine, step, seen>>
    BY <1>14 DEF Recovered, Claimed, Joined, workVars
  <2>2. RowsCalm
    BY <1>14 DEF Recovered, Claimed, Joined, rowVars, projectVars, ownerVars, RowsCalm
  <2>3. QED
    BY <1>0, <2>1, <2>2, Still, StillSeen, Bystander
<1>15. ASSUME NEW d \in Dispatchers, NEW t \in Tasks, Claim(d, t) PROVE SInv'
  <2> DEFINE w == <<t, attempt[t] + 1>>
  <2>1. /\ attempt' = [attempt EXCEPT ![t] = attempt[t] + 1]
        /\ token' = [token EXCEPT ![t] = attempt[t] + 1]
        /\ step' = [step EXCEPT ![w] = "begin"]
        /\ status' = [status EXCEPT ![t] = "downloading"]
        /\ UNCHANGED <<link, project, edits, seen, mine>> /\ status[t] = "queued"
    BY <1>15 DEF Claim, Claimable, projectVars, ownerVars
  <2>2. Ownership' /\ Placed'
    BY <1>0, <1>a, <2>1 DEF Ownership, Placed, TypeOK
  <2>3. Fresh'
    <3> SUFFICES ASSUME NEW v \in Worker, v[2] > attempt'[v[1]]
                 PROVE  mine'[v] = NoProject /\ step'[v] = "off"
      BY DEF Fresh
    <3>1. v[2] > attempt[v[1]] /\ v # w
      BY <1>0, <1>b, <2>1 DEF TypeOK
    <3>2. QED
      BY <1>0, <1>a, <2>1, <3>1 DEF Fresh, TypeOK
  <2>4. Holding'
    <3> SUFFICES ASSUME NEW v \in Worker, Holds(v)', mine'[v] # NoProject
                 PROVE  HasProject(v[1])'
      BY DEF Holding
    <3>1. v[1] # t
      <4>1. SUFFICES ASSUME v[1] = t PROVE FALSE
        OBVIOUS
      <4>2. v[2] = attempt[t] + 1
        BY <1>0, <2>1, <4>1 DEF Holds, TypeOK
      <4>3. mine[v] = NoProject
        BY <1>0, <1>a, <4>1, <4>2 DEF Fresh, TypeOK
      <4>4. QED
        BY <2>1, <4>3
    <3>2. Holds(v) /\ mine[v] # NoProject
      BY <1>0, <1>b, <2>1, <3>1 DEF Holds, TypeOK
    <3>3. QED
      BY <1>a, <2>1, <3>2 DEF Holding, HasProject
  <2>5. ActiveIsEarned' /\ SucceededKeepsProject'
    BY <1>0, <1>a, <2>1 DEF ActiveIsEarned, Shown, SucceededKeepsProject, TypeOK
  <2>6. QED
    BY <2>2, <2>3, <2>4, <2>5 DEF SInv
<1>16. ASSUME NEW d \in Dispatchers, Crash(d) PROVE SInv'
  <2>1. /\ \A w \in Worker : \/ mine'[w] = mine[w] /\ step'[w] = step[w]
                             \/ mine'[w] = NoProject /\ step'[w] = "off"
        /\ UNCHANGED <<status, attempt, token, link, project, edits>>
    BY <1>16 DEF Crash, rowVars, projectVars, ownerVars
  <2>2. \A e \in Dispatchers : seen'[e] \subseteq seen[e]
    BY <1>0, <1>16 DEF Crash, TypeOK
  <2>3. RowsCalm
    BY <2>1 DEF RowsCalm
  <2>4. WorkersCalm
    BY <1>a, <2>1 DEF Placed, WorkersCalm
  <2>5. QED
    BY <1>0, <2>2, <2>3, <2>4, StillSeen, Bystander
<1>17. CASE UNCHANGED vars
  <2>1. UNCHANGED <<mine, step, seen>> /\ RowsCalm
    BY <1>17 DEF vars, rowVars, projectVars, ownerVars, procVars, workVars, RowsCalm
  <2>2. QED
    BY <1>0, <2>1, Still, StillSeen, Bystander
<1>18. ASSUME NEW p \in Worker, Rename(p) \/ EditFiles(p) PROVE SInv'
  <2>1. /\ UNCHANGED <<status, attempt, token, link, project, seen, mine, step>>
        /\ \A q \in Worker : edits[q] \subseteq edits'[q]
    BY <1>0, <1>18 DEF Rename, EditFiles, Noted, TypeOK, rowVars, procVars, workVars
  <2>2. QED
    BY <1>a, <2>1 DEF SInv, Ownership, Fresh, Placed, Holding, Holds, HasProject, ActiveIsEarned, Shown,
                      SucceededKeepsProject
<1>19. QED
  BY <1>1, <1>2, <1>3, <1>4, <1>5, <1>6, <1>7, <1>8, <1>9, <1>10, <1>11, <1>12, <1>13, <1>14,
     <1>15, <1>16, <1>17, <1>18 DEF Next, WorkerStep, Dispatch

LEMMA SafeInit == Init => SInv
  BY DEF Init, SInv, Ownership, Fresh, Placed, Holding, Holds, Leased, ActiveIsEarned, Shown, SucceededKeepsProject

-----------------------------------------------------------------------------
(* One process.  To disturb the contents of a project, or to leave some     *)
(* behind, a late worker needs a second process that recovers the lease     *)
(* while the worker still runs: a process recovers only when its own batch  *)
(* has returned.                                                           *)
OneProcess == \A d, e \in Dispatchers : d = e

\* Nobody works while a process sweeps and recovers.
SweepsAlone ==
  /\ \A d \in Dispatchers : stage[d] \in {"sweep", "recover"} => batch[d] = {}
  /\ \A d \in Dispatchers : stage[d] # "recover" => seen[d] = {}
  /\ \A w \in Worker : step[w] # "off" => \E d \in Dispatchers : w \in batch[d]

\* The owner has let the files alone.
Untouched(p) == "files" \notin edits[p]

\* A worker has the lease of the last attempt until its task is cancelled; it
\* agrees with the row on the project; it stores contents into an empty project.
WorkerOK(w) ==
  /\ step[w] # "off" => w[2] = attempt[w[1]] /\ (Holds(w) \/ status[w[1]] = "cancelled")
  /\ step[w] \in {"off", "begin", "make"} => mine[w] = NoProject
  /\ mine[w] # NoProject => mine[w][1] = w[1]
  /\ mine[w] # NoProject /\ Holds(w) => mine[w] = link[w[1]]
  /\ mine[w] = NoProject /\ step[w] \notin {"off", "begin"} => link[w[1]] = NoProject
  /\ step[w] = "ingest" /\ Untouched(mine[w]) => files[mine[w]] = 0
  /\ step[w] = "finish" /\ Holds(w) /\ Untouched(mine[w]) => files[mine[w]] = 1

\* What is half imported can still be found from the row, but for an import that
\* was cancelled; one that failed has been cleaned up, or was renamed.
Traceable ==
  /\ \A p \in Worker : project[p] = "importing" => link[p[1]] = p
  /\ \A p \in Worker : project[p] = "none" /\ files[p] > 0 => status[p[1]] = "cancelled"
  /\ \A t \in Tasks : status[t] = "failed" /\ link[t] # NoProject /\ project[link[t]] = "importing" =>
       "renamed" \in edits[link[t]]

\* A clean-up that reads this state knows enough of p: it takes what is being
\* imported for nothing else, unless the owner renamed it.
SeesRight(p, state) ==
  project[p] = "importing" => state = "importing" \/ (state # "none" /\ "renamed" \in edits[p])

\* What a recovery has read of a row is still true enough when it updates it.
SeenTrue ==
  \A d \in Dispatchers : \A r \in seen[d] :
    status[r.task] \in Leased =>
      /\ r.link = link[r.task]
      /\ r.link # NoProject => SeesRight(r.link, r.state)

UInv ==
  /\ SweepsAlone /\ Traceable /\ SeenTrue /\ ContentsOnce
  /\ \A w \in Worker : WorkerOK(w)
  /\ \A p \in Worker : Untouched(p) => files[p] \in {0, 1}
  /\ \A p \in renamed : "renamed" \in edits[p]

(* The clean-up of a row by what is true of it: its half imported project   *)
(* goes with its contents, everything else stays.                          *)
LEMMA CleanedTrue ==
  ASSUME TypeOK, NEW t \in Tasks, NEW state, Cleaned(t, link[t], state),
         link[t] # NoProject => SeesRight(link[t], state)
  PROVE  /\ \A u \in Tasks \ {t} : link'[u] = link[u]
         /\ link'[t] \in {link[t], NoProject}
         /\ \A q \in Worker :
              \/ project'[q] = project[q] /\ files'[q] = files[q]
              \/ q = link[t] /\ project'[q] = "none" /\ files'[q] = 0
         /\ \A q \in Worker : project'[q] = "importing" =>
              project[q] = "importing" /\ (q = link[t] => link'[t] = q /\ "renamed" \in edits[q])
         /\ edits' = edits /\ renamed' = renamed
<1> DEFINE p == link[t]
<1>1. p \in Link /\ link \in [Tasks -> Link] /\ project \in [Worker -> ProjectStatus] /\ files \in [Worker -> 0..2]
  BY DEF TypeOK
<1>2. link' = IF p # NoProject /\ state \in {"none", "importing"}
                THEN [link EXCEPT ![t] = NoProject] ELSE link
  BY DEF Cleaned
<1>a. edits' = edits /\ renamed' = renamed
  BY DEF Cleaned, ownerVars
<1>3. CASE p # NoProject /\ state = "importing"
  <2>1. project' = [project EXCEPT ![p] = "none"] /\ files' = [files EXCEPT ![p] = 0]
    BY <1>3 DEF Cleaned
  <2>2. p \in Worker
    BY <1>1, <1>3 DEF Link
  <2> HIDE DEF p
  <2>3. /\ project'[p] = "none" /\ files'[p] = 0
        /\ \A q \in Worker \ {p} : project'[q] = project[q] /\ files'[q] = files[q]
    BY <1>1, <2>1, <2>2
  <2>4. link' = [link EXCEPT ![t] = NoProject]
    BY <1>2, <1>3
  <2>5. link'[t] = NoProject /\ \A u \in Tasks \ {t} : link'[u] = link[u]
    BY <1>1, <2>4
  <2>6. QED
    BY <1>a, <2>3, <2>5 DEF p
<1>4. CASE ~(p # NoProject /\ state = "importing")
  <2>1. UNCHANGED <<project, files>>
    BY <1>4 DEF Cleaned
  <2>2. /\ \A u \in Tasks \ {t} : link'[u] = link[u]
        /\ link'[t] \in {link[t], NoProject}
    BY <1>1, <1>2
  <2>3. p # NoProject /\ project[p] = "importing" => state # "none" /\ "renamed" \in edits[p]
    BY <1>4 DEF SeesRight
  <2>4. p # NoProject /\ project[p] = "importing" => link' = link
    BY <1>2, <1>4, <2>3
  <2>5. QED
    BY <1>a, <2>1, <2>2, <2>3, <2>4, WorkerIsProject
<1>5. QED
  BY <1>3, <1>4

(* A clean-up in the transaction that reads the project sees enough of it.  *)
LEMMA SeesNow ==
  ASSUME UInv, NEW p \in Worker
  PROVE  SeesRight(p, Sees(p))
  BY WorkerIsProject DEF UInv, SeesRight, Sees

(* The facts of the other invariants that are used below.                   *)
LEMMA Known ==
  ASSUME TInv, SInv, UInv
  PROVE  /\ TypeOK /\ \A w \in Worker : w[1] \in Tasks /\ w[2] \in Nat
         /\ \A t \in Tasks : link[t] # NoProject => link[t] \in Worker /\ link[t][1] = t
         /\ \A w \in Worker : mine[w] # NoProject => mine[w] \in Worker /\ mine[w][1] = w[1]
         /\ \A p \in Shown : "opened" \notin edits[p] => status[p[1]] = "succeeded" /\ link[p[1]] = p
         /\ \A v, w \in Worker : step[v] # "off" /\ step[w] # "off" /\ v[1] = w[1] => v = w
         /\ \A w \in Worker : step[w] # "off" => status[w[1]] \in Leased \cup {"cancelled"}
<1>1. TypeOK /\ \A w \in Worker : w[1] \in Tasks /\ w[2] \in Nat
  BY DEF TInv, Worker
<1>2. \A t \in Tasks : link[t] # NoProject => link[t] \in Worker /\ link[t][1] = t
  BY <1>1 DEF TypeOK, Link, SInv, Ownership
<1>3. \A w \in Worker : mine[w] # NoProject => mine[w] \in Worker /\ mine[w][1] = w[1]
  BY <1>1 DEF TypeOK, Link, UInv, WorkerOK
<1>4. \A p \in Shown : "opened" \notin edits[p] => status[p[1]] = "succeeded" /\ link[p[1]] = p
  BY <1>2, WorkerIsProject DEF SInv, ActiveIsEarned, Shown
<1>5. \A v, w \in Worker : v[1] = w[1] /\ v[2] = w[2] => v = w
  BY DEF Worker
<1>6. \A w \in Worker : step[w] # "off" => status[w[1]] \in Leased \cup {"cancelled"}
  BY DEF UInv, WorkerOK, Holds
<1>7. \A w \in Worker : step[w] # "off" => w[2] = attempt[w[1]]
  BY DEF UInv, WorkerOK
<1>8. QED
  BY <1>1, <1>2, <1>3, <1>4, <1>5, <1>6, <1>7

(* The row of t is let go and cleaned up; whoever works on t stops, unless  *)
(* t was cancelled.                                                        *)
LEMMA LetGoOnce ==
  ASSUME TInv, SInv, UInv, TInv', NEW t \in Tasks, status[t] \in Leased \cup {"queued"},
         NEW s \in {"queued", "failed", "cancelled"}, status' = [status EXCEPT ![t] = s],
         NEW state, Cleaned(t, link[t], state),
         link[t] # NoProject => SeesRight(link[t], state),
         token' = [token EXCEPT ![t] = 0], attempt' = attempt,
         \A d \in Dispatchers : seen'[d] \subseteq seen[d],
         \A w \in Worker : \/ /\ mine'[w] = mine[w] /\ step'[w] = step[w]
                              /\ w[1] # t \/ s = "cancelled" \/ step[w] = "off"
                           \/ mine'[w] = NoProject /\ step'[w] = "off",
         SweepsAlone'
  PROVE  UInv'
<1>1. /\ \A u \in Tasks \ {t} : link'[u] = link[u]
      /\ link'[t] \in {link[t], NoProject}
      /\ \A q \in Worker :
           \/ project'[q] = project[q] /\ files'[q] = files[q]
           \/ q = link[t] /\ project'[q] = "none" /\ files'[q] = 0
      /\ \A q \in Worker : project'[q] = "importing" =>
           project[q] = "importing" /\ (q = link[t] => link'[t] = q /\ "renamed" \in edits[q])
      /\ edits' = edits /\ renamed' = renamed
  BY CleanedTrue DEF TInv
<1>2. /\ \A u \in Tasks \ {t} : status'[u] = status[u] /\ token'[u] = token[u]
      /\ status'[t] = s /\ s \notin Leased
  BY DEF TInv, TypeOK, Leased
<1>3. /\ TypeOK /\ \A w \in Worker : w[1] \in Tasks /\ w[2] \in Nat
      /\ \A u \in Tasks : link[u] # NoProject => link[u] \in Worker /\ link[u][1] = u
      /\ \A w \in Worker : mine[w] # NoProject => mine[w] \in Worker /\ mine[w][1] = w[1]
  BY Known
<1>4. Traceable'
  <2>1. ASSUME NEW p \in Worker, project'[p] = "importing"
        PROVE  link'[p[1]] = p
    <3>1. project[p] = "importing" /\ (p = link[t] => link'[t] = p)
      BY <1>1, <2>1
    <3>2. link[p[1]] = p
      BY <3>1 DEF UInv, Traceable
    <3>3. QED
      BY <1>1, <1>3, <3>1, <3>2
  <2>2. ASSUME NEW p \in Worker, project'[p] = "none", files'[p] > 0
        PROVE  status'[p[1]] = "cancelled"
    <3>1. project[p] = "none" /\ files[p] > 0
      BY <1>1, <2>2
    <3>2. status[p[1]] = "cancelled"
      BY <3>1 DEF UInv, Traceable
    <3>3. p[1] # t
      BY <3>2 DEF Leased
    <3>4. QED
      BY <1>2, <1>3, <3>2, <3>3
  <2>3. ASSUME NEW u \in Tasks, status'[u] = "failed", link'[u] # NoProject,
               project'[link'[u]] = "importing"
        PROVE  "renamed" \in edits'[link'[u]]
    <3>1. CASE u = t
      <4>1. link'[t] = link[t] /\ link[t] \in Worker
        BY <1>1, <1>3, <2>3, <3>1
      <4>2. QED
        BY <1>1, <2>3, <3>1, <4>1
    <3>2. CASE u # t
      <4>1. status[u] = "failed" /\ link'[u] = link[u]
        BY <1>1, <1>2, <2>3, <3>2
      <4>2. link[u] \in Worker /\ (project[link[u]] = "importing" => "renamed" \in edits[link[u]])
        BY <1>3, <2>3, <4>1 DEF UInv, Traceable
      <4>3. QED
        BY <1>1, <2>3, <4>1, <4>2
    <3>3. QED
      BY <3>1, <3>2
  <2>4. QED
    BY <2>1, <2>2, <2>3 DEF Traceable
<1>5. SeenTrue'
  <2> SUFFICES ASSUME NEW d \in Dispatchers, NEW r \in seen'[d], status'[r.task] \in Leased
               PROVE  /\ r.link = link'[r.task]
                      /\ r.link # NoProject => SeesRight(r.link, r.state)'
    BY DEF SeenTrue
  <2>1. r \in seen[d] /\ r.task \in Tasks
    BY <1>3 DEF TypeOK, SeenRow
  <2>2. r.task # t
    BY <1>2
  <2>3. /\ r.link = link[r.task]
        /\ r.link # NoProject => SeesRight(r.link, r.state)
    BY <1>2, <2>1, <2>2 DEF UInv, SeenTrue
  <2>4. r.link # NoProject => r.link \in Worker /\ r.link # link[t]
    <3>1. SUFFICES ASSUME r.link # NoProject
                   PROVE  r.link \in Worker /\ r.link # link[t]
      OBVIOUS
    <3>2. r.link \in Worker /\ r.link[1] = r.task
      BY <1>3, <2>1, <2>3, <3>1
    <3>3. QED
      BY <1>3, <2>2, <3>1, <3>2
  <2>5. QED
    BY <1>1, <2>1, <2>2, <2>3, <2>4 DEF SeesRight
<1>6. /\ \A p \in Worker : Untouched(p)' => files'[p] \in {0, 1}
      /\ \A p \in renamed' : "renamed" \in edits'[p]
  BY <1>1 DEF UInv, Untouched
<1>7. ContentsOnce'
  BY <1>1 DEF UInv, ContentsOnce, Shown
<1>8. ASSUME NEW w \in Worker PROVE WorkerOK(w)'
  <2>1. WorkerOK(w)
    BY DEF UInv
  <2>2. CASE step'[w] = "off" /\ mine'[w] = NoProject
    BY <2>2 DEF WorkerOK
  <2>3. CASE mine'[w] = mine[w] /\ step'[w] = step[w] /\ w[1] # t
    <3>1. /\ status'[w[1]] = status[w[1]] /\ token'[w[1]] = token[w[1]]
          /\ link'[w[1]] = link[w[1]]
      BY <1>1, <1>2, <1>3, <2>3
    <3>2. Holds(w)' <=> Holds(w)
      BY <3>1 DEF Holds
    <3>3. step[w] \in {"ingest", "finish"} => files'[mine[w]] = files[mine[w]]
      <4>1. SUFFICES ASSUME step[w] \in {"ingest", "finish"}
                     PROVE  files'[mine[w]] = files[mine[w]]
        OBVIOUS
      <4>2. mine[w] \in Worker /\ mine[w][1] = w[1]
        BY <1>3, <4>1 DEF SInv, Placed
      <4>3. mine[w] # link[t]
        BY <1>3, <2>3, <4>2, WorkerIsProject
      <4>4. QED
        BY <1>1, <4>2, <4>3
    <3>4. QED
      BY <1>1, <2>1, <2>3, <3>1, <3>2, <3>3 DEF WorkerOK, Untouched
  <2>4. CASE /\ mine'[w] = mine[w] /\ step'[w] = step[w] /\ w[1] = t
             /\ s = "cancelled" \/ step[w] = "off"
    <3>1. ~Holds(w)'
      BY <1>2, <2>4 DEF Holds
    <3>2. step[w] = "ingest" /\ Untouched(mine[w]) => files'[mine[w]] = 0
      <4>1. SUFFICES ASSUME step[w] = "ingest", Untouched(mine[w])
                     PROVE  files'[mine[w]] = 0
        OBVIOUS
      <4>2. mine[w] \in Worker /\ files[mine[w]] = 0
        BY <1>3, <2>1, <4>1 DEF SInv, Placed, WorkerOK
      <4>3. QED
        BY <1>1, <4>2
    <3>3. link[t] = NoProject => link'[t] = NoProject
      BY <1>1
    <3>4. QED
      BY <1>1, <1>2, <2>1, <2>4, <3>1, <3>2, <3>3 DEF WorkerOK, Untouched
  <2>5. QED
    BY <2>2, <2>3, <2>4
<1>9. QED
  BY <1>4, <1>5, <1>6, <1>7, <1>8 DEF UInv

\* A step that leaves rows, projects and contents alone, but for moving a row
\* between the leased statuses or queueing a new one.
StoreCalm ==
  /\ UNCHANGED <<attempt, token, link, project, files, renamed, edits>>
  /\ \A t \in Tasks : \/ status'[t] = status[t]
                      \/ {status[t], status'[t]} \subseteq Leased
                      \/ status[t] = "new" /\ status'[t] = "queued"

LEMMA CalmStore ==
  ASSUME TInv, SInv, UInv, StoreCalm, \A d \in Dispatchers : seen'[d] \subseteq seen[d]
  PROVE  /\ Traceable' /\ SeenTrue' /\ ContentsOnce' /\ \A p \in Worker : Untouched(p)' => files'[p] \in {0, 1}
         /\ \A p \in renamed' : "renamed" \in edits'[p]
         /\ \A w \in Worker : step'[w] = step[w] /\ mine'[w] = mine[w] => WorkerOK(w)'
         /\ \A w \in Worker : (Holds(w)' <=> Holds(w))
         /\ \A w \in Worker : status'[w[1]] = "cancelled" <=> status[w[1]] = "cancelled"
<1>1. \A t \in Tasks : /\ status'[t] \in Leased <=> status[t] \in Leased
                       /\ status'[t] = "cancelled" <=> status[t] = "cancelled"
                       /\ status'[t] = "failed" <=> status[t] = "failed"
  BY DEF StoreCalm, Leased
<1>2. \A w \in Worker : w[1] \in Tasks
  BY DEF Worker
<1>3. \A w \in Worker : Holds(w)' <=> Holds(w)
  BY <1>1, <1>2 DEF Holds, StoreCalm
<1>4. Traceable'
  BY <1>1, <1>2 DEF UInv, Traceable, StoreCalm
<1>5. SeenTrue'
  <2> SUFFICES ASSUME NEW d \in Dispatchers, NEW r \in seen'[d], status'[r.task] \in Leased
               PROVE  /\ r.link = link'[r.task]
                      /\ r.link # NoProject => SeesRight(r.link, r.state)'
    BY DEF SeenTrue
  <2>1. r \in seen[d] /\ r.task \in Tasks
    BY DEF TInv, TypeOK, SeenRow
  <2>2. QED
    BY <1>1, <2>1 DEF UInv, SeenTrue, SeesRight, StoreCalm
<1>6. /\ ContentsOnce' /\ \A p \in Worker : Untouched(p)' => files'[p] \in {0, 1}
      /\ \A p \in renamed' : "renamed" \in edits'[p]
  BY DEF UInv, ContentsOnce, Shown, Untouched, StoreCalm
<1>7. \A w \in Worker : step'[w] = step[w] /\ mine'[w] = mine[w] => WorkerOK(w)'
  <2> SUFFICES ASSUME NEW w \in Worker, step'[w] = step[w], mine'[w] = mine[w]
               PROVE  WorkerOK(w)'
    OBVIOUS
  <2>1. WorkerOK(w) /\ (Holds(w)' <=> Holds(w))
        /\ (status'[w[1]] = "cancelled" <=> status[w[1]] = "cancelled")
    BY <1>1, <1>2, <1>3 DEF UInv
  <2>2. UNCHANGED <<attempt, link, files, edits>>
    BY DEF StoreCalm
  <2>3. QED
    BY <2>1, <2>2 DEF WorkerOK, Untouched
<1>8. QED
  BY <1>1, <1>2, <1>3, <1>4, <1>5, <1>6, <1>7

(* Nothing changes for the workers: the steps of dispatchers and the clock. *)
LEMMA Onlooker ==
  ASSUME TInv, SInv, UInv, StoreCalm, SweepsAlone',
         \A d \in Dispatchers : seen'[d] \subseteq seen[d],
         \A w \in Worker : \/ step'[w] = step[w] /\ mine'[w] = mine[w]
                           \/ step'[w] = "off" /\ mine'[w] = NoProject
  PROVE  UInv'
<1>1. \A w \in Worker : step'[w] = "off" /\ mine'[w] = NoProject => WorkerOK(w)'
  BY DEF WorkerOK
<1>2. QED
  BY <1>1, CalmStore DEF UInv

(* A worker moves on and stores nothing.                                    *)
LEMMA MovesOn ==
  ASSUME TInv, SInv, UInv, StoreCalm, UNCHANGED <<batch, stage, seen>>,
         NEW w \in Worker, step[w] # "off", WorkerOK(w)',
         \A v \in Worker \ {w} : step'[v] = step[v] /\ mine'[v] = mine[v]
  PROVE  UInv'
<1>1. SweepsAlone'
  <2>1. \E d \in Dispatchers : w \in batch[d]
    BY DEF UInv, SweepsAlone
  <2>2. \A v \in Worker : step'[v] # "off" => \E d \in Dispatchers : v \in batch'[d]
    <3>1. TAKE v \in Worker
    <3>2. CASE v = w
      BY <2>1, <3>2
    <3>3. CASE v # w
      BY <3>3 DEF UInv, SweepsAlone
    <3>4. QED
      BY <3>2, <3>3
  <2>3. QED
    BY <2>2 DEF UInv, SweepsAlone
<1>2. QED
  BY <1>1, CalmStore DEF UInv

LEMMA FailsOnce ==
  ASSUME TInv, SInv, UInv, TInv', NEW w \in Worker, step[w] # "off",
         NEW retryable \in BOOLEAN, Fails(w, retryable)
  PROVE  UInv'
<1> DEFINE t == w[1]
<1>0. t \in Tasks /\ TypeOK
  BY DEF Worker, TInv
<1>1. /\ step' = [step EXCEPT ![w] = "off"] /\ mine' = [mine EXCEPT ![w] = NoProject]
      /\ batch' = [d \in Dispatchers |-> batch[d] \ {w}]
      /\ seen' = seen /\ attempt' = attempt /\ stage' = stage
  BY DEF Fails, Leaves
<1>2. /\ step'[w] = "off" /\ mine'[w] = NoProject
      /\ \A v \in Worker \ {w} : step'[v] = step[v] /\ mine'[v] = mine[v]
  BY <1>0, <1>1 DEF TypeOK
<1>3. SweepsAlone'
  BY <1>0, <1>1, <1>2 DEF UInv, SweepsAlone
<1>4. CASE Holds(w)
  <2> DEFINE s == IF retryable /\ ~Exhausted(t) THEN "queued" ELSE "failed"
             state == Sees(link[t])
  <2>1. /\ status' = [status EXCEPT ![t] = s] /\ token' = [token EXCEPT ![t] = 0]
        /\ Cleaned(t, link[t], state)
    BY <1>4 DEF Fails, EndsLease, CleanedNow
  <2>2. status[t] \in Leased \cup {"queued"}
    BY <1>4 DEF Holds
  <2>3. s \in {"queued", "failed", "cancelled"}
    OBVIOUS
  <2>4. link[t] # NoProject => SeesRight(link[t], state)
    BY <1>0, SeesNow DEF TypeOK, Link
  <2>5. \A v \in Worker : \/ /\ mine'[v] = mine[v] /\ step'[v] = step[v]
                             /\ v[1] # t \/ s = "cancelled" \/ step[v] = "off"
                          \/ mine'[v] = NoProject /\ step'[v] = "off"
    <3>1. \A v \in Worker \ {w} : v[1] # t \/ step[v] = "off"
      BY Known
    <3>2. QED
      BY <1>2, <3>1
  <2> HIDE DEF s, state, t
  <2>6. QED
    BY <1>0, <1>1, <1>3, <2>1, <2>2, <2>3, <2>4, <2>5, LetGoOnce
<1>5. CASE ~Holds(w)
  <2>1. StoreCalm
    BY <1>1, <1>5 DEF Fails, StoreCalm, projectVars, ownerVars
  <2>2. \A d \in Dispatchers : seen'[d] \subseteq seen[d]
    BY <1>1
  <2>3. QED
    BY <1>2, <1>3, <2>1, <2>2, Onlooker
<1>6. QED
  BY <1>4, <1>5

LEMMA MakeOnce ==
  ASSUME TInv, SInv, UInv, TInv', OneProcess, NEW w \in Worker, Make(w)
  PROVE  UInv'
<1>1. CASE NameTaken \/ NameBurnt
  <2>1. step[w] # "off" /\ \E retryable \in BOOLEAN : Fails(w, retryable)
    BY <1>1 DEF Make
  <2>2. QED
    BY <2>1, FailsOnce
<1>2. CASE ~(NameTaken \/ NameBurnt)
  <2> DEFINE t == w[1]
  <2>1. /\ step[w] = "make"
        /\ project' = [project EXCEPT ![w] = "importing"] /\ link' = [link EXCEPT ![t] = w]
        /\ mine' = [mine EXCEPT ![w] = w] /\ step' = [step EXCEPT ![w] = "made"]
        /\ UNCHANGED <<status, attempt, token, files, renamed, edits, batch, stage, seen>>
    BY <1>2 DEF Make, procVars, ownerVars
  <2>2. /\ TypeOK /\ \A v \in Worker : v[1] \in Tasks /\ v[2] \in Nat
        /\ \A u \in Tasks : link[u] # NoProject => link[u] \in Worker /\ link[u][1] = u
        /\ \A v \in Worker : step[v] # "off" /\ v[1] = t => v = w
        /\ status[t] \in Leased \cup {"cancelled"}
    BY <2>1, Known
  <2>3. /\ project'[w] = "importing" /\ link'[t] = w /\ mine'[w] = w /\ step'[w] = "made"
        /\ \A v \in Worker \ {w} : project'[v] = project[v] /\ mine'[v] = mine[v] /\ step'[v] = step[v]
        /\ \A u \in Tasks \ {t} : link'[u] = link[u]
    BY <2>1, <2>2 DEF TypeOK
  <2>4. mine[w] = NoProject /\ link[t] = NoProject /\ WorkerOK(w)
    BY <2>1 DEF UInv, WorkerOK
  <2>5. SweepsAlone' /\ \A d \in Dispatchers : seen[d] = {}
    <3>1. PICK d \in Dispatchers : w \in batch[d]
      BY <2>1 DEF UInv, SweepsAlone
    <3>2. stage[d] # "recover"
      BY <3>1 DEF UInv, SweepsAlone
    <3>3. \A e \in Dispatchers : seen[e] = {}
      BY <3>2 DEF OneProcess, UInv, SweepsAlone
    <3>4. \A v \in Worker : step'[v] # "off" => step[v] # "off"
      BY <2>1, <2>3
    <3>5. QED
      BY <2>1, <3>3, <3>4 DEF UInv, SweepsAlone
  <2>6. SeenTrue'
    BY <2>1, <2>5 DEF SeenTrue
  <2>7. Traceable'
    <3>1. ASSUME NEW p \in Worker, project'[p] = "importing" PROVE link'[p[1]] = p
      <4>1. CASE p = w
        BY <2>3, <4>1
      <4>2. CASE p # w
        <5>1. link[p[1]] = p
          BY <2>3, <3>1, <4>2 DEF UInv, Traceable
        <5>2. p[1] # t
          BY <2>4, <5>1, WorkerIsProject
        <5>3. QED
          BY <2>2, <2>3, <5>1, <5>2
      <4>3. QED
        BY <4>1, <4>2
    <3>2. ASSUME NEW p \in Worker, project'[p] = "none", files'[p] > 0 PROVE status'[p[1]] = "cancelled"
      BY <2>1, <2>3, <3>2 DEF UInv, Traceable
    <3>3. ASSUME NEW u \in Tasks, status'[u] = "failed", link'[u] # NoProject,
                 project'[link'[u]] = "importing"
          PROVE  "renamed" \in edits'[link'[u]]
      <4>1. u # t
        BY <2>1, <2>2, <3>3 DEF Leased
      <4>2. link'[u] = link[u] /\ link[u] \in Worker /\ link[u] # w
        BY <2>2, <2>3, <3>3, <4>1
      <4>3. QED
        BY <2>1, <2>3, <3>3, <4>2 DEF UInv, Traceable
    <3>4. QED
      BY <3>1, <3>2, <3>3 DEF Traceable
  <2>8. /\ ContentsOnce' /\ \A p \in Worker : Untouched(p)' => files'[p] \in {0, 1}
        /\ \A p \in renamed' : "renamed" \in edits'[p]
    BY <2>1, <2>3 DEF UInv, ContentsOnce, Shown, Untouched
  <2>9. ASSUME NEW v \in Worker PROVE WorkerOK(v)'
    <3>1. Holds(v)' <=> Holds(v)
      BY <2>1 DEF Holds
    <3>2. CASE v = w
      BY <2>1, <2>2, <2>3, <2>4, <3>1, <3>2, WorkerIsProject DEF WorkerOK
    <3>3. CASE v # w /\ step[v] = "off"
      <4>1. mine[v] = NoProject
        BY <3>3 DEF UInv, WorkerOK
      <4>2. step'[v] = "off" /\ mine'[v] = NoProject
        BY <2>3, <3>3, <4>1
      <4>3. QED
        BY <4>2 DEF WorkerOK
    <3>4. CASE v # w /\ step[v] # "off"
      <4>1. v[1] # t /\ link'[v[1]] = link[v[1]] /\ step'[v] = step[v] /\ mine'[v] = mine[v]
        BY <2>2, <2>3, <3>4
      <4>2. WorkerOK(v)
        BY DEF UInv
      <4>3. QED
        BY <2>1, <3>1, <4>1, <4>2 DEF WorkerOK, Untouched
    <3>5. QED
      BY <3>2, <3>3, <3>4
  <2>10. QED
    BY <2>5, <2>6, <2>7, <2>8, <2>9 DEF UInv
<1>3. QED
  BY <1>1, <1>2

LEMMA IngestOnce ==
  ASSUME TInv, SInv, UInv, TInv', NEW w \in Worker, Ingest(w)
  PROVE  UInv'
<1> DEFINE p == mine[w]
           stop == w[1] \in Audit /\ (project[p] \in {"none", "deleted"} \/ files[p] > 0)
<1>1. CASE stop
  <2>1. step[w] # "off" /\ Fails(w, FALSE)
    BY <1>1 DEF Ingest
  <2>2. QED
    BY <2>1, FailsOnce
<1>2. CASE ~stop
  <2>1. /\ step[w] = "ingest" /\ files' = [files EXCEPT ![p] = IF @ < 2 THEN @ + 1 ELSE @]
        /\ step' = [step EXCEPT ![w] = "finish"]
        /\ UNCHANGED <<mine, batch, stage, seen, project, renamed, edits, status, attempt, token, link>>
    BY <1>2 DEF Ingest, GoesTo, procVars, rowVars, ownerVars
  <2>2. /\ TypeOK /\ \A v \in Worker : v[1] \in Tasks /\ v[2] \in Nat
        /\ \A v \in Worker : mine[v] # NoProject => mine[v] \in Worker /\ mine[v][1] = v[1]
        /\ \A q \in Shown : "opened" \notin edits[q] => status[q[1]] = "succeeded" /\ link[q[1]] = q
        /\ \A v \in Worker : step[v] # "off" /\ v[1] = w[1] => v = w
        /\ status[w[1]] \in Leased \cup {"cancelled"}
    BY <2>1, Known
  <2>3. p # NoProject /\ p \in Worker /\ p[1] = w[1] /\ (Untouched(p) => files[p] = 0)
    BY <2>1, <2>2 DEF SInv, Placed, UInv, WorkerOK
  <2> HIDE DEF p
  <2>4. (Untouched(p) => files'[p] = 1) /\ \A q \in Worker \ {p} : files'[q] = files[q]
    BY <2>1, <2>2, <2>3 DEF TypeOK
  <2>5. step'[w] = "finish" /\ \A v \in Worker \ {w} : step'[v] = step[v]
    BY <2>1, <2>2 DEF TypeOK
  <2>6. SweepsAlone'
    <3>1. \A v \in Worker : step'[v] # "off" => step[v] # "off"
      BY <2>1, <2>5
    <3>2. QED
      BY <2>1, <3>1 DEF UInv, SweepsAlone
  <2>7. SeenTrue'
    BY <2>1 DEF UInv, SeenTrue, SeesRight
  <2>8. Traceable'
    <3>1. project[p] = "none" => status[p[1]] = "cancelled"
      <4>1. Holds(w) => HasProject(w[1]) /\ p = link[w[1]]
        BY <2>3 DEF SInv, Holding, UInv, WorkerOK, p
      <4>2. Holds(w) \/ status[w[1]] = "cancelled"
        BY <2>1 DEF UInv, WorkerOK
      <4>3. QED
        BY <2>3, <4>1, <4>2 DEF HasProject
    <3>2. \A q \in Worker : project[q] = "none" /\ files'[q] > 0 => status[q[1]] = "cancelled"
      BY <2>4, <3>1 DEF UInv, Traceable
    <3>3. QED
      BY <2>1, <3>2 DEF UInv, Traceable
  <2>9. ContentsOnce'
    <3>1. p \in Shown => "opened" \in edits[p]
      BY <2>2, <2>3 DEF Leased
    <3>2. QED
      BY <2>1, <2>4, <3>1 DEF UInv, ContentsOnce, Shown
  <2>10. /\ \A q \in Worker : Untouched(q)' => files'[q] \in {0, 1}
         /\ \A q \in renamed' : "renamed" \in edits'[q]
    BY <2>1, <2>4 DEF UInv, Untouched
  <2>11. ASSUME NEW v \in Worker PROVE WorkerOK(v)'
    <3>1. (Holds(v)' <=> Holds(v)) /\ WorkerOK(v)
      BY <2>1 DEF Holds, UInv
    <3>2. CASE v = w
      BY <2>1, <2>3, <2>4, <2>5, <3>1, <3>2 DEF WorkerOK, Untouched, p
    <3>3. CASE v # w
      <4>1. step[v] \in {"ingest", "finish"} => mine[v] \in Worker /\ mine[v] # p
        BY <2>2, <2>3, <3>3 DEF SInv, Placed
      <4>2. step'[v] = step[v]
        BY <2>5, <3>3
      <4>3. QED
        BY <2>1, <2>4, <3>1, <4>1, <4>2 DEF WorkerOK, Untouched
    <3>4. QED
      BY <3>2, <3>3
  <2>12. QED
    BY <2>6, <2>7, <2>8, <2>9, <2>10, <2>11 DEF UInv
<1>3. QED
  BY <1>1, <1>2

LEMMA FinishOnce ==
  ASSUME TInv, SInv, UInv, OneProcess, NEW w \in Worker, Finish(w)
  PROVE  UInv'
<1> DEFINE t == w[1]
           p == link[t]
<1>1. /\ step[w] = "finish" /\ Holds(w)
      /\ status' = [status EXCEPT ![t] = "succeeded"] /\ token' = [token EXCEPT ![t] = 0]
      /\ project' = IF p # NoProject /\ project[p] = "importing"
                      THEN [project EXCEPT ![p] = "active"] ELSE project
      /\ step' = [step EXCEPT ![w] = "off"] /\ mine' = [mine EXCEPT ![w] = NoProject]
      /\ batch' = [d \in Dispatchers |-> batch[d] \ {w}]
      /\ UNCHANGED <<attempt, link, files, renamed, edits, stage, seen>>
  BY DEF Finish, EndsLease, Leaves, ownerVars
<1>2. /\ TypeOK /\ \A v \in Worker : v[1] \in Tasks /\ v[2] \in Nat
      /\ \A u \in Tasks : link[u] # NoProject => link[u] \in Worker /\ link[u][1] = u
      /\ \A v \in Worker : step[v] # "off" /\ v[1] = t => v = w
  BY <1>1, Known
<1>3. p \in Worker /\ mine[w] = p /\ (Untouched(p) => files[p] = 1)
  <2>1. mine[w] # NoProject /\ WorkerOK(w)
    BY <1>1 DEF SInv, Placed, UInv
  <2>2. mine[w] = p /\ (Untouched(mine[w]) => files[mine[w]] = 1)
    BY <1>1, <2>1 DEF WorkerOK
  <2>3. QED
    BY <1>2, <2>1, <2>2
<1>4. /\ status'[t] = "succeeded" /\ step'[w] = "off" /\ mine'[w] = NoProject
      /\ \A u \in Tasks \ {t} : status'[u] = status[u] /\ token'[u] = token[u]
      /\ \A v \in Worker \ {w} : step'[v] = step[v] /\ mine'[v] = mine[v]
  BY <1>1, <1>2 DEF TypeOK
<1> HIDE DEF p
<1>5. \A q \in Worker : \/ project'[q] = project[q]
                        \/ q = p /\ project[q] = "importing" /\ project'[q] = "active"
  <2>1. project \in [Worker -> ProjectStatus]
    BY <1>2 DEF TypeOK
  <2>2. \/ project' = [project EXCEPT ![p] = "active"] /\ project[p] = "importing"
        \/ project' = project
    BY <1>1
  <2>3. QED
    BY <1>3, <2>1, <2>2
<1>6. SweepsAlone' /\ \A d \in Dispatchers : seen[d] = {}
  <2>1. PICK d \in Dispatchers : w \in batch[d]
    BY <1>1 DEF UInv, SweepsAlone
  <2>2. stage[d] # "recover"
    BY <2>1 DEF UInv, SweepsAlone
  <2>3. \A e \in Dispatchers : seen[e] = {}
    BY <2>2 DEF OneProcess, UInv, SweepsAlone
  <2>4. QED
    BY <1>1, <1>4, <2>3 DEF UInv, SweepsAlone
<1>7. SeenTrue'
  BY <1>1, <1>6 DEF SeenTrue
<1>8. Traceable'
  <2>1. \A q \in Worker : project'[q] = "importing" => project[q] = "importing"
    BY <1>5
  <2>2. \A q \in Worker : project'[q] = "none" => project[q] = "none"
    BY <1>5
  <2>3. \A q \in Worker : status[q[1]] = "cancelled" => status'[q[1]] = "cancelled"
    BY <1>1, <1>2, <1>4 DEF Holds, Leased
  <2>4. \A u \in Tasks : status'[u] = "failed" => status[u] = "failed"
    BY <1>4
  <2>5. QED
    BY <1>1, <1>2, <2>1, <2>2, <2>3, <2>4 DEF UInv, Traceable
<1>9. /\ ContentsOnce' /\ \A q \in Worker : Untouched(q)' => files'[q] \in {0, 1}
      /\ \A q \in renamed' : "renamed" \in edits'[q]
  BY <1>1, <1>3, <1>5 DEF UInv, ContentsOnce, Shown, Untouched
<1>10. ASSUME NEW v \in Worker PROVE WorkerOK(v)'
  <2>1. WorkerOK(v)
    BY DEF UInv
  <2>2. CASE v = w
    BY <1>4, <2>2 DEF WorkerOK
  <2>3. CASE v # w /\ v[1] # t
    <3>1. Holds(v)' <=> Holds(v)
      BY <1>2, <1>4, <2>3 DEF Holds
    <3>2. status'[v[1]] = status[v[1]] /\ step'[v] = step[v] /\ mine'[v] = mine[v]
      BY <1>2, <1>4, <2>3
    <3>3. QED
      BY <1>1, <2>1, <3>1, <3>2 DEF WorkerOK, Untouched
  <2>4. CASE v # w /\ v[1] = t
    <3>1. step'[v] = "off" /\ mine'[v] = NoProject
      BY <1>2, <1>4, <2>1, <2>4 DEF WorkerOK
    <3>2. QED
      BY <3>1 DEF WorkerOK
  <2>5. QED
    BY <2>2, <2>3, <2>4
<1>11. QED
  BY <1>6, <1>7, <1>8, <1>9, <1>10 DEF UInv

LEMMA CancelOnce ==
  ASSUME TInv, SInv, UInv, TInv', NEW t \in Tasks, Cancel(t)
  PROVE  UInv'
<1> DEFINE state == Sees(link[t])
           s == "cancelled"
<1>1. /\ status[t] \in Leased \cup {"queued"}
      /\ status' = [status EXCEPT ![t] = s] /\ token' = [token EXCEPT ![t] = 0]
      /\ Cleaned(t, link[t], state) /\ UNCHANGED <<attempt, batch, stage, seen, step, mine>>
  BY DEF Cancel, Cancellable, EndsLease, CleanedNow, procVars, workVars
<1>2. SweepsAlone'
  BY <1>1 DEF UInv, SweepsAlone
<1>3. link[t] # NoProject => SeesRight(link[t], state)
  BY SeesNow DEF TInv, TypeOK, Link
<1>4. s \in {"queued", "failed", "cancelled"}
  OBVIOUS
<1>5. \A v \in Worker : \/ /\ mine'[v] = mine[v] /\ step'[v] = step[v]
                           /\ v[1] # t \/ s = "cancelled" \/ step[v] = "off"
                        \/ mine'[v] = NoProject /\ step'[v] = "off"
  BY <1>1
<1>6. \A d \in Dispatchers : seen'[d] \subseteq seen[d]
  BY <1>1
<1> HIDE DEF s, state
<1>7. QED
  BY <1>1, <1>2, <1>3, <1>4, <1>5, <1>6, LetGoOnce

LEMMA RecoverOnce ==
  ASSUME TInv, SInv, UInv, TInv', OneProcess, NEW d \in Dispatchers, Recover(d)
  PROVE  UInv'
<1>1. PICK r \in seen[d] :
        /\ seen' = [seen EXCEPT ![d] = @ \ {r}]
        /\ IF Recoverable(r)
             THEN /\ status' = [status EXCEPT ![r.task] =
                                  IF Exhausted(r.task) THEN "failed" ELSE "queued"]
                  /\ EndsLease(r.task)
                  /\ Cleaned(r.task, r.link, r.state)
             ELSE UNCHANGED <<status, token, lapsed, link, projectVars>>
  BY DEF Recover
<1>2. stage[d] = "recover" /\ UNCHANGED <<attempt, batch, stage, step, mine>>
  BY DEF Recover, workVars
<1>3. TypeOK /\ r.task \in Tasks
  BY <1>1 DEF TInv, TypeOK, SeenRow
<1>4. \A e \in Dispatchers : seen'[e] \subseteq seen[e]
  BY <1>1, <1>3 DEF TypeOK
<1>5. \A w \in Worker : step[w] = "off"
  BY <1>2 DEF OneProcess, UInv, SweepsAlone
<1>6. SweepsAlone'
  <2>1. \A e \in Dispatchers : seen[e] = {} => seen'[e] = {}
    BY <1>4
  <2>2. QED
    BY <1>2, <2>1 DEF UInv, SweepsAlone
<1>7. CASE Recoverable(r)
  <2> DEFINE t == r.task
             s == IF Exhausted(t) THEN "failed" ELSE "queued"
             state == r.state
  <2>1. /\ status' = [status EXCEPT ![t] = s] /\ token' = [token EXCEPT ![t] = 0]
        /\ Cleaned(t, r.link, state)
    BY <1>1, <1>7 DEF EndsLease
  <2>2. status[t] \in Leased
    BY <1>7 DEF Recoverable
  <2>3. r.link = link[t] /\ (link[t] # NoProject => SeesRight(link[t], state))
    BY <1>1, <2>2 DEF UInv, SeenTrue
  <2>4. Cleaned(t, link[t], state)
    BY <2>1, <2>3
  <2>5. s \in {"queued", "failed", "cancelled"}
    OBVIOUS
  <2>6. \A v \in Worker : \/ /\ mine'[v] = mine[v] /\ step'[v] = step[v]
                             /\ v[1] # t \/ s = "cancelled" \/ step[v] = "off"
                          \/ mine'[v] = NoProject /\ step'[v] = "off"
    BY <1>2, <1>5
  <2> HIDE DEF s, state, t
  <2>7. t \in Tasks
    BY <1>3 DEF t
  <2>8. QED
    BY <1>2, <1>4, <1>6, <2>1, <2>2, <2>3, <2>4, <2>5, <2>6, <2>7, LetGoOnce
<1>8. CASE ~Recoverable(r)
  <2>1. StoreCalm
    BY <1>1, <1>2, <1>8 DEF StoreCalm, projectVars, ownerVars
  <2>2. QED
    BY <1>2, <1>4, <1>6, <2>1, Onlooker
<1>9. QED
  BY <1>7, <1>8

LEMMA ClaimOnce ==
  ASSUME TInv, SInv, UInv, OneProcess, NEW d \in Dispatchers, NEW t \in Tasks, Claim(d, t)
  PROVE  UInv'
<1> DEFINE w == <<t, attempt[t] + 1>>
<1>1. /\ stage[d] = "claim" /\ status[t] = "queued"
      /\ attempt' = [attempt EXCEPT ![t] = attempt[t] + 1]
      /\ token' = [token EXCEPT ![t] = attempt[t] + 1]
      /\ batch' = [batch EXCEPT ![d] = @ \cup {w}] /\ step' = [step EXCEPT ![w] = "begin"]
      /\ status' = [status EXCEPT ![t] = "downloading"]
      /\ UNCHANGED <<link, project, files, renamed, edits, stage, seen, mine>>
  BY DEF Claim, Claimable, projectVars, ownerVars
<1>2. /\ TypeOK /\ \A v \in Worker : v[1] \in Tasks /\ v[2] \in Nat
      /\ \A v \in Worker : step[v] # "off" => status[v[1]] \in Leased \cup {"cancelled"}
  BY Known
<1>3. w \in Worker
  <2>1. attempt[t] + 1 \in 1..MaxAttempts
    BY <1>1, <1>2 DEF TInv, AttemptsLeft, TypeOK
  <2>2. QED
    BY <2>1 DEF Worker
<1>4. mine[w] = NoProject
  BY <1>2, <1>3 DEF SInv, Fresh, TypeOK
<1>5. \A v \in Worker : v[1] = t => step[v] = "off" /\ mine[v] = NoProject
  BY <1>1, <1>2 DEF UInv, WorkerOK, Leased
<1>6. /\ step'[w] = "begin" /\ \A v \in Worker \ {w} : step'[v] = step[v]
      /\ status'[t] = "downloading" /\ attempt'[t] = w[2] /\ token'[t] = w[2]
      /\ \A u \in Tasks \ {t} : /\ status'[u] = status[u] /\ attempt'[u] = attempt[u]
                                /\ token'[u] = token[u]
      /\ w \in batch'[d] /\ \A e \in Dispatchers : batch[e] \subseteq batch'[e]
      /\ \A e \in Dispatchers \ {d} : batch'[e] = batch[e]
  BY <1>1, <1>2, <1>3 DEF TypeOK
<1>7. w[1] = t
  OBVIOUS
<1> HIDE DEF w
<1>8. SweepsAlone'
  <2>1. \A v \in Worker : step'[v] # "off" => \E e \in Dispatchers : v \in batch'[e]
    <3>1. TAKE v \in Worker
    <3>2. CASE v = w
      BY <1>6, <3>2
    <3>3. CASE v # w
      BY <1>6, <3>3 DEF UInv, SweepsAlone
    <3>4. QED
      BY <3>2, <3>3
  <2>2. QED
    BY <1>1, <1>6, <2>1 DEF UInv, SweepsAlone
<1>9. SeenTrue'
  <2>1. \A e \in Dispatchers : seen[e] = {}
    BY <1>1 DEF OneProcess, UInv, SweepsAlone
  <2>2. QED
    BY <1>1, <2>1 DEF SeenTrue
<1>10. /\ Traceable' /\ ContentsOnce' /\ \A p \in Worker : Untouched(p)' => files'[p] \in {0, 1}
       /\ \A p \in renamed' : "renamed" \in edits'[p]
  <2>1. \A u \in Tasks : /\ status'[u] = "failed" => status[u] = "failed"
                         /\ status[u] = "cancelled" => status'[u] = "cancelled"
    BY <1>1, <1>6
  <2>2. QED
    BY <1>1, <1>2, <2>1 DEF UInv, Traceable, ContentsOnce, Shown, Untouched
<1>11. ASSUME NEW v \in Worker PROVE WorkerOK(v)'
  <2>1. WorkerOK(v)
    BY DEF UInv
  <2>2. CASE v = w
    <3>1. Holds(v)'
      BY <1>6, <1>7, <2>2 DEF Holds, Leased
    <3>2. QED
      BY <1>1, <1>4, <1>6, <1>7, <2>2, <3>1 DEF WorkerOK, Untouched
  <2>3. CASE v # w /\ v[1] = t
    <3>1. step'[v] = "off" /\ mine'[v] = NoProject
      BY <1>1, <1>5, <1>6, <2>3
    <3>2. QED
      BY <3>1 DEF WorkerOK
  <2>4. CASE v # w /\ v[1] # t
    <3>1. Holds(v)' <=> Holds(v)
      BY <1>2, <1>6, <2>4 DEF Holds
    <3>2. /\ status'[v[1]] = status[v[1]] /\ attempt'[v[1]] = attempt[v[1]]
          /\ step'[v] = step[v] /\ mine'[v] = mine[v]
      BY <1>1, <1>2, <1>6, <2>4
    <3>3. QED
      BY <1>1, <2>1, <3>1, <3>2 DEF WorkerOK, Untouched
  <2>5. QED
    BY <2>2, <2>3, <2>4
<1>12. QED
  BY <1>8, <1>9, <1>10, <1>11 DEF UInv

LEMMA SweepOnce ==
  ASSUME TInv, SInv, UInv, NEW d \in Dispatchers, Sweep(d)
  PROVE  UInv'
<1>1. /\ stage[d] = "sweep" /\ stage' = [stage EXCEPT ![d] = "recover"]
      /\ seen' = [seen EXCEPT ![d] =
           {[task |-> t, token |-> token[t], link |-> link[t],
             state |-> Sees(link[t])] : t \in Due}]
      /\ UNCHANGED <<status, attempt, token, link, project, files, renamed, edits, batch, step, mine>>
  BY DEF Sweep, rowVars, projectVars, ownerVars, workVars
<1>2. TypeOK
  BY DEF TInv
<1>3. /\ stage'[d] = "recover" /\ \A e \in Dispatchers \ {d} : stage'[e] = stage[e] /\ seen'[e] = seen[e]
      /\ \A r \in seen'[d] : r.link = link[r.task] /\ r.state = Sees(r.link) /\ r.link \in Link
  BY <1>1, <1>2 DEF TypeOK, Due
<1>4. SweepsAlone'
  BY <1>1, <1>3 DEF UInv, SweepsAlone
<1>5. SeenTrue'
  <2> SUFFICES ASSUME NEW e \in Dispatchers, NEW r \in seen'[e], status'[r.task] \in Leased
               PROVE  /\ r.link = link'[r.task]
                      /\ r.link # NoProject => SeesRight(r.link, r.state)'
    BY DEF SeenTrue
  <2>1. CASE e = d
    <3>1. r.link \in Worker => SeesRight(r.link, r.state)
      BY <1>3, <2>1, SeesNow
    <3>2. QED
      BY <1>1, <1>3, <2>1, <3>1 DEF Link, SeesRight
  <2>2. CASE e # d
    BY <1>1, <1>3, <2>2 DEF UInv, SeenTrue, SeesRight
  <2>3. QED
    BY <2>1, <2>2
<1>6. /\ Traceable' /\ ContentsOnce' /\ \A p \in Worker : Untouched(p)' => files'[p] \in {0, 1}
      /\ \A p \in renamed' : "renamed" \in edits'[p]
  BY <1>1 DEF UInv, Traceable, ContentsOnce, Shown, Untouched
<1>7. \A w \in Worker : WorkerOK(w)'
  BY <1>1 DEF UInv, WorkerOK, Untouched, Holds
<1>8. QED
  BY <1>4, <1>5, <1>6, <1>7 DEF UInv

LEMMA BeginOnce ==
  ASSUME TInv, SInv, UInv, TInv', NEW w \in Worker, Begin(w)
  PROVE  UInv'
<1> DEFINE p == link[w[1]]
<1>1. step[w] = "begin" /\ Holds(w)
  BY DEF Begin
<1>2. /\ TypeOK /\ w[1] \in Tasks /\ (p # NoProject => p \in Worker /\ p[1] = w[1])
      /\ WorkerOK(w) /\ \A q \in Worker : Untouched(q) => files[q] \in {0, 1}
  BY Known DEF UInv
<1>3. CASE p # NoProject /\ project[p] \in {"none", "deleted"}
  BY <1>1, <1>3, FailsOnce DEF Begin
<1>4. CASE p = NoProject \/ project[p] \notin {"none", "deleted"}
  <2>1. /\ UNCHANGED <<status, attempt, token, link, project, files, renamed, edits, batch, stage, seen>>
        /\ \/ p = NoProject /\ step' = [step EXCEPT ![w] = "download"] /\ mine' = mine
           \/ /\ p # NoProject /\ mine' = [mine EXCEPT ![w] = p]
              /\ step' = [step EXCEPT ![w] = IF files[p] > 0 THEN "finish" ELSE "download"]
    BY <1>4 DEF Begin, rowVars, projectVars, ownerVars, procVars
  <2>2. StoreCalm
    BY <2>1 DEF StoreCalm
  <2>3. /\ mine'[w] = p /\ step'[w] \in {"download", "finish"} /\ (step'[w] = "finish" => p # NoProject /\ files[p] > 0)
        /\ \A v \in Worker \ {w} : step'[v] = step[v] /\ mine'[v] = mine[v]
    BY <1>1, <1>2, <2>1 DEF TypeOK, WorkerOK
  <2>4. WorkerOK(w)'
    <3>1. Holds(w)'
      BY <1>1, <2>1 DEF Holds
    <3>2. step'[w] = "finish" /\ Untouched(p) => files'[p] = 1
      BY <1>2, <2>1, <2>3
    <3>3. QED
      BY <1>1, <1>2, <2>1, <2>3, <3>1, <3>2 DEF WorkerOK, Untouched
  <2>5. QED
    BY <1>1, <2>1, <2>2, <2>3, <2>4, MovesOn
<1>5. QED
  BY <1>3, <1>4

LEMMA WorkOnce ==
  ASSUME TInv, SInv, UInv, NEW w \in Worker, Download(w) \/ Scan(w) \/ Made(w)
  PROVE  UInv'
<1>1. /\ step[w] \in {"download", "scan", "made"} /\ Holds(w)
      /\ UNCHANGED <<attempt, token, link, project, files, renamed, edits, batch, stage, seen, mine>>
  BY DEF Download, Scan, Made, GoesTo, rowVars, projectVars, ownerVars, procVars
<1>2. /\ TypeOK /\ w[1] \in Tasks /\ WorkerOK(w) /\ (mine[w] # NoProject => mine[w] \in Worker)
      /\ \A q \in Worker : Untouched(q) => files[q] \in {0, 1}
  BY Known DEF UInv
<1>3. StoreCalm
  <2>1. status' = status \/ \E y \in {"scanning", "ingesting"} : status' = [status EXCEPT ![w[1]] = y]
    BY DEF Download, Scan, Made, rowVars
  <2>2. \A t \in Tasks : status'[t] = status[t] \/ {status[t], status'[t]} \subseteq Leased
    BY <1>1, <1>2, <2>1 DEF TypeOK, Holds, Leased
  <2>3. QED
    BY <1>1, <2>2 DEF StoreCalm
<1>4. /\ \/ step'[w] = "scan"
         \/ step'[w] = "make" /\ mine[w] = NoProject
         \/ step'[w] = "made" /\ mine[w] # NoProject
         \/ step'[w] = "finish" /\ files[mine[w]] > 0 /\ mine[w] # NoProject
         \/ step'[w] = "ingest" /\ ~(files[mine[w]] > 0) /\ mine[w] # NoProject
      /\ \A v \in Worker \ {w} : step'[v] = step[v] /\ mine'[v] = mine[v]
  BY <1>1, <1>2 DEF Download, Scan, Made, GoesTo, TypeOK, SInv, Placed
<1>5. WorkerOK(w)'
  <2>1. Holds(w)'
    <3>1. status'[w[1]] \in Leased
      BY <1>1, <1>2, <1>3 DEF Holds, StoreCalm, Leased
    <3>2. QED
      BY <1>1, <3>1 DEF Holds
  <2>2. mine[w] # NoProject /\ Untouched(mine[w]) => files[mine[w]] \in {0, 1}
    BY <1>2
  <2>3. /\ step'[w] = "ingest" /\ Untouched(mine[w]) => files[mine[w]] = 0
        /\ step'[w] = "finish" /\ Untouched(mine[w]) => files[mine[w]] = 1
    BY <1>4, <2>2
  <2>4. QED
    BY <1>1, <1>2, <1>4, <2>1, <2>3 DEF WorkerOK, Untouched
<1>6. QED
  BY <1>1, <1>3, <1>4, <1>5, MovesOn

(* The owner and a project: its status never becomes importing, its files   *)
(* change only as noted, and what is noted stays.                           *)
LEMMA OwnerOnce ==
  ASSUME TInv, TInv', SInv, UInv, NEW p \in Worker,
         DeleteProject(p) \/ UpdateStatus(p) \/ Rename(p) \/ EditFiles(p)
  PROVE  UInv'
<1>1. UNCHANGED <<status, attempt, token, link, batch, stage, seen, step, mine>>
  BY DEF DeleteProject, UpdateStatus, Rename, EditFiles, rowVars, procVars, workVars
<1>2. /\ TypeOK /\ \A v \in Worker : v[1] \in Tasks /\ v[2] \in Nat
      /\ \A u \in Tasks : link[u] # NoProject => link[u] \in Worker /\ link[u][1] = u
      /\ \A v \in Worker : mine[v] # NoProject => mine[v] \in Worker
  BY Known
<1>3. \A q \in Worker : edits[q] \subseteq edits'[q]
  BY <1>2 DEF DeleteProject, UpdateStatus, Rename, EditFiles, Noted, TypeOK
<1>4. \A q \in Worker : \/ project'[q] = project[q]
                        \/ project[q] # "none" /\ project'[q] \in {"active", "archived", "deleted"}
  <2>1. \/ project' = project
        \/ /\ project[p] # "none"
           /\ \E s \in {"active", "archived", "deleted"} : project' = [project EXCEPT ![p] = s]
    BY DEF DeleteProject, UpdateStatus, Rename, EditFiles, Visible
  <2>2. QED
    BY <1>2, <2>1 DEF TypeOK
<1>5. \A q \in Worker : q \in Shown' /\ "opened" \notin edits'[q] => q \in Shown
  <2>1. CASE UpdateStatus(p)
    <3>1. \A q \in Worker \ {p} : project'[q] = project[q]
      BY <1>2, <2>1 DEF UpdateStatus, TypeOK
    <3>2. "opened" \notin edits'[p] => project[p] \notin {"none", "importing", "deleted"}
      BY <1>2, <2>1 DEF UpdateStatus, Noted, TypeOK
    <3>3. project[p] \in ProjectStatus
      BY <1>2 DEF TypeOK
    <3>4. QED
      BY <3>1, <3>2, <3>3 DEF Shown, ProjectStatus, Visible
  <2>2. CASE DeleteProject(p)
    BY <1>2, <2>2 DEF DeleteProject, Shown, TypeOK
  <2>3. CASE Rename(p) \/ EditFiles(p)
    BY <2>3 DEF Rename, EditFiles, Shown
  <2>4. QED
    BY <2>1, <2>2, <2>3
<1>6. \A q \in Worker : files'[q] = files[q] \/ ("files" \in edits'[q] /\ project[q] # "none")
  <2>1. CASE EditFiles(p)
    BY <1>2, <2>1 DEF EditFiles, Noted, Visible, TypeOK
  <2>2. CASE ~EditFiles(p)
    BY <2>2 DEF DeleteProject, UpdateStatus, Rename
  <2>3. QED
    BY <2>1, <2>2
<1>7. \A q \in renamed' : "renamed" \in edits'[q]
  <2>1. TypeOK' /\ \A q \in renamed : "renamed" \in edits[q]
    BY DEF TInv, UInv
  <2>2. CASE Rename(p)
    <3>1. "renamed" \in edits'[p] /\ renamed' \subseteq renamed \cup {p}
      BY <1>2, <2>2 DEF Rename, Noted, TypeOK
    <3>2. QED
      BY <1>2, <1>3, <2>1, <3>1 DEF TypeOK
  <2>3. CASE ~Rename(p)
    <3>1. renamed' = renamed
      BY <2>3 DEF DeleteProject, UpdateStatus, EditFiles
    <3>2. QED
      BY <1>2, <1>3, <2>1, <3>1 DEF TypeOK
  <2>4. QED
    BY <2>2, <2>3
<1>8. SweepsAlone'
  BY <1>1 DEF UInv, SweepsAlone
<1>9. Traceable'
  BY <1>1, <1>2, <1>3, <1>4, <1>6 DEF UInv, Traceable
<1>10. SeenTrue'
  <2> SUFFICES ASSUME NEW e \in Dispatchers, NEW r \in seen'[e], status'[r.task] \in Leased
               PROVE  /\ r.link = link'[r.task]
                      /\ r.link # NoProject => SeesRight(r.link, r.state)'
    BY DEF SeenTrue
  <2>1. /\ r.link = link[r.task] /\ r.task \in Tasks
        /\ r.link # NoProject => SeesRight(r.link, r.state)
    BY <1>1, <1>2 DEF UInv, SeenTrue, TypeOK, SeenRow
  <2>2. QED
    BY <1>1, <1>2, <1>3, <1>4, <2>1 DEF SeesRight
<1>11. ContentsOnce' /\ \A q \in Worker : Untouched(q)' => files'[q] \in {0, 1}
  BY <1>3, <1>5, <1>6 DEF UInv, ContentsOnce, Shown, Untouched
<1>12. ASSUME NEW w \in Worker PROVE WorkerOK(w)'
  <2>1. WorkerOK(w) /\ (Holds(w)' <=> Holds(w))
    BY <1>1 DEF UInv, Holds
  <2>2. mine[w] # NoProject /\ Untouched(mine[w])' => Untouched(mine[w]) /\ files'[mine[w]] = files[mine[w]]
    BY <1>1, <1>2, <1>3, <1>6 DEF Untouched
  <2>3. step[w] \in {"ingest", "finish"} => mine[w] # NoProject
    BY DEF SInv, Placed
  <2>4. QED
    BY <1>1, <2>1, <2>2, <2>3 DEF WorkerOK
<1>13. QED
  BY <1>7, <1>8, <1>9, <1>10, <1>11, <1>12 DEF UInv

(* Every step of the one process, its workers, the owner and the clock.     *)
LEMMA OnceStep ==
  ASSUME OneProcess, TInv, TInv', SInv, UInv, [Next]_vars
  PROVE  UInv'
<1>1. ASSUME NEW t \in Tasks, Create(t) \/ LeaseLapses(t) \/ DelayEnds(t) PROVE UInv'
  <2>1. /\ UNCHANGED <<attempt, token, link, project, files, renamed, edits, batch, stage, seen, step, mine>>
        /\ \/ status' = status
           \/ status[t] = "new" /\ status' = [status EXCEPT ![t] = "queued"]
    BY <1>1 DEF Create, LeaseLapses, DelayEnds, projectVars, ownerVars, procVars, workVars
  <2>2. StoreCalm /\ SweepsAlone'
    BY <2>1 DEF TInv, TypeOK, StoreCalm, UInv, SweepsAlone
  <2>3. QED
    BY <2>1, <2>2, Onlooker
<1>2. ASSUME NEW t \in Tasks, Cancel(t) PROVE UInv'
  BY <1>2, CancelOnce
<1>3. ASSUME NEW w \in Worker, NEW retryable \in BOOLEAN, Break(w, retryable) PROVE UInv'
  BY <1>3, FailsOnce DEF Break
<1>4. ASSUME NEW w \in Worker, Begin(w) PROVE UInv'
  BY <1>4, BeginOnce
<1>5. ASSUME NEW w \in Worker, Download(w) \/ Scan(w) \/ Made(w) PROVE UInv'
  BY <1>5, WorkOnce
<1>6. ASSUME NEW w \in Worker, Make(w) PROVE UInv'
  BY <1>6, MakeOnce
<1>7. ASSUME NEW w \in Worker, Ingest(w) PROVE UInv'
  BY <1>7, IngestOnce
<1>8. ASSUME NEW w \in Worker, Finish(w) PROVE UInv'
  BY <1>8, FinishOnce
<1>9. ASSUME NEW w \in Worker, Heartbeat(w) PROVE UInv'
  <2>1. UNCHANGED <<status, attempt, token, link, project, files, renamed, edits, batch, stage, seen, step, mine>>
    BY <1>9 DEF Heartbeat, projectVars, ownerVars, procVars, workVars
  <2>2. StoreCalm /\ SweepsAlone'
    BY <2>1 DEF StoreCalm, UInv, SweepsAlone
  <2>3. QED
    BY <2>1, <2>2, Onlooker
<1>10. ASSUME NEW p \in Worker, DeleteProject(p) \/ UpdateStatus(p) \/ Rename(p) \/ EditFiles(p) PROVE UInv'
  BY <1>10, OwnerOnce
<1>11. ASSUME NEW d \in Dispatchers, Sweep(d) PROVE UInv'
  BY <1>11, SweepOnce
<1>12. ASSUME NEW d \in Dispatchers, Recover(d) PROVE UInv'
  BY <1>12, RecoverOnce
<1>13. ASSUME NEW d \in Dispatchers, Recovered(d) \/ Claimed(d) \/ Joined(d) PROVE UInv'
  <2>1. /\ UNCHANGED <<status, attempt, token, link, project, files, renamed, edits, batch, seen, step, mine>>
        /\ \/ stage[d] = "recover" /\ seen[d] = {} /\ stage' = [stage EXCEPT ![d] = "claim"]
           \/ stage[d] = "claim" /\ stage' = [stage EXCEPT ![d] = "wait"]
           \/ stage[d] = "wait" /\ batch[d] = {} /\ stage' = [stage EXCEPT ![d] = "sweep"]
    BY <1>13 DEF Recovered, Claimed, Joined, rowVars, projectVars, ownerVars, workVars
  <2>2. \A e \in Dispatchers \ {d} : stage'[e] = stage[e]
    BY <2>1 DEF TInv, TypeOK
  <2>3. stage'[d] # "recover" /\ seen[d] = {} /\ (stage'[d] = "sweep" => batch[d] = {})
    BY <2>1 DEF TInv, TypeOK, UInv, SweepsAlone
  <2>4. StoreCalm /\ SweepsAlone'
    BY <2>1, <2>2, <2>3 DEF StoreCalm, UInv, SweepsAlone
  <2>5. QED
    BY <2>1, <2>4, Onlooker
<1>14. ASSUME NEW d \in Dispatchers, NEW t \in Tasks, Claim(d, t) PROVE UInv'
  BY <1>14, ClaimOnce
<1>15. ASSUME NEW d \in Dispatchers, Crash(d) PROVE UInv'
  <2>1. /\ UNCHANGED <<status, attempt, token, link, project, files, renamed, edits>>
        /\ step' = [w \in Worker |-> IF w \in batch[d] THEN "off" ELSE step[w]]
        /\ mine' = [w \in Worker |-> IF w \in batch[d] THEN NoProject ELSE mine[w]]
        /\ batch' = [batch EXCEPT ![d] = {}] /\ stage' = [stage EXCEPT ![d] = "sweep"]
        /\ seen' = [seen EXCEPT ![d] = {}]
    BY <1>15 DEF Crash, rowVars, projectVars, ownerVars
  <2>2. /\ batch'[d] = {} /\ seen'[d] = {} /\ stage'[d] = "sweep"
        /\ \A e \in Dispatchers \ {d} : batch'[e] = batch[e] /\ seen'[e] = seen[e] /\ stage'[e] = stage[e]
    BY <2>1 DEF TInv, TypeOK
  <2>3. \A w \in Worker : \/ step'[w] = step[w] /\ mine'[w] = mine[w] /\ w \notin batch[d]
                          \/ step'[w] = "off" /\ mine'[w] = NoProject
    BY <2>1
  <2>4. StoreCalm
    BY <2>1 DEF StoreCalm
  <2>5. SweepsAlone'
    BY <2>2, <2>3 DEF UInv, SweepsAlone
  <2>6. \A e \in Dispatchers : seen'[e] \subseteq seen[e]
    BY <2>2
  <2>7. QED
    BY <2>3, <2>4, <2>5, <2>6, Onlooker
<1>16. CASE UNCHANGED vars
  <2>1. UNCHANGED <<status, attempt, token, link, project, files, renamed, edits, batch, stage, seen, step, mine>>
    BY <1>16 DEF vars, rowVars, projectVars, ownerVars, procVars, workVars
  <2>2. StoreCalm /\ SweepsAlone'
    BY <2>1 DEF StoreCalm, UInv, SweepsAlone
  <2>3. QED
    BY <2>1, <2>2, Onlooker
<1>17. QED
  BY <1>1, <1>2, <1>3, <1>4, <1>5, <1>6, <1>7, <1>8, <1>9, <1>10, <1>11, <1>12, <1>13, <1>14,
     <1>15, <1>16 DEF Next, WorkerStep, Dispatch

LEMMA OnceInit == Init => UInv
  BY DEF Init, UInv, SweepsAlone, WorkerOK, Traceable, SeenTrue, ContentsOnce, Shown

\* A worker of the one process has the lease, or its task was cancelled.
LEMMA OnceInvariance == ASSUME OneProcess PROVE Spec => [](SInv /\ UInv)
<1>1. UInv => MakesInTime
  BY DEF UInv, WorkerOK, MakesInTime, Holds, Leased
<1>2. TInv /\ TInv' /\ SInv /\ UInv /\ [Next]_vars => SInv' /\ UInv'
  BY <1>1, SafeStep, OnceStep
<1>3. QED
  BY <1>2, OnceInit, SafeInit, TypeInvariance, PTL DEF Spec

-----------------------------------------------------------------------------
(* Any number of processes, and an owner who renames nothing: the name that *)
(* the first worker has taken stops all others.                             *)
LEMMA NamesStay ==
  ASSUME "rename" \notin OwnerMay
  PROVE  Spec => [](SInv /\ renamed = {})
<1>1. TInv /\ SInv /\ renamed = {} => MakesInTime
  <2> SUFFICES ASSUME TInv, SInv, renamed = {}, ~NameTaken, ~NameBurnt, NEW t \in Tasks, status[t] = "succeeded"
               PROVE  FALSE
    BY DEF MakesInTime, Worker
  <2>1. link[t] \in Worker /\ project[link[t]] \in {"active", "archived", "deleted"}
    BY DEF TInv, TypeOK, Link, SInv, SucceededKeepsProject
  <2>2. QED
    BY <2>1 DEF NameTaken, NameBurnt, Visible
<1>2. renamed = {} /\ [Next]_vars => (renamed = {})'
  BY OthersRenameNothing DEF ownerVars, DeleteProject, UpdateStatus, Rename, EditFiles
<1>3. TInv /\ TInv' /\ SInv /\ renamed = {} /\ [Next]_vars => SInv' /\ (renamed = {})'
  BY <1>1, <1>2, SafeStep
<1>4. Init => renamed = {}
  BY DEF Init
<1>5. QED
  BY <1>3, <1>4, SafeInit, TypeInvariance, PTL DEF Spec

LEMMA Safety == ASSUME OneProcess \/ "rename" \notin OwnerMay PROVE Spec => []SInv
<1>1. CASE OneProcess
  <2>1. Spec => [](SInv /\ UInv)
    BY <1>1, OnceInvariance
  <2>2. QED
    BY <2>1, PTL
<1>2. CASE "rename" \notin OwnerMay
  <2>1. Spec => [](SInv /\ renamed = {})
    BY <1>2, NamesStay
  <2>2. QED
    BY <2>1, PTL
<1>3. QED
  BY <1>1, <1>2

(* Nothing half imported is opened but by its owner: with one process,      *)
(* whatever he does to the project meanwhile; with any number of processes  *)
(* whose workers come late, if he does not rename it.                       *)
THEOREM ActiveIsAlwaysEarned ==
  ASSUME OneProcess \/ "rename" \notin OwnerMay PROVE Spec => []ActiveIsEarned
<1>1. SInv => ActiveIsEarned
  BY DEF SInv
<1>2. Spec => []SInv
  BY Safety
<1>3. QED
  BY <1>1, <1>2, PTL

(* The project of an import that succeeded is never cleaned up or replaced, *)
(* on the same terms.                                                       *)
THEOREM SuccessStays ==
  ASSUME OneProcess \/ "rename" \notin OwnerMay PROVE Spec => []SucceededKeepsProject
<1>1. SInv => SucceededKeepsProject
  BY DEF SInv
<1>2. Spec => []SInv
  BY Safety
<1>3. QED
  BY <1>1, <1>2, PTL

(* With one dispatcher process an active project holds the contents of its  *)
(* archive exactly once, whatever attempts fail, crash or are repeated, if  *)
(* its owner neither opened it early nor put or took files himself.         *)
THEOREM StoredOnce == ASSUME OneProcess PROVE Spec => []ContentsOnce
<1>1. UInv => ContentsOnce
  BY DEF UInv
<1>2. QED
  BY <1>1, OnceInvariance, PTL

(* With one dispatcher process an import that failed leaves no project that *)
(* is half imported, and no contents of one that is gone, but for projects  *)
(* that their owner had renamed.                                            *)
THEOREM FailureLeavesNothing == ASSUME OneProcess PROVE Spec => []FailedIsClean
<1>1. TInv /\ SInv /\ UInv => FailedIsClean
  <2> SUFFICES ASSUME TInv, SInv, UInv, NEW t \in Tasks, status[t] = "failed", NEW p \in Worker, p[1] = t,
                      project[p] = "importing" \/ (project[p] = "none" /\ files[p] > 0)
               PROVE  "renamed" \in edits[p]
    BY DEF FailedIsClean, Leftovers
  <2>1. CASE project[p] = "importing"
    <3>1. link[t] = p
      BY <2>1 DEF UInv, Traceable
    <3>2. QED
      BY <2>1, <3>1, WorkerIsProject DEF UInv, Traceable
  <2>2. CASE project[p] = "none" /\ files[p] > 0
    BY <2>2 DEF UInv, Traceable
  <2>3. QED
    BY <2>1, <2>2
<1>2. QED
  BY <1>1, OnceInvariance, TypeInvariance, PTL

-----------------------------------------------------------------------------
(* The refinement.  Other than a claim, a step changes at most one row: it  *)
(* ends it, gives a leased one back, or moves on with what it does.         *)
Moves(x, y) ==
  \/ y \in Ended
  \/ x \in Leased
  \/ x \in {"new", "queued"} /\ y \in {"new", "queued"}

RowMoves(t) ==
  \E y \in Status : Moves(status[t], y) /\ status' = [status EXCEPT ![t] = y]

LEMMA FailMoves ==
  ASSUME TypeOK, NEW w \in Worker, NEW retryable \in BOOLEAN, Fails(w, retryable)
  PROVE  attempt' = attempt /\ (status' = status \/ RowMoves(w[1]))
<1>1. CASE Holds(w)
  <2>1. PICK y \in {"queued", "failed"} : status' = [status EXCEPT ![w[1]] = y]
    BY <1>1 DEF Fails
  <2>2. y \in Status /\ Moves(status[w[1]], y)
    BY <1>1, <2>1 DEF Holds, Moves, Status, Ended
  <2>3. QED
    BY <2>1, <2>2 DEF Fails, RowMoves
<1>2. CASE ~Holds(w)
  BY <1>2 DEF Fails
<1>3. QED
  BY <1>1, <1>2

LEMMA RowSteps ==
  ASSUME TypeOK, [Next]_vars
  PROVE  \/ \E d \in Dispatchers, t \in Tasks : Claim(d, t)
         \/ attempt' = attempt /\ (status' = status \/ \E t \in Tasks : RowMoves(t))
<1> DEFINE Goal == attempt' = attempt /\ (status' = status \/ \E t \in Tasks : RowMoves(t))
<1>a. \A w \in Worker : w[1] \in Tasks
  BY DEF Worker
<1>b. ASSUME NEW w \in Worker, NEW retryable \in BOOLEAN, Fails(w, retryable) PROVE Goal
  BY <1>a, <1>b, FailMoves
<1>1. ASSUME NEW t \in Tasks, Create(t) \/ Cancel(t) PROVE Goal
  <2>1. PICK y \in {"queued", "cancelled"} :
          Moves(status[t], y) /\ status' = [status EXCEPT ![t] = y]
    BY <1>1 DEF Create, Cancel, Moves, Ended
  <2>2. attempt' = attempt /\ y \in Status
    BY <1>1 DEF Create, Cancel, Status, Ended
  <2>3. QED
    BY <2>1, <2>2 DEF RowMoves
<1>2. ASSUME NEW t \in Tasks, LeaseLapses(t) \/ DelayEnds(t) PROVE Goal
  BY <1>2 DEF LeaseLapses, DelayEnds
<1>3. ASSUME NEW w \in Worker, Download(w) \/ Scan(w) \/ Finish(w) PROVE Goal
  <2>1. PICK y \in {"scanning", "ingesting", "succeeded"} : status' = [status EXCEPT ![w[1]] = y]
    BY <1>3 DEF Download, Scan, Finish
  <2>2. attempt' = attempt /\ status[w[1]] \in Leased
    BY <1>3 DEF Download, Scan, Finish, Holds
  <2>3. Moves(status[w[1]], y) /\ y \in Status
    BY <2>2 DEF Moves, Status, Leased, Ended
  <2>4. QED
    BY <1>a, <2>1, <2>2, <2>3 DEF RowMoves
<1>4. ASSUME NEW w \in Worker, Begin(w) \/ Make(w) \/ Made(w) \/ Ingest(w) PROVE Goal
  <2>1. (\E retryable \in BOOLEAN : Fails(w, retryable)) \/ UNCHANGED <<status, attempt>>
    BY <1>4 DEF Begin, Make, Made, Ingest, rowVars
  <2>2. QED
    BY <1>b, <2>1
<1>5. ASSUME NEW w \in Worker, NEW retryable \in BOOLEAN, Break(w, retryable) PROVE Goal
  BY <1>b, <1>5 DEF Break
<1>6. ASSUME NEW w \in Worker,
             \/ Heartbeat(w)
             \/ DeleteProject(w) \/ UpdateStatus(w) \/ Rename(w) \/ EditFiles(w)
      PROVE  Goal
  BY <1>6 DEF Heartbeat, DeleteProject, UpdateStatus, Rename, EditFiles, rowVars
<1>7. ASSUME NEW d \in Dispatchers, Recover(d) PROVE Goal
  <2>1. PICK r \in seen[d] :
          IF Recoverable(r)
            THEN status' = [status EXCEPT ![r.task] = IF Exhausted(r.task) THEN "failed" ELSE "queued"]
            ELSE UNCHANGED status
    BY <1>7 DEF Recover
  <2>2. r.task \in Tasks /\ attempt' = attempt
    BY <1>7, <2>1 DEF Recover, TypeOK, SeenRow
  <2>3. CASE Recoverable(r)
    <3>1. PICK y \in {"failed", "queued"} : status' = [status EXCEPT ![r.task] = y]
      BY <2>1, <2>3
    <3>2. Moves(status[r.task], y) /\ y \in Status
      BY <2>3 DEF Recoverable, Moves, Status, Ended
    <3>3. QED
      BY <2>2, <3>1, <3>2 DEF RowMoves
  <2>4. QED
    BY <2>1, <2>2, <2>3
<1>8. ASSUME NEW d \in Dispatchers, Sweep(d) \/ Recovered(d) \/ Claimed(d) \/ Joined(d) \/ Crash(d) PROVE Goal
  BY <1>8 DEF Sweep, Recovered, Claimed, Joined, Crash, rowVars
<1>9. CASE UNCHANGED vars
  BY <1>9 DEF vars, rowVars
<1>10. QED
  BY <1>1, <1>2, <1>3, <1>4, <1>5, <1>6, <1>7, <1>8, <1>9 DEF Next, WorkerStep, Dispatch

(* What the board shows when a row moves.                                   *)
LEMMA MoveIsShown ==
  ASSUME TypeOK, NEW t \in Tasks, RowMoves(t), attempt' = attempt
  PROVE  Board!TakeOff \/ Board!GiveBack(t) \/ UNCHANGED Watched
<1> DEFINE Shows(x) == IF x \in Leased THEN "lent" ELSE IF x \in Ended THEN "done" ELSE "offered"
<1>1. PICK y \in Status : Moves(status[t], y) /\ status' = [status EXCEPT ![t] = y]
  BY DEF RowMoves
<1>2. Watched = [u \in Tasks |-> Shows(status[u])] /\ Watched' = [u \in Tasks |-> Shows(status[u])']
  BY DEF Watched
<1>3. /\ Watched'[t] = Shows(y) /\ Watched[t] = Shows(status[t])
      /\ \A u \in Tasks \ {t} : Watched'[u] = Watched[u]
  BY <1>1, <1>2 DEF TypeOK
<1>4. Watched' \in [Tasks -> {"offered", "lent", "done"}]
  BY <1>2
<1>5. CASE y \in Ended
  <2>1. Watched'[t] = "done"
    BY <1>3, <1>5 DEF Leased, Ended
  <2>2. QED
    BY <1>3, <1>4, <2>1 DEF Board!TakeOff, Board!MayClose, Board!OnlyEnds
<1>6. CASE y \notin Ended /\ status[t] \in Leased
  <2>1. CASE y \in Leased
    BY <1>2, <1>3, <1>6, <2>1
  <2>2. CASE y \notin Leased
    <3>1. Watched[t] = "lent" /\ Watched'[t] = "offered"
      BY <1>3, <1>6, <2>2
    <3>2. QED
      BY <1>3, <1>4, <3>1 DEF Board!GiveBack, Board!MayClose, Board!OnlyEnds
  <2>3. QED
    BY <2>1, <2>2
<1>7. CASE y \notin Ended /\ status[t] \notin Leased
  <2>1. {status[t], y} \subseteq {"new", "queued"}
    BY <1>1, <1>7 DEF Moves
  <2>2. Watched'[t] = Watched[t]
    BY <1>3, <2>1 DEF Leased, Ended
  <2>3. QED
    BY <1>2, <1>3, <2>2
<1>8. QED
  BY <1>5, <1>6, <1>7

(* The board counts as this module does.                                    *)
LEMMA SameCount == ASSUME NEW S PROVE Board!Cardinality(S) = Cardinality(S)
  BY DEF Board!Cardinality, Cardinality

LEMMA ClaimIsLoan ==
  ASSUME TypeOK, NEW d \in Dispatchers, NEW t \in Tasks, Claim(d, t)
  PROVE  Board!Lend(t)
<1>1. /\ status[t] = "queued" /\ status' = [status EXCEPT ![t] = "downloading"]
      /\ attempt' = [attempt EXCEPT ![t] = attempt[t] + 1]
  BY DEF Claim, Claimable
<1>2. /\ Watched[t] = "offered" /\ Watched'[t] = "lent"
      /\ \A u \in Tasks \ {t} : Watched'[u] = Watched[u]
      /\ Watched' \in [Tasks -> {"offered", "lent", "done"}]
  BY <1>1 DEF Watched, TypeOK, Leased, Ended
<1>3. Cardinality(Board!Lent) < Cardinality(Tasks)
  <2>1. Board!Lent \subseteq Tasks /\ Board!Lent # Tasks
    BY <1>2 DEF Board!Lent
  <2>2. IsFiniteSet(Tasks)
    OBVIOUS
  <2>3. Cardinality(Board!Lent) \in Nat /\ Cardinality(Tasks) \in Nat
        /\ Cardinality(Board!Lent) <= Cardinality(Tasks) /\ Cardinality(Board!Lent) # Cardinality(Tasks)
    BY <2>1, <2>2, FS_Subset, FS_CardinalityType
  <2>4. QED
    BY <2>3
<1>4. Board!OnlyEnds({t})
  BY <1>2 DEF Board!OnlyEnds
<1>5. attempt' = [attempt EXCEPT ![t] = @ + 1]
  BY <1>1
<1>6. QED
  BY <1>2, <1>3, <1>4, <1>5, SameCount DEF Board!Lend

LEMMA BoardStep == TypeOK /\ [Next]_vars => [Board!Next]_Board!bvars
<1> SUFFICES ASSUME TypeOK, [Next]_vars PROVE [Board!Next]_Board!bvars
  OBVIOUS
<1>1. ASSUME NEW d \in Dispatchers, NEW t \in Tasks, Claim(d, t) PROVE Board!Next
  BY <1>1, ClaimIsLoan DEF Board!Next
<1>2. ASSUME NEW t \in Tasks, RowMoves(t), attempt' = attempt PROVE [Board!Next]_Board!bvars
  BY <1>2, MoveIsShown DEF Board!Next, Board!bvars
<1>3. CASE UNCHANGED <<status, attempt>>
  BY <1>3 DEF Board!bvars, Watched
<1>4. QED
  BY <1>1, <1>2, <1>3, RowSteps

LEMMA BoardInit == Init => Board!Init
  BY DEF Init, Board!Init, Watched, Leased, Ended

(* The queue is a board of tasks: each is lent to one attempt at a time,    *)
(* ended ones are never lent again, whatever workers and recoveries do.     *)
THEOREM QueueIsBoard == Spec => ImplementsBoard
<1>1. QED
  BY BoardInit, BoardStep, ImportTypes, PTL DEF Spec, ImplementsBoard, Board!Spec
=============================================================================
