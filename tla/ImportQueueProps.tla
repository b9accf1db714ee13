-------------------------- MODULE ImportQueueProps --------------------------
(***************************************************************************)
(* What the import queue promises: to the owner of an import, and to those *)
(* who see the projects.                                                   *)
(***************************************************************************)
EXTENDS ImportQueue

SeenRow == [task : Tasks, token : 0..MaxAttempts, link : Link,
            state : ProjectStatus \cup {"foreign"}]

(* Rows, projects, workers and dispatchers keep their types.                *)
TypeOK ==
  /\ status \in [Tasks -> Status]
  /\ attempt \in [Tasks -> 0..MaxAttempts]
  /\ token \in [Tasks -> 0..MaxAttempts]
  /\ lapsed \subseteq Tasks /\ backoff \subseteq Tasks
  /\ link \in [Tasks -> Link]
  /\ project \in [Worker -> ProjectStatus]
  /\ files \in [Worker -> 0..2]
  /\ renamed \subseteq Worker
  /\ edits \in [Worker -> SUBSET Edit]
  /\ batch \in [Dispatchers -> SUBSET Worker]
  /\ stage \in [Dispatchers -> {"sweep", "recover", "claim", "wait"}]
  /\ seen \in [Dispatchers -> SUBSET SeenRow]
  /\ step \in [Worker -> Step]
  /\ mine \in [Worker -> Link]
  /\ crashes \in 0..MaxCrashes

Shown == {p \in Worker : project[p] \in {"active", "archived"}}

(* A project that is open, or was and is archived, belongs to an import     *)
(* that succeeded: nothing half imported is ever opened, whichever workers  *)
(* come late, unless its owner does so himself (update_project asks for no  *)
(* status).                                                                 *)
ActiveIsEarned ==
  \A p \in Shown : "opened" \notin edits[p] =>
    \E t \in Tasks : status[t] = "succeeded" /\ link[t] = p

(* An import that succeeded keeps its project until the owner deletes it:   *)
(* no clean-up of another attempt takes it, no late worker replaces it,     *)
(* whatever the owner did to the project while it was imported.             *)
SucceededKeepsProject ==
  \A t \in Tasks : status[t] = "succeeded" =>
    link[t] # NoProject /\ project[link[t]] \in {"active", "archived", "deleted"}

(* Such a project holds the contents of its archive, and holds them once,   *)
(* if the owner neither opened it early nor put files into it or took some  *)
(* away himself (_existing_result; true of one process, see README).        *)
ContentsOnce ==
  \A p \in Shown : edits[p] \cap {"opened", "files"} = {} => files[p] = 1

\* What task t has left in the tables that no project list shows as its own.
Leftovers(t) ==
  {p \in Worker : p[1] = t /\ (project[p] = "importing" \/ (project[p] = "none" /\ files[p] > 0))}

(* An import that failed leaves nothing behind (fail_import_task and        *)
(* recover_expired_leases clean up in the transaction that ends it), but    *)
(* for a project that its owner renamed: the clean-up takes it for another  *)
(* one and leaves it as it is.                                              *)
FailedIsClean ==
  \A t \in Tasks : status[t] = "failed" =>
    \A p \in Leftovers(t) : "renamed" \in edits[p]

-----------------------------------------------------------------------------
(* An import queue is a board of tasks, like an agent team: a task is lent  *)
(* to one attempt at a time and an ended one is never lent again.           *)
Watched == [t \in Tasks |-> IF status[t] \in Leased THEN "lent"
                            ELSE IF status[t] \in Ended THEN "done" ELSE "offered"]

Board == INSTANCE TaskBoard
           WITH Limit <- Cardinality(Tasks), board <- "open", round <- 0,
                work <- Watched, loans <- attempt

(* Every step of owners, dispatchers, workers and clock is a step of that   *)
(* board or one it does not show.                                           *)
ImplementsBoard == Board!Spec

-----------------------------------------------------------------------------
(* Fairness.  The scheduler starts dispatch_once again and again, workers   *)
(* end (downloads and scans have time limits), and the clock moves on.      *)
(* Nothing is assumed of the owner, of crashes or of what a worker finds.   *)
FairSpec ==
  /\ Spec
  /\ \A d \in Dispatchers : WF_vars(Dispatch(d))
  /\ \A w \in Worker : WF_vars(WorkerStep(w))
  /\ \A t \in Tasks : WF_vars(LeaseLapses(t)) /\ WF_vars(DelayEnds(t))

(* An import that was queued ends, whatever fails or crashes, although the  *)
(* dispatcher recovers leases only when its whole batch has returned.       *)
ImportEnds == \A t \in Tasks : status[t] = "queued" ~> status[t] \in Ended

-----------------------------------------------------------------------------
\* No worker of the task is left.
Idle(t) == \A w \in Worker : w[1] = t => step[w] = "off"

(* Acceptance of the repair: a cancellation before, during or after the     *)
(* contents are stored leaves nothing half imported.  Violated by a run of  *)
(* its own: see README.md.                                                  *)
CancelIsClean == \A t \in Tasks : status[t] = "cancelled" /\ Idle(t) => Leftovers(t) = {}
=============================================================================
