-------------------------- MODULE ResponseRunProps --------------------------
(***************************************************************************)
(* What a run promises: to the user who approves its calls and reads its   *)
(* transcript, and to the next round of the model.                         *)
(***************************************************************************)
EXTENDS ResponseRun

(* The row, its copies, the tool ledger and the approvals keep their types. *)
TypeOK ==
  /\ row \in Row /\ tail \in [Calls -> Evidence]
  /\ ledger \in [Calls -> {"none", "executing", "success", "failed"}]
  /\ approval \in [Calls -> {"none", "pending", "approved", "rejected"}]
  /\ effects \in [Calls -> 0..2]
  /\ pc \in [Drivers -> {"idle", "loop", "model", "exec", "pause", "begin", "effect", "commit",
                         "answered", "refuse", "refused", "salvage", "salvaging"}]
  /\ ck \in [Drivers -> Row]
  /\ call \in [Drivers -> Calls \cup {None}]
  /\ result \in [Drivers -> {"none"} \cup Outcome]
  /\ auto \subseteq Drivers /\ waking \in BOOLEAN
  /\ sweep \in Row /\ stopper \in {"idle", "asked", "done"} /\ rival \in BOOLEAN
  /\ mishaps \in 0..MaxMishaps

(* The operation of a call runs at most once, although a run is retried,    *)
(* recovered after a crash, or driven twice at the same time: the place in  *)
(* agent_tool_execution is taken before the operation and never again.      *)
AtMostOnce == \A c \in Calls : effects[c] <= 1

(* A call that needs approval runs only when it was approved, and stays     *)
(* approved: a rejection by another request comes too late to be believed,  *)
(* or early enough to prevent the call (_mark_approval).                    *)
OnlyApproved == \A c \in Guarded : effects[c] > 0 => approval[c] = "approved"

(* What the transcript calls a success has happened, once, and the ledger   *)
(* says so too; a call that was cut off is never taken for done.            *)
SuccessIsTrue ==
  \A c \in Calls : row.ev[c] = "success" => ledger[c] = "success" /\ effects[c] = 1

(* A completed run leaves no call of the model without an output, whichever *)
(* request or recovery completed it: the next run of the session builds on  *)
(* this transcript.                                                         *)
CompletedAnswersAll == row.st = "completed" => \A c \in Calls : row.ev[c] # "asked"

-----------------------------------------------------------------------------
(* Tasks of the event loop and threads run on; the orphan sweep comes back  *)
(* every two minutes.  Nothing is assumed of the user.                      *)
FairSpec ==
  /\ Spec
  /\ \A d \in Drivers : WF_vars(Work(d))
  /\ WF_vars(\E d \in Drivers : Resume(d))
  /\ WF_vars(SweepRead) /\ WF_vars(SweepWrite) /\ WF_vars(StopMarks)

(* A run stops executing for good, unless users go on asking for more: no   *)
(* crash, no failing save and no recovery keeps it going round for ever, or *)
(* leaves it in an executing state nobody works on.                         *)
RunSettles ==
  []<><<\E d \in Drivers : Request(d)>>_vars \/ <>[](row.st \notin Executing)

-----------------------------------------------------------------------------
(* background_task_recovery.py:266-267: after the recovery thread the run   *)
(* is looked at again if it "is still executing".  A run that waits for its *)
(* user is not: only the user ends the wait.                                *)
PauseStays ==
  [][row.st = "waiting" => row'.st \in {"waiting", "approving", "rejecting", "cancelled"}]_vars
=============================================================================
