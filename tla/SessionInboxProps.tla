------------------------- MODULE SessionInboxProps -------------------------
(***************************************************************************)
(* What the inbox of a session promises.  The code keeps none of it in all *)
(* circumstances: SessionInbox records the seven causes for which a        *)
(* message may be handled twice or closed wrongly, and the properties say  *)
(* what holds without them.                                                *)
(***************************************************************************)
EXTENDS SessionInbox

TypeOK ==
  /\ inbox \in [Messages -> Row]
  /\ kind \in [Messages -> Kinds]
  /\ stopped \subseteq Results /\ retried \subseteq Receipts /\ guard \in BOOLEAN
  /\ hand \in [{"stop", "guard"} -> SUBSET Messages] /\ doomed \subseteq Runs
  /\ runs \in [Runs -> Run]
  /\ pc \in [Requests -> Places]
  /\ msg \in [Requests -> Messages \cup {None}]
  /\ run \in [Requests -> Runs \cup {None}]
  /\ out \in [Requests -> {"none", "thrown", "waiting"} \cup Ended]
  /\ view \in [Requests -> View]
  /\ thread \in [Runs -> {"off", "driving"} \cup Ended]
  /\ mishaps \subseteq Mishaps \cup Causes

Answers(m) == {r \in Runs : runs[r].src = m}
Undisturbed == mishaps \cap Causes = {}

\* A message is answered at most once, although pages race for it, the process
\* starts again, receipts are lost, runs wait for the user and others close messages
\* (prepare_message_run, defer_message_run, recover_pending_terminal_receipts_once),
\* as long as none of the seven causes occurs: the race in which a pull writes over
\* newer rows is one of them.
HandledOnce ==
  Undisturbed => \A m \in Messages : \A r, s \in Answers(m) :
    runs[r].st = "completed" /\ runs[s].st = "completed" => r = s

\* On the same terms a message says completed or cancelled only if a run that
\* answered it was, and a message that is closed without one is nobody's work: the
\* user stopped the run it reports to, or retried its team while no run was
\* answering the receipt, or the guard stops it (_persist_mesh_run_receipt,
\* _finish_recovered_session_message, the checks of pull and prepare,
\* _supersede_unconsumed_terminal_notifications, sweep_blocked_jarvis_messages).
ReceiptsAreTrue ==
  Undisturbed =>
    /\ \A m \in Messages \ Void : inbox[m].st \in {"completed", "cancelled"} =>
         \E r \in Answers(m) : runs[r].st = inbox[m].st
    /\ \A m \in retried \ stopped : \A r \in Answers(m) : runs[r].st \in Ended

\* A closed message stays as it is: no late receipt, pull or deferral opens it
\* again (ack_message: "cancelled" cannot be undone; finish_message_run keeps
\* the end that was committed first).
ClosedStays ==
  [][Undisturbed' => \A m \in Messages : inbox[m].st \in Closed => inbox'[m].st = inbox[m].st]_vars

-----------------------------------------------------------------------------
\* A message that a run is answering is not put back into the queue for another
\* one: the scan for lost receipts "does not call the model again".  Two attempts
\* are enough to refute it: the scan finds the failed run of the first.
NotAskedAgain ==
  \A m \in Messages : inbox[m].st = "queued" => \A r \in Answers(m) : runs[r].st # "running"
=============================================================================
