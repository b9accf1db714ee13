---------------------------- MODULE SessionInbox ----------------------------
(***************************************************************************)
(* The inbox of a conversation: messages of agents, teams and other        *)
(* sessions that wait for it, each of which a page turns into a response   *)
(* run (agent_mesh_service.py, the stream endpoint in                      *)
(* api/v1/agent_responses.py), and the receipts by which the run, the      *)
(* recovery after a restart or a periodic scan                             *)
(* (background_task_recovery.py) close the message.  Others close messages *)
(* without a run: the retry of a team withdraws its old receipt, the stop  *)
(* of a run those of its teams (agent_team_service.py), the cost guard the *)
(* briefs of JARVIS, and any page may say what it likes of a message       *)
(* (api/v1/agent_mesh.py).                                                 *)
(*                                                                         *)
(* A request is a call of one of the pages that have the session open: it  *)
(* pulls the inbox and starts a run for what it was given, or carries what *)
(* the user types, answers or stops.  A run is its status here; what       *)
(* happens inside is ResponseRun.  Each step is one transaction.           *)
(***************************************************************************)
EXTENDS Naturals, FiniteSets

CONSTANTS
  Messages,     \* messages to the session, numbered in their order
  Kinds,        \* kinds of messages that occur
  Requests,     \* requests that may be in flight at once
  MaxAttempts,  \* max_attempts of a message
  MaxRuns,      \* bound: runs of the session
  Mishaps,      \* what may come in between, each at most once
  MaxMishaps    \* bound: and so many of them

None == 0

ASSUME InboxAssumption ==
  /\ Messages \subseteq Nat \ {None}
  /\ Kinds \subseteq {"note", "result", "receipt", "brief"}
  /\ MaxAttempts \in Nat \ {0} /\ MaxRuns \in Nat /\ MaxMishaps \in Nat
  /\ Mishaps \subseteq {"restart", "error", "receipt", "retry", "seen", "page"}

VARIABLES
  inbox,    \* agent_mesh_message: status and attempts of each message
  kind,     \* of each message: a result of an agent or team, a receipt of the
            \* end of a team (a result, too), a JARVIS brief, or none of these
  stopped,  \* results whose parent run was stopped
  retried,  \* receipts of teams that work again
  guard,    \* agent_jarvis_auto_dispatch_enabled is off
  hand,     \* messages that a stop or the guard has read and will close
  doomed,   \* runs that the guard has read and will fail
  runs,     \* agent_response_run: status, what it answers, mesh_message_id
  pc,       \* where each request is
  msg,      \* its mesh_message_id
  run,      \* its run
  out,      \* and what came of it
  view,     \* what a pull has read
  thread,   \* recovery thread of each run
  mishaps   \* what has gone wrong so far (for the properties only)

request == <<pc, msg, run, out, view>>
around == <<kind, stopped, retried, guard, hand, doomed>>
vars == <<inbox, around, runs, request, thread, mishaps>>

Runs == 1..MaxRuns
Active == {"running", "waiting"}
Ended == {"completed", "failed", "cancelled"}
Waiting == {"queued", "delivered"}
Open == Waiting \cup {"acknowledged", "processing"}
Closed == {"completed", "cancelled", "dead_letter"}

Places == {"idle", "pulling", "offered", "repulling", "checked", "prepared", "driving", "linking",
           "acking", "salvaging", "cancelling"}

\* Three mishaps, and what the code itself mixes up: a pull (or the guard, or a
\* stop) that writes over newer rows, a message taken by two requests, a cancel
\* that guesses the wrong message, a receipt of an earlier run.
Causes == {"error", "retry", "page", "overlap", "shared", "guess", "replay"}

\* "broken" is the status failed with recovery_requested.
Run == [st : {"none", "broken"} \cup Active \cup Ended,
        src : Messages \cup {None}, link : Messages \cup {None}]
Row == [st : Open \cup Closed, att : 0..MaxAttempts]
View == [box : [Messages -> Row], late : SUBSET Messages, busy : BOOLEAN]
NoView == [box |-> [m \in Messages |-> [st |-> "queued", att |-> 0]], late |-> {}, busy |-> FALSE]

Init ==
  /\ inbox = [m \in Messages |-> [st |-> "queued", att |-> 0]]
  /\ kind \in [Messages -> Kinds]
  /\ stopped = {} /\ retried = {} /\ guard = FALSE
  /\ hand = [h \in {"stop", "guard"} |-> {}] /\ doomed = {}
  /\ runs = [r \in Runs |-> [st |-> "none", src |-> None, link |-> None]]
  /\ pc = [q \in Requests |-> "idle"]
  /\ msg = [q \in Requests |-> None]
  /\ run = [q \in Requests |-> None]
  /\ out = [q \in Requests |-> "none"]
  /\ view = [q \in Requests |-> NoView]
  /\ thread = [r \in Runs |-> "off"]
  /\ mishaps = {}

-----------------------------------------------------------------------------
Goes(q, p) == pc' = [pc EXCEPT ![q] = p]

Returns(q) ==
  /\ pc' = [pc EXCEPT ![q] = "idle"] /\ msg' = [msg EXCEPT ![q] = None]
  /\ run' = [run EXCEPT ![q] = None] /\ out' = [out EXCEPT ![q] = "none"]
  /\ view' = [view EXCEPT ![q] = NoView]

Mishap(what) ==
  /\ what \in Mishaps \ mishaps /\ Cardinality(mishaps \cap Mishaps) < MaxMishaps
  /\ mishaps' = mishaps \cup {what}

Results == {m \in Messages : kind[m] \in {"result", "receipt"}}
Receipts == {m \in Messages : kind[m] = "receipt"}
Briefs == {m \in Messages : kind[m] = "brief"}

\* Messages that are to be closed without a run.
Void == stopped \cup retried \cup {m \in Briefs : guard}

Overlap(newer) == mishaps' = IF newer THEN mishaps \cup {"overlap"} ELSE mishaps

Busy == \E r \in Runs : runs[r].st \in Active

\* ack_message: the transitions it allows, and what a failure becomes.
Allowed(st) ==
  CASE st = "queued" -> {"acknowledged", "processing", "cancelled"}
    [] st = "delivered" -> {"acknowledged", "processing"} \cup Ended
    [] st = "acknowledged" -> {"processing"} \cup Ended
    [] st = "processing" -> Ended
    [] OTHER -> {}

Failed(m) == IF inbox[m].att < MaxAttempts THEN "queued" ELSE "dead_letter"

AckedM(m, to) ==   \* only a cancelled message is refused
  IF inbox[m].st = "cancelled" THEN inbox
  ELSE [inbox EXCEPT ![m].st = IF to = "failed" THEN Failed(m) ELSE to]

Acked(m, to) ==
  IF to \notin Allowed(inbox[m].st) THEN inbox
  ELSE [inbox EXCEPT ![m].st = IF to = "failed" THEN Failed(m) ELSE to]

\* Asked for again, or of a cancelled message, it changes nothing and is no error.
Accepted(m, to) == to \in Allowed(inbox[m].st) \cup {inbox[m].st} \/ inbox[m].st = "cancelled"

\* Written as they are, without a question.
Closes(M, st) == [m \in Messages |-> IF m \in M THEN [inbox[m] EXCEPT !.st = st] ELSE inbox[m]]

-----------------------------------------------------------------------------
\* pull_inbox reads rows, parents and runs; nothing is locked until it writes.
Snapshot == [box |-> inbox, busy |-> Busy, late |-> {m \in stopped : inbox[m].st \in Waiting}]

Pulled(v) ==
  [m \in Messages |->
     IF m \in v.late THEN [inbox[m] EXCEPT !.st = "cancelled"]
     ELSE IF v.box[m].st = "queued" /\ ~v.busy THEN [st |-> "delivered", att |-> v.box[m].att + 1]
     ELSE inbox[m]]

Offered(v) == {m \in Messages \ v.late : v.box[m].st \in Waiting /\ ~v.busy}

Pull(q) ==
  /\ pc[q] = "idle" /\ \E m \in Messages : inbox[m].st \in Waiting
  /\ view' = [view EXCEPT ![q] = Snapshot] /\ Goes(q, "pulling")
  /\ UNCHANGED <<inbox, around, runs, msg, run, out, thread, mishaps>>

PullWrites(q) ==
  /\ pc[q] = "pulling"
  /\ inbox' = Pulled(view[q])
  /\ \/ /\ \E m \in Offered(view[q]) : inbox'[m].st = "delivered" /\ msg' = [msg EXCEPT ![q] = m]
        /\ Goes(q, "offered") /\ view' = [view EXCEPT ![q] = NoView] /\ UNCHANGED <<run, out>>
     \/ Returns(q)
  /\ Overlap(view[q].box # inbox)
  /\ UNCHANGED <<around, runs, thread>>

ReadyM(m) == inbox[m].st \notin Closed   \* somebody else's as well

\* prepare_message_run under the lock of the message.  The receipt of a team that
\* works again does not pass its check, nor does a brief that the guard stops.
Ready(m) == inbox[m].st \in {"delivered", "acknowledged"}

Prepare(q) ==
  LET m == msg[q] IN
  /\ pc[q] = "offered" /\ inbox[m].st # "queued"
  /\ IF ~Ready(m) \/ Busy THEN Returns(q) /\ UNCHANGED inbox
     ELSE IF m \in Void THEN Returns(q) /\ inbox' = Acked(m, "completed")
     ELSE inbox' = Acked(m, "processing") /\ Goes(q, "prepared") /\ UNCHANGED <<msg, run, out, view>>
  /\ UNCHANGED <<around, runs, thread, mishaps>>

\* Queued again meanwhile: it pulls once more.  No one else can write the message
\* until that pull is committed; the commit gives the lock away.
PullAgain(q) ==
  /\ pc[q] = "offered" /\ inbox[msg[q]].st = "queued"
  /\ view' = [view EXCEPT ![q] = Snapshot] /\ Goes(q, "repulling")
  /\ UNCHANGED <<inbox, around, runs, msg, run, out, thread, mishaps>>

PulledAgain(q) ==
  /\ pc[q] = "repulling" /\ inbox[msg[q]] = view[q].box[msg[q]]
  /\ inbox' = Pulled(view[q])
  /\ IF inbox'[msg[q]].st = "delivered"
       THEN Goes(q, "checked") /\ view' = [view EXCEPT ![q] = NoView] /\ UNCHANGED <<msg, run, out>>
       ELSE Returns(q)
  /\ Overlap(view[q].box # inbox)
  /\ UNCHANGED <<around, runs, thread>>

\* ack_message refuses nothing to one who asks for the status the message has.
Take(q) ==
  LET m == msg[q]
      to == IF m \in Void THEN "completed" ELSE "processing"
  IN
  /\ pc[q] = "checked"
  /\ inbox' = Acked(m, to)
  /\ IF to = "processing" /\ Accepted(m, to)
       THEN /\ Goes(q, "prepared") /\ UNCHANGED <<msg, run, out, view>>
            /\ mishaps' = IF inbox' = inbox THEN mishaps \cup {"shared"} ELSE mishaps
       ELSE Returns(q) /\ UNCHANGED mishaps
  /\ UNCHANGED <<around, runs, thread>>

-----------------------------------------------------------------------------
\* create() asks for the parent and for other runs under its own locks.
Free == {r \in Runs : runs[r].st = "none" /\ \A s \in Runs : runs[s].st = "none" => r <= s}

Create(q) ==
  LET m == msg[q] IN
  /\ pc[q] = "prepared"
  /\ \/ /\ m \in stopped
        /\ Goes(q, "acking") /\ out' = [out EXCEPT ![q] = "failed"]
        /\ UNCHANGED <<inbox, runs, msg, run, view>>
     \/ /\ m \notin stopped /\ Busy            \* defer_message_run
        /\ inbox' = IF inbox[m].st \in {"acknowledged", "processing"}
                       THEN [inbox EXCEPT ![m].st = "delivered"] ELSE inbox
        /\ Returns(q) /\ UNCHANGED runs
     \/ /\ m \notin stopped /\ ~Busy
        /\ \E r \in Free : /\ runs' = [runs EXCEPT ![r] = [st |-> "running", src |-> m, link |-> None]]
                           /\ run' = [run EXCEPT ![q] = r]
        /\ Goes(q, "driving") /\ UNCHANGED <<inbox, msg, out, view>>
  /\ UNCHANGED <<around, thread, mishaps>>

\* The user writes something.
Ask(q) ==
  /\ pc[q] = "idle" /\ ~Busy
  /\ \E r \in Free : /\ runs' = [runs EXCEPT ![r] = [st |-> "running", src |-> None, link |-> None]]
                     /\ run' = [run EXCEPT ![q] = r]
  /\ Goes(q, "driving")
  /\ UNCHANGED <<inbox, around, msg, out, view, thread, mishaps>>

\* approve, reject or answer; a retry of a failed run is the user's own idea.
Resume(q) ==
  /\ pc[q] = "idle"
  /\ \E r \in Runs :
       /\ \/ runs[r].st = "waiting" /\ UNCHANGED mishaps
          \/ runs[r].st = "failed" /\ Mishap("retry")
       /\ runs' = [runs EXCEPT ![r].st = "running"]
       /\ run' = [run EXCEPT ![q] = r] /\ msg' = [msg EXCEPT ![q] = runs[r].link]
  /\ Goes(q, "driving")
  /\ UNCHANGED <<inbox, around, out, view, thread>>

\* How a drive ends, unless the run was cancelled under it.
Result(r) == IF runs[r].st = "cancelled" THEN {"cancelled"} ELSE {"completed", "failed", "waiting"}

Ends(q) ==
  /\ pc[q] = "driving"
  /\ \E o \in Result(run[q]) :
       /\ runs' = [runs EXCEPT ![run[q]].st = o]
       /\ IF msg[q] = None THEN Returns(q)
          ELSE Goes(q, "linking") /\ out' = [out EXCEPT ![q] = o] /\ UNCHANGED <<msg, run, view>>
  /\ UNCHANGED <<inbox, around, thread, mishaps>>

Throws(q) ==
  /\ pc[q] = "driving" /\ Mishap("error")
  /\ Goes(q, IF msg[q] = None THEN "salvaging" ELSE "linking")
  /\ out' = [out EXCEPT ![q] = "thrown"]
  /\ UNCHANGED <<inbox, around, runs, msg, run, view, thread>>

\* _persist_mesh_run_receipt: the link, then the message.
Leaves(q) ==
  IF out[q] = "thrown" THEN Goes(q, "salvaging") /\ UNCHANGED <<msg, run, out, view>> ELSE Returns(q)

Link(q) ==
  /\ pc[q] = "linking"
  /\ runs' = [runs EXCEPT ![run[q]].link = msg[q]]
  /\ IF out[q] = "waiting" THEN Returns(q) ELSE Goes(q, "acking") /\ UNCHANGED <<msg, run, out, view>>
  /\ UNCHANGED <<inbox, around, thread, mishaps>>

\* A receipt that moves a message which somebody has taken since.
Taken(r, m) ==
  \/ \E s \in Runs : r # None /\ s > r /\ runs[s].src = m
  \/ \E q \in Requests : pc[q] = "prepared" /\ msg[q] = m

Receipt(r, m) ==
  mishaps' = IF m # None /\ inbox' # inbox /\ Taken(r, m) THEN mishaps \cup {"replay"} ELSE mishaps

Ack(q) ==
  /\ pc[q] = "acking"
  /\ inbox' = Acked(msg[q], IF out[q] = "thrown" THEN "failed" ELSE out[q])
  /\ Leaves(q) /\ Receipt(run[q], msg[q])
  /\ UNCHANGED <<around, runs, thread>>

\* The database refuses twice: a warning, and on.
ReceiptFails(q) ==
  /\ pc[q] \in {"linking", "acking"} /\ Mishap("receipt")
  /\ Leaves(q)
  /\ UNCHANGED <<inbox, around, runs, thread>>

\* salvage_crashed_run
Salvage(q) ==
  /\ pc[q] = "salvaging"
  /\ runs' = [runs EXCEPT ![run[q]].st = IF @ = "running" THEN "broken" ELSE @]
  /\ Returns(q)
  /\ UNCHANGED <<inbox, around, thread, mishaps>>

-----------------------------------------------------------------------------
\* A cancel request first asks which message its run answers.
Newest(M) == {m \in M : \A x \in M : x <= m}

Source(r) ==
  LET processing == {m \in Messages : inbox[m].st = "processing"} IN
  IF runs[r].link # None THEN {runs[r].link}
  ELSE IF processing # {} THEN Newest(processing) ELSE {None}

Cancel(q) ==
  /\ pc[q] = "idle"
  /\ \E r \in Runs : \E m \in Source(r) :
       /\ runs[r].st # "none"
       /\ runs' = [runs EXCEPT ![r].link = m]
       /\ run' = [run EXCEPT ![q] = r] /\ msg' = [msg EXCEPT ![q] = m]
       /\ mishaps' = IF m \in {None, runs[r].src} THEN mishaps ELSE mishaps \cup {"guess"}
  /\ Goes(q, "cancelling")
  /\ UNCHANGED <<inbox, around, out, view, thread>>

Cancels(q) ==
  LET r == run[q]
      st == IF runs[r].st = "completed" THEN "completed" ELSE "cancelled"
  IN
  /\ pc[q] = "cancelling"
  /\ runs' = [runs EXCEPT ![r].st = st]
  /\ IF msg[q] = None THEN Returns(q)
     ELSE Goes(q, "linking") /\ out' = [out EXCEPT ![q] = st] /\ UNCHANGED <<msg, run, view>>
  /\ UNCHANGED <<inbox, around, thread, mishaps>>

\* The acknowledgement that any page may send of any message, with any status
\* (acknowledge_message): the pages do so for briefs, for results of runs they have
\* stopped and for receipts whose run failed.
PageAcks(m) ==
  /\ \E to \in {"acknowledged", "processing"} \cup Ended :
       /\ inbox' = Acked(m, to) /\ inbox' # inbox
       /\ Mishap(IF to = "acknowledged" THEN "seen" ELSE "page")
  /\ UNCHANGED <<around, runs, request, thread>>

-----------------------------------------------------------------------------
\* Those who close messages without a run.

\* The stop of a parent run, and later in it
\* _suppress_parent_run_team_notifications, which reads without a lock.
StopParent ==
  /\ \E m \in Results \ stopped : stopped' = stopped \cup {m}
  /\ UNCHANGED <<inbox, kind, retried, guard, hand, doomed, runs, request, thread, mishaps>>

Unclosed(M) == {m \in M : inbox[m].st \in Open}

StopReads ==
  /\ hand["stop"] = {} /\ Unclosed(stopped \cap Receipts) # {}
  /\ hand' = [hand EXCEPT !["stop"] = Unclosed(stopped \cap Receipts)]
  /\ UNCHANGED <<inbox, kind, stopped, retried, guard, doomed, runs, request, thread, mishaps>>

StopWrites ==
  /\ hand["stop"] # {}
  /\ inbox' = Closes(hand["stop"], "cancelled")
  /\ hand' = [hand EXCEPT !["stop"] = {}]
  /\ Overlap(Unclosed(hand["stop"]) # hand["stop"])
  /\ UNCHANGED <<kind, stopped, retried, guard, doomed, runs, request, thread>>

\* retry_team under the locks of its receipts
\* (_supersede_unconsumed_terminal_notifications): refused while one is processed.
RetryTeam(m) ==
  /\ m \in Receipts \ retried /\ inbox[m].st # "processing"
  /\ inbox' = Closes(Unclosed({m}), "completed")
  /\ retried' = retried \cup {m}
  /\ UNCHANGED <<kind, stopped, guard, hand, doomed, runs, request, thread, mishaps>>

\* sweep_blocked_jarvis_messages, called by the patrol: messages and the runs linked
\* to them are read without a lock.
GuardReads ==
  /\ guard /\ hand["guard"] = {} /\ Unclosed(Briefs) # {}
  /\ hand' = [hand EXCEPT !["guard"] = Unclosed(Briefs)]
  /\ doomed' = {r \in Runs : runs[r].link \in Unclosed(Briefs) /\ runs[r].st \in Active}
  /\ UNCHANGED <<inbox, kind, stopped, retried, guard, runs, request, thread, mishaps>>

GuardWrites ==
  /\ hand["guard"] # {}
  /\ inbox' = Closes(hand["guard"], "completed")
  /\ runs' = [r \in Runs |-> IF r \in doomed THEN [runs[r] EXCEPT !.st = "failed"] ELSE runs[r]]
  /\ hand' = [hand EXCEPT !["guard"] = {}] /\ doomed' = {}
  /\ Overlap(Unclosed(hand["guard"]) # hand["guard"])
  /\ UNCHANGED <<kind, stopped, retried, guard, request, thread>>

-----------------------------------------------------------------------------
\* The process starts again and finds the runs that nobody drives.  With the guard
\* on, those of briefs are not recovered, and the briefs are closed: 500 at a time,
\* the others are left for the patrol.
Restart ==
  /\ Mishap("restart")
  /\ guard' \in {guard, Briefs # {}}
  /\ \E swept \in SUBSET Unclosed({m \in Briefs : guard'}) : inbox' = Closes(swept, "completed")
  /\ runs' = [r \in Runs |->
       IF guard' /\ runs[r].link \in Briefs /\ runs[r].st \in Active \cup {"broken"}
         THEN [runs[r] EXCEPT !.st = "failed"]
       ELSE IF runs[r].st = "running" THEN [runs[r] EXCEPT !.st = "broken"] ELSE runs[r]]
  /\ pc' = [q \in Requests |-> "idle"] /\ msg' = [q \in Requests |-> None]
  /\ run' = [q \in Requests |-> None] /\ out' = [q \in Requests |-> "none"]
  /\ view' = [q \in Requests |-> NoView]
  /\ thread' = [r \in Runs |-> "off"]
  /\ hand' = [h \in {"stop", "guard"} |-> {}] /\ doomed' = {}
  /\ UNCHANGED <<kind, stopped, retried>>

\* _resume_agent_run in its thread.
Recover(r) ==
  /\ runs[r].st = "broken"
  /\ runs' = [runs EXCEPT ![r].st = "running"] /\ thread' = [thread EXCEPT ![r] = "driving"]
  /\ UNCHANGED <<inbox, around, request, mishaps>>

RecoverEnds(r) ==
  /\ thread[r] = "driving"
  /\ \E o \in Result(r) :
       /\ runs' = [runs EXCEPT ![r].st = o]
       /\ thread' = [thread EXCEPT ![r] = IF o = "waiting" THEN "off" ELSE o]
  /\ UNCHANGED <<inbox, around, request, mishaps>>

FinishedM(r, o) ==   \* the end of the run is not handed on
  LET m == runs[r].link IN
  IF m # None /\ inbox[m].st = "processing" THEN Acked(m, "completed") ELSE inbox

\* _finish_recovered_session_message, of a linked message in processing.
Finished(r, o) ==
  LET m == runs[r].link IN
  IF m # None /\ inbox[m].st = "processing" THEN Acked(m, o) ELSE inbox

Report(r) ==
  /\ thread[r] \in Ended
  /\ inbox' = Finished(r, thread[r]) /\ thread' = [thread EXCEPT ![r] = "off"] /\ Receipt(r, runs[r].link)
  /\ UNCHANGED <<around, runs, request>>

\* recover_pending_terminal_receipts_once
Scan(r) ==
  /\ runs[r].st \in Ended /\ runs[r].link # None /\ inbox[runs[r].link].st = "processing"
  /\ inbox' = Finished(r, runs[r].st) /\ Receipt(r, runs[r].link)
  /\ UNCHANGED <<around, runs, request, thread>>

-----------------------------------------------------------------------------
Works(q) ==
  \/ PullWrites(q) \/ Prepare(q) \/ PullAgain(q) \/ PulledAgain(q) \/ Take(q) \/ Create(q)
  \/ Ends(q) \/ Link(q) \/ Ack(q) \/ Salvage(q) \/ Cancels(q)

Next ==
  \/ \E q \in Requests : \/ Pull(q) \/ Ask(q) \/ Resume(q) \/ Cancel(q) \/ Works(q)
                         \/ Throws(q) \/ ReceiptFails(q)
  \/ \E r \in Runs : Recover(r) \/ RecoverEnds(r) \/ Report(r) \/ Scan(r)
  \/ \E m \in Messages : PageAcks(m) \/ RetryTeam(m)
  \/ StopParent \/ StopReads \/ StopWrites \/ GuardReads \/ GuardWrites \/ Restart

Spec == Init /\ [][Next]_vars
=============================================================================
