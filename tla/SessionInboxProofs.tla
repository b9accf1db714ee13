------------------------- MODULE SessionInboxProofs -------------------------
(***************************************************************************)
(* Proofs about the inbox of a session, for any number of messages, pages, *)
(* runs, attempts and mishaps: the types; and, unless one of the seven     *)
(* causes came in between, that what is closed stays closed, that a        *)
(* message is answered once and that its receipt is true.                  *)
(***************************************************************************)
EXTENDS SessionInboxProps, TLAPS

USE InboxAssumption DEF None

\* What waits in the queue has an attempt left.
Safe(b) == b \in [Messages -> Row] /\ \A m \in Messages : b[m].st = "queued" => b[m].att < MaxAttempts

\* A pull withdraws only what it saw waiting.
SafeView(v) == v \in View /\ Safe(v.box) /\ \A m \in v.late : v.box[m].st \in Waiting

RequestOK ==
  /\ pc \in [Requests -> Places]
  /\ msg \in [Requests -> Messages \cup {None}]
  /\ run \in [Requests -> Runs \cup {None}]
  /\ out \in [Requests -> {"none", "thrown", "waiting"} \cup Ended]
  /\ view \in [Requests -> View] /\ \A q \in Requests : SafeView(view[q])

RunsOK == runs \in [Runs -> Run] /\ thread \in [Runs -> {"off", "driving"} \cup Ended]
AroundOK ==
  /\ kind \in [Messages -> Kinds]
  /\ stopped \subseteq Results /\ retried \subseteq Receipts /\ guard \in BOOLEAN
  /\ hand \in [{"stop", "guard"} -> SUBSET Messages] /\ doomed \subseteq Runs
PastOK == mishaps \subseteq Mishaps \cup Causes

TInv == Safe(inbox) /\ AroundOK /\ RunsOK /\ RequestOK /\ PastOK

-----------------------------------------------------------------------------
(* ack_message keeps a row a row, and does not touch a closed one.          *)
LEMMA AckKeeps ==
  ASSUME Safe(inbox), NEW m, NEW to
  PROVE  /\ Safe(Acked(m, to))
         /\ \A x \in Messages : inbox[x].st \in Closed => Acked(m, to)[x] = inbox[x]
<1>1. CASE to \notin Allowed(inbox[m].st)
  BY <1>1 DEF Acked
<1>2. CASE to \in Allowed(inbox[m].st)
  <2> DEFINE st == IF to = "failed" THEN Failed(m) ELSE to
             b == [inbox EXCEPT ![m].st = st]
  <2>1. Acked(m, to) = b
    BY <1>2 DEF Acked
  <2>2. inbox \in [Messages -> Row]
    BY DEF Safe
  <2>3. CASE m \notin Messages
    <3>1. b = inbox
      BY <2>2, <2>3
    <3>2. QED
      BY <2>1, <3>1
  <2>4. CASE m \in Messages
    <3>1. /\ inbox[m].st \notin Closed
          /\ to \in {"acknowledged", "processing", "cancelled"} \cup Ended
      BY <1>2 DEF Allowed, Closed, Ended
    <3>2. /\ st \in Open \cup Closed
          /\ st = "queued" => inbox[m].att < MaxAttempts
      BY <3>1 DEF Failed, Open, Waiting, Closed, Ended
    <3>3. /\ inbox[m] \in Row /\ inbox[m].att \in 0..MaxAttempts
          /\ b[m] = [inbox[m] EXCEPT !.st = st]
          /\ \A x \in Messages : x # m => b[x] = inbox[x]
      BY <2>2, <2>4 DEF Row
    <3>4. b[m] \in Row /\ b[m].st = st /\ b[m].att = inbox[m].att
      BY <3>2, <3>3 DEF Row
    <3>5. b \in [Messages -> Row]
      BY <2>2, <2>4, <3>4
    <3>6. Safe(b)
      BY <3>2, <3>3, <3>4, <3>5 DEF Safe
    <3>7. \A x \in Messages : inbox[x].st \in Closed => b[x] = inbox[x]
      BY <3>1, <3>3
    <3>8. QED
      BY <2>1, <3>6, <3>7
  <2>5. QED
    BY <2>3, <2>4
<1>3. QED
  BY <1>1, <1>2

(* So does pull_inbox; what it closes was waiting if nothing came between.  *)
LEMMA PullKeeps ==
  ASSUME Safe(inbox), NEW v, SafeView(v)
  PROVE  /\ Safe(Pulled(v))
         /\ v.box = inbox => \A x \in Messages : inbox[x].st \in Closed => Pulled(v)[x] = inbox[x]
<1>1. ASSUME NEW x \in Messages
      PROVE  /\ Pulled(v)[x] \in Row
             /\ Pulled(v)[x].st = "queued" => Pulled(v)[x].att < MaxAttempts
             /\ v.box = inbox /\ inbox[x].st \in Closed => Pulled(v)[x] = inbox[x]
  <2>1. /\ inbox[x] \in Row /\ v.box[x] \in Row
        /\ inbox[x].st = "queued" => inbox[x].att < MaxAttempts
        /\ v.box[x].st = "queued" => v.box[x].att < MaxAttempts
    BY DEF Safe, SafeView
  <2>2. CASE x \in v.late
    <3>1. Pulled(v)[x] = [inbox[x] EXCEPT !.st = "cancelled"]
      BY <2>2 DEF Pulled
    <3>2. v.box[x].st \in Waiting
      BY <2>2 DEF SafeView
    <3>3. QED
      BY <2>1, <3>1, <3>2 DEF Row, Open, Closed, Waiting
  <2>3. CASE x \notin v.late /\ v.box[x].st = "queued" /\ ~v.busy
    <3>1. Pulled(v)[x] = [st |-> "delivered", att |-> v.box[x].att + 1]
      BY <2>3 DEF Pulled
    <3>2. QED
      BY <2>1, <2>3, <3>1 DEF Row, Open, Closed, Waiting
  <2>4. CASE x \notin v.late /\ ~(v.box[x].st = "queued" /\ ~v.busy)
    BY <2>1, <2>4 DEF Pulled
  <2>5. QED
    BY <2>2, <2>3, <2>4
<1>2. Pulled(v) \in [Messages -> Row]
  BY <1>1 DEF Pulled
<1>3. QED
  BY <1>1, <1>2 DEF Safe

LEMMA SnapshotSafe == Safe(inbox) /\ AroundOK => SafeView(Snapshot)
  BY DEF SafeView, Snapshot, View, Safe, AroundOK, Results, Busy

LEMMA NoViewSafe == SafeView(NoView)
  BY DEF SafeView, NoView, View, Safe, Row, Open, Waiting

(* A request that returns, or goes on, is still one.                        *)
LEMMA ReturnsOK == ASSUME RequestOK, NEW q \in Requests, Returns(q) PROVE RequestOK'
<1>1. view' \in [Requests -> View] /\ \A x \in Requests : SafeView(view'[x])
  BY NoViewSafe DEF Returns, RequestOK, SafeView
<1>2. QED
  BY <1>1 DEF Returns, RequestOK, Places, SafeView, Safe, View

LEMMA GoesOK ==
  ASSUME RequestOK, NEW q \in Requests, NEW p \in Places, Goes(q, p),
         msg' \in [Requests -> Messages \cup {None}], run' \in [Requests -> Runs \cup {None}],
         out' \in [Requests -> {"none", "thrown", "waiting"} \cup Ended],
         \/ UNCHANGED view
         \/ \E v : SafeView(v) /\ view' = [view EXCEPT ![q] = v]
  PROVE  RequestOK'
<1>1. view' \in [Requests -> View] /\ \A x \in Requests : SafeView(view'[x])
  BY DEF RequestOK, SafeView
<1>2. QED
  BY <1>1 DEF Goes, RequestOK, SafeView, Safe, View

(* A change of one field of a run leaves it a run.                          *)
LEMMA RunChanges ==
  ASSUME RunsOK, NEW r, NEW st \in {"none", "broken"} \cup Active \cup Ended, NEW l \in Messages \cup {None}
  PROVE  /\ [runs EXCEPT ![r].st = st] \in [Runs -> Run]
         /\ [runs EXCEPT ![r].link = l] \in [Runs -> Run]
  BY DEF RunsOK, Run

LEMMA MishapOK ==
  ASSUME PastOK, NEW what, Mishap(what)
  PROVE  PastOK'
  BY DEF Mishap, PastOK

-----------------------------------------------------------------------------
\* What an action keeps: the types, and the closed messages.
Kept == \A x \in Messages : inbox[x].st \in Closed => inbox'[x].st = inbox[x].st
Keeps == TInv' /\ (Undisturbed' => Kept)

(* Most actions do not touch the inbox.                                     *)
LEMMA InboxUntouched ==
  ASSUME TInv, UNCHANGED inbox, AroundOK', RunsOK', RequestOK', PastOK'
  PROVE  Keeps
  BY DEF TInv, Keeps, Kept, Safe

LEMMA AroundStays == ASSUME TInv, UNCHANGED around PROVE AroundOK'
  BY DEF TInv, AroundOK, around, Results, Receipts

LEMMA PullStep == ASSUME TInv, NEW q \in Requests, Pull(q) PROVE Keeps
<1>1. SafeView(Snapshot)
  BY SnapshotSafe DEF TInv
<1>2. RequestOK'
  BY <1>1, GoesOK DEF Pull, TInv, RequestOK, Places
<1>3. QED
  BY <1>2, InboxUntouched, AroundStays DEF Pull, TInv, RunsOK, PastOK

LEMMA PullWritesStep == ASSUME TInv, NEW q \in Requests, PullWrites(q) PROVE Keeps
<1>1. SafeView(view[q]) /\ Safe(inbox)
  BY DEF TInv, RequestOK
<1>2. Safe(inbox')
  BY <1>1, PullKeeps DEF PullWrites
<1>3. RequestOK'
  <2>1. CASE Returns(q)
    BY <2>1, ReturnsOK DEF TInv
  <2>2. CASE ~Returns(q)
    <3>1. PICK m \in Messages : msg' = [msg EXCEPT ![q] = m]
      BY <2>2 DEF PullWrites, Offered
    <3>2. QED
      BY <2>2, <3>1, NoViewSafe, GoesOK DEF PullWrites, TInv, RequestOK, Places
  <2>3. QED
    BY <2>1, <2>2
<1>4. PastOK'
  BY DEF PullWrites, Overlap, TInv, PastOK, Causes
<1>5. Undisturbed' => Kept
  <2>1. Undisturbed' => view[q].box = inbox
    BY DEF PullWrites, Overlap, Undisturbed, Causes
  <2>2. QED
    BY <1>1, <2>1, PullKeeps DEF PullWrites, Kept
<1>6. AroundOK' /\ RunsOK'
  BY AroundStays DEF PullWrites, TInv, RunsOK
<1>7. QED
  BY <1>2, <1>3, <1>4, <1>5, <1>6 DEF TInv, Keeps

(* An action that acknowledges one message.                                 *)
LEMMA Acknowledges ==
  ASSUME TInv, NEW m, NEW to, inbox' \in {inbox, Acked(m, to)},
         RequestOK', RunsOK', PastOK', UNCHANGED around
  PROVE  Keeps
<1>1. Safe(inbox) /\ AroundOK'
  BY AroundStays DEF TInv
<1>2. Safe(inbox') /\ Kept
  BY <1>1, AckKeeps DEF Kept
<1>3. QED
  BY <1>1, <1>2 DEF TInv, Keeps

LEMMA PrepareStep == ASSUME TInv, NEW q \in Requests, Prepare(q) PROVE Keeps
<1>1. RequestOK'
  <2>1. CASE Returns(q)
    BY <2>1, ReturnsOK DEF TInv
  <2>2. CASE Goes(q, "prepared") /\ UNCHANGED <<msg, run, out, view>>
    BY <2>2, GoesOK DEF TInv, RequestOK, Places
  <2>3. QED
    BY <2>1, <2>2 DEF Prepare
<1>2. /\ \E to : inbox' \in {inbox, Acked(msg[q], to)}
      /\ UNCHANGED <<around, runs, thread, mishaps>>
  BY DEF Prepare
<1>3. QED
  BY <1>1, <1>2, Acknowledges DEF TInv, RunsOK, PastOK

LEMMA PullAgainStep == ASSUME TInv, NEW q \in Requests, PullAgain(q) PROVE Keeps
<1>1. SafeView(Snapshot)
  BY SnapshotSafe DEF TInv
<1>2. RequestOK'
  BY <1>1, GoesOK DEF PullAgain, TInv, RequestOK, Places
<1>3. QED
  BY <1>2, InboxUntouched, AroundStays DEF PullAgain, TInv, RunsOK, PastOK

LEMMA PulledAgainStep == ASSUME TInv, NEW q \in Requests, PulledAgain(q) PROVE Keeps
<1>1. SafeView(view[q]) /\ Safe(inbox)
  BY DEF TInv, RequestOK
<1>2. Safe(inbox')
  BY <1>1, PullKeeps DEF PulledAgain
<1>3. RequestOK'
  <2>1. CASE Returns(q)
    BY <2>1, ReturnsOK DEF TInv
  <2>2. CASE Goes(q, "checked") /\ view' = [view EXCEPT ![q] = NoView] /\ UNCHANGED <<msg, run, out>>
    BY <2>2, NoViewSafe, GoesOK DEF TInv, RequestOK, Places
  <2>3. QED
    BY <2>1, <2>2 DEF PulledAgain
<1>4. PastOK' /\ AroundOK' /\ RunsOK'
  BY AroundStays DEF PulledAgain, Overlap, TInv, PastOK, Causes, RunsOK
<1>5. Undisturbed' => Kept
  <2>1. Undisturbed' => view[q].box = inbox
    BY DEF PulledAgain, Overlap, Undisturbed, Causes
  <2>2. QED
    BY <1>1, <2>1, PullKeeps DEF PulledAgain, Kept
<1>6. QED
  BY <1>2, <1>3, <1>4, <1>5 DEF TInv, Keeps

LEMMA TakeStep == ASSUME TInv, NEW q \in Requests, Take(q) PROVE Keeps
<1>1. RequestOK'
  <2>1. CASE Returns(q)
    BY <2>1, ReturnsOK DEF TInv
  <2>2. CASE Goes(q, "prepared") /\ UNCHANGED <<msg, run, out, view>>
    BY <2>2, GoesOK DEF TInv, RequestOK, Places
  <2>3. QED
    BY <2>1, <2>2 DEF Take
<1>2. \E to : inbox' = Acked(msg[q], to)
  BY DEF Take
<1>3. PastOK' /\ RunsOK' /\ UNCHANGED around
  BY DEF Take, TInv, PastOK, Causes, RunsOK
<1>4. QED
  BY <1>1, <1>2, <1>3, Acknowledges

LEMMA CreateStep == ASSUME TInv, NEW q \in Requests, Create(q) PROVE Keeps
<1> DEFINE m == msg[q]
<1>1. UNCHANGED <<around, thread, mishaps>> /\ m \in Messages \cup {None}
  BY DEF Create, TInv, RequestOK
<1>2. CASE m \in stopped
  <2>1. Goes(q, "acking") /\ out' = [out EXCEPT ![q] = "failed"] /\ UNCHANGED <<inbox, runs, msg, run, view>>
    BY <1>2 DEF Create
  <2>2. RequestOK'
    BY <2>1, GoesOK DEF TInv, RequestOK, Places, Ended
  <2>3. QED
    BY <1>1, <2>1, <2>2, InboxUntouched, AroundStays DEF TInv, RunsOK, PastOK
<1>3. CASE m \notin stopped /\ Busy
  <2>1. /\ inbox' = IF inbox[m].st \in {"acknowledged", "processing"}
                        THEN [inbox EXCEPT ![m].st = "delivered"] ELSE inbox
        /\ Returns(q) /\ UNCHANGED runs
    BY <1>3 DEF Create
  <2>2. Safe(inbox') /\ Kept
    BY <2>1 DEF TInv, Safe, Row, Kept, Open, Closed, Waiting
  <2>3. RequestOK'
    BY <2>1, ReturnsOK DEF TInv
  <2>4. QED
    BY <1>1, <2>1, <2>2, <2>3, AroundStays DEF TInv, RunsOK, PastOK, Keeps
<1>4. CASE m \notin stopped /\ ~Busy
  <2>1. PICK r \in Runs : /\ runs' = [runs EXCEPT ![r] = [st |-> "running", src |-> m, link |-> None]]
                          /\ run' = [run EXCEPT ![q] = r]
    BY <1>4 DEF Create, Free
  <2>2. Goes(q, "driving") /\ UNCHANGED <<inbox, msg, out, view>>
    BY <1>4 DEF Create
  <2>3. RunsOK'
    BY <1>1, <2>1 DEF TInv, RunsOK, Run, Active
  <2>4. RequestOK'
    BY <2>1, <2>2, GoesOK DEF TInv, RequestOK, Places
  <2>5. QED
    BY <1>1, <2>2, <2>3, <2>4, InboxUntouched, AroundStays DEF TInv, PastOK
<1>5. QED
  BY <1>2, <1>3, <1>4

LEMMA AskStep == ASSUME TInv, NEW q \in Requests, Ask(q) PROVE Keeps
<1>1. PICK r \in Runs : /\ runs' = [runs EXCEPT ![r] = [st |-> "running", src |-> None, link |-> None]]
                        /\ run' = [run EXCEPT ![q] = r]
  BY DEF Ask, Free
<1>2. RunsOK'
  BY <1>1 DEF Ask, TInv, RunsOK, Run, Active
<1>3. RequestOK'
  BY <1>1, GoesOK DEF Ask, TInv, RequestOK, Places
<1>4. QED
  BY <1>2, <1>3, InboxUntouched, AroundStays DEF Ask, TInv, PastOK

LEMMA ResumeStep == ASSUME TInv, NEW q \in Requests, Resume(q) PROVE Keeps
<1>1. PICK r \in Runs :
        /\ \/ UNCHANGED mishaps
           \/ Mishap("retry")
        /\ runs' = [runs EXCEPT ![r].st = "running"]
        /\ run' = [run EXCEPT ![q] = r] /\ msg' = [msg EXCEPT ![q] = runs[r].link]
  BY DEF Resume
<1>2. RunsOK'
  BY <1>1 DEF Resume, TInv, RunsOK, Run, Active
<1>3. RequestOK'
  <2>1. runs[r].link \in Messages \cup {None}
    BY DEF TInv, RunsOK, Run
  <2>2. QED
    BY <1>1, <2>1, GoesOK DEF Resume, TInv, RequestOK, Places
<1>4. PastOK'
  BY <1>1, MishapOK DEF TInv, PastOK
<1>5. QED
  BY <1>2, <1>3, <1>4, InboxUntouched, AroundStays DEF Resume, TInv

LEMMA EndsStep == ASSUME TInv, NEW q \in Requests, Ends(q) PROVE Keeps
<1>1. PICK o \in Result(run[q]) :
        /\ runs' = [runs EXCEPT ![run[q]].st = o]
        /\ IF msg[q] = None THEN Returns(q)
           ELSE Goes(q, "linking") /\ out' = [out EXCEPT ![q] = o] /\ UNCHANGED <<msg, run, view>>
  BY DEF Ends
<1>2. o \in {"waiting"} \cup Ended
  BY DEF Result, Ended
<1>3. RunsOK'
  BY <1>1, <1>2, RunChanges DEF Ends, TInv, RunsOK, Active
<1>4. RequestOK'
  BY <1>1, <1>2, ReturnsOK, GoesOK DEF TInv, RequestOK, Places
<1>5. QED
  BY <1>3, <1>4, InboxUntouched, AroundStays DEF Ends, TInv, PastOK

LEMMA ThrowsStep == ASSUME TInv, NEW q \in Requests, Throws(q) PROVE Keeps
<1>1. RequestOK'
  BY GoesOK DEF Throws, TInv, RequestOK, Places
<1>2. PastOK'
  BY MishapOK DEF Throws, TInv
<1>3. QED
  BY <1>1, <1>2, InboxUntouched, AroundStays DEF Throws, TInv, RunsOK

LEMMA LeavesOK == ASSUME RequestOK, NEW q \in Requests, Leaves(q) PROVE RequestOK'
  BY ReturnsOK, GoesOK DEF Leaves, RequestOK, Places

LEMMA LinkStep == ASSUME TInv, NEW q \in Requests, Link(q) PROVE Keeps
<1>1. RunsOK'
  BY RunChanges DEF Link, TInv, RunsOK, RequestOK
<1>2. RequestOK'
  BY ReturnsOK, GoesOK DEF Link, TInv, RequestOK, Places
<1>3. QED
  BY <1>1, <1>2, InboxUntouched, AroundStays DEF Link, TInv, PastOK

LEMMA ReceiptOK == ASSUME PastOK, NEW r, NEW m, Receipt(r, m) PROVE PastOK'
  BY DEF PastOK, Receipt, Causes

LEMMA AckStep == ASSUME TInv, NEW q \in Requests, Ack(q) PROVE Keeps
<1>1. RequestOK' /\ PastOK'
  BY LeavesOK, ReceiptOK DEF Ack, TInv
<1>2. QED
  BY <1>1, Acknowledges DEF Ack, TInv, RunsOK

LEMMA ReceiptFailsStep == ASSUME TInv, NEW q \in Requests, ReceiptFails(q) PROVE Keeps
<1>1. RequestOK' /\ PastOK'
  BY LeavesOK, MishapOK DEF ReceiptFails, TInv
<1>2. QED
  BY <1>1, InboxUntouched, AroundStays DEF ReceiptFails, TInv, RunsOK

LEMMA SalvageStep == ASSUME TInv, NEW q \in Requests, Salvage(q) PROVE Keeps
<1>1. RequestOK'
  BY ReturnsOK DEF Salvage, TInv
<1>2. RunsOK'
  <2>1. CASE run[q] \in Runs
    <3> DEFINE to == IF runs[run[q]].st = "running" THEN "broken" ELSE runs[run[q]].st
    <3>1. runs' = [runs EXCEPT ![run[q]].st = to]
      BY <2>1 DEF Salvage, TInv, RunsOK
    <3>2. to \in {"none", "broken"} \cup Active \cup Ended
      BY <2>1 DEF TInv, RunsOK, Run
    <3>3. runs' \in [Runs -> Run]
      BY <2>1, <3>1, <3>2 DEF TInv, RunsOK, Run
    <3>4. QED
      BY <3>3 DEF Salvage, TInv, RunsOK
  <2>2. CASE run[q] \notin Runs
    BY <2>2 DEF Salvage, TInv, RunsOK
  <2>3. QED
    BY <2>1, <2>2
<1>3. QED
  BY <1>1, <1>2, InboxUntouched, AroundStays DEF Salvage, TInv, PastOK

LEMMA CancelStep == ASSUME TInv, NEW q \in Requests, Cancel(q) PROVE Keeps
<1>0. PICK r \in Runs : \E m \in Source(r) :
        /\ runs' = [runs EXCEPT ![r].link = m]
        /\ run' = [run EXCEPT ![q] = r] /\ msg' = [msg EXCEPT ![q] = m]
        /\ mishaps' = IF m \in {None, runs[r].src} THEN mishaps ELSE mishaps \cup {"guess"}
  BY DEF Cancel
<1>1. PICK m \in Source(r) :
        /\ runs' = [runs EXCEPT ![r].link = m]
        /\ run' = [run EXCEPT ![q] = r] /\ msg' = [msg EXCEPT ![q] = m]
        /\ mishaps' = IF m \in {None, runs[r].src} THEN mishaps ELSE mishaps \cup {"guess"}
  BY <1>0
<1>2. m \in Messages \cup {None}
  BY DEF Source, Newest, TInv, RunsOK, Run
<1>3. RunsOK'
  BY <1>1, <1>2, RunChanges DEF Cancel, TInv, RunsOK
<1>4. RequestOK'
  BY <1>1, <1>2, GoesOK DEF Cancel, TInv, RequestOK, Places
<1>5. PastOK'
  BY <1>1 DEF TInv, PastOK, Causes
<1>6. QED
  BY <1>3, <1>4, <1>5, InboxUntouched, AroundStays DEF Cancel, TInv

LEMMA CancelsStep == ASSUME TInv, NEW q \in Requests, Cancels(q) PROVE Keeps
<1> DEFINE st == IF runs[run[q]].st = "completed" THEN "completed" ELSE "cancelled"
<1>1. st \in Ended
  BY DEF Ended
<1>2. RunsOK'
  BY <1>1, RunChanges DEF Cancels, TInv, RunsOK
<1>3. RequestOK'
  BY <1>1, ReturnsOK, GoesOK DEF Cancels, TInv, RequestOK, Places
<1>4. QED
  BY <1>2, <1>3, InboxUntouched, AroundStays DEF Cancels, TInv, PastOK

(* Whoever closes messages that are open leaves the others alone.           *)
LEMMA ClosesKeep ==
  ASSUME Safe(inbox), NEW M \in SUBSET Messages, NEW st \in {"completed", "cancelled"}, inbox' = Closes(M, st)
  PROVE  /\ Safe(inbox')
         /\ (\A m \in M : inbox[m].st \in Open) => Kept
<1>1. ASSUME NEW m \in Messages
      PROVE  /\ inbox'[m] \in Row /\ (inbox'[m].st = "queued" => inbox'[m].att < MaxAttempts)
             /\ m \in M => inbox'[m].st = st
             /\ m \notin M => inbox'[m] = inbox[m]
  BY DEF Closes, Safe, Row, Closed
<1>2. inbox' \in [Messages -> Row]
  BY <1>1 DEF Closes
<1>3. QED
  BY <1>1, <1>2 DEF Safe, Kept, Open, Waiting, Closed

LEMMA StopReadsStep == ASSUME TInv, StopReads PROVE Keeps
<1>1. RunsOK' /\ RequestOK'
  BY DEF StopReads, request, TInv, RunsOK, RequestOK, SafeView, Safe, View
<1>2. AroundOK'
  BY DEF StopReads, Unclosed, TInv, AroundOK, Results, Receipts
<1>3. QED
  BY <1>1, <1>2, InboxUntouched DEF StopReads, TInv, PastOK

LEMMA StopWritesStep == ASSUME TInv, StopWrites PROVE Keeps
<1>1. RunsOK' /\ RequestOK'
  BY DEF StopWrites, request, TInv, RunsOK, RequestOK, SafeView, Safe, View
<1>2. AroundOK' /\ PastOK'
  BY DEF StopWrites, Overlap, TInv, AroundOK, PastOK, Results, Receipts, Causes
<1>3. hand["stop"] \in SUBSET Messages /\ Safe(inbox)
  BY DEF TInv, AroundOK
<1>4. Safe(inbox') /\ (Undisturbed' => Kept)
  <2>1. Undisturbed' => Unclosed(hand["stop"]) = hand["stop"]
    BY DEF StopWrites, Overlap, Undisturbed, Causes
  <2>2. Undisturbed' => \A m \in hand["stop"] : inbox[m].st \in Open
    BY <2>1 DEF Unclosed
  <2>3. QED
    BY <1>3, <2>2, ClosesKeep DEF StopWrites
<1>5. QED
  BY <1>1, <1>2, <1>4 DEF TInv, Keeps

LEMMA RetryTeamStep == ASSUME TInv, NEW x \in Messages, RetryTeam(x) PROVE Keeps
<1>1. RunsOK' /\ RequestOK'
  BY DEF RetryTeam, request, TInv, RunsOK, RequestOK, SafeView, Safe, View
<1>2. AroundOK' /\ PastOK'
  BY DEF RetryTeam, TInv, AroundOK, PastOK, Results, Receipts
<1>3. Unclosed({x}) \in SUBSET Messages /\ (\A m \in Unclosed({x}) : inbox[m].st \in Open) /\ Safe(inbox)
  BY DEF Unclosed, TInv
<1>4. Safe(inbox') /\ Kept
  BY <1>3, ClosesKeep DEF RetryTeam
<1>5. QED
  BY <1>1, <1>2, <1>4 DEF TInv, Keeps

LEMMA GuardReadsStep == ASSUME TInv, GuardReads PROVE Keeps
<1>1. RunsOK' /\ RequestOK'
  BY DEF GuardReads, request, TInv, RunsOK, RequestOK, SafeView, Safe, View
<1>2. AroundOK'
  BY DEF GuardReads, Unclosed, Briefs, TInv, AroundOK, Results, Receipts
<1>3. QED
  BY <1>1, <1>2, InboxUntouched DEF GuardReads, TInv, PastOK

LEMMA GuardWritesStep == ASSUME TInv, GuardWrites PROVE Keeps
<1>1. RunsOK'
  BY DEF GuardWrites, TInv, RunsOK, Run, Ended
<1>2. RequestOK'
  BY DEF GuardWrites, request, TInv, RequestOK, SafeView, Safe, View
<1>3. AroundOK' /\ PastOK'
  BY DEF GuardWrites, Overlap, TInv, AroundOK, PastOK, Results, Receipts, Causes
<1>4. hand["guard"] \in SUBSET Messages /\ Safe(inbox)
  BY DEF TInv, AroundOK
<1>5. Safe(inbox') /\ (Undisturbed' => Kept)
  <2>1. Undisturbed' => Unclosed(hand["guard"]) = hand["guard"]
    BY DEF GuardWrites, Overlap, Undisturbed, Causes
  <2>2. Undisturbed' => \A m \in hand["guard"] : inbox[m].st \in Open
    BY <2>1 DEF Unclosed
  <2>3. QED
    BY <1>4, <2>2, ClosesKeep DEF GuardWrites
<1>6. QED
  BY <1>1, <1>2, <1>3, <1>5 DEF TInv, Keeps

LEMMA PageAcksStep == ASSUME TInv, NEW m \in Messages, PageAcks(m) PROVE Keeps
<1>1. RunsOK' /\ RequestOK' /\ UNCHANGED around
  BY DEF PageAcks, request, TInv, RunsOK, RequestOK, SafeView, Safe, View
<1>2. PICK to : inbox' = Acked(m, to) /\ Mishap(IF to = "acknowledged" THEN "seen" ELSE "page")
  BY DEF PageAcks
<1>3. PastOK'
  BY <1>2, MishapOK DEF TInv
<1>4. QED
  BY <1>1, <1>2, <1>3, Acknowledges

LEMMA RestartStep == ASSUME TInv, Restart PROVE Keeps
<1>1. RunsOK'
  BY DEF Restart, TInv, RunsOK, Run, Ended
<1>2. RequestOK'
  BY NoViewSafe DEF Restart, RequestOK, Places, SafeView, View
<1>3. PastOK'
  BY MishapOK DEF Restart, TInv
<1>4. AroundOK'
  BY DEF Restart, TInv, AroundOK, Results, Receipts
<1>5. PICK swept \in SUBSET Unclosed({m \in Briefs : guard'}) : inbox' = Closes(swept, "completed")
  BY DEF Restart
<1>6. swept \in SUBSET Messages /\ \A m \in swept : inbox[m].st \in Open
  BY <1>5 DEF Unclosed, Briefs
<1>7. Safe(inbox') /\ Kept
  BY <1>5, <1>6, ClosesKeep DEF TInv
<1>8. QED
  BY <1>1, <1>2, <1>3, <1>4, <1>7 DEF TInv, Keeps

LEMMA RecoverStep == ASSUME TInv, NEW r \in Runs, Recover(r) PROVE Keeps
<1>1. RunsOK'
  BY DEF Recover, TInv, RunsOK, Run, Active
<1>2. RequestOK'
  BY DEF Recover, request, TInv, RequestOK, SafeView, Safe, View
<1>3. QED
  BY <1>1, <1>2, InboxUntouched, AroundStays DEF Recover, TInv, PastOK

LEMMA RecoverEndsStep == ASSUME TInv, NEW r \in Runs, RecoverEnds(r) PROVE Keeps
<1>1. PICK o \in Result(r) :
        /\ runs' = [runs EXCEPT ![r].st = o]
        /\ thread' = [thread EXCEPT ![r] = IF o = "waiting" THEN "off" ELSE o]
  BY DEF RecoverEnds
<1>2. o \in {"waiting"} \cup Ended
  BY DEF Result, Ended
<1>3. RunsOK'
  BY <1>1, <1>2, RunChanges DEF TInv, RunsOK, Active
<1>4. RequestOK'
  BY DEF RecoverEnds, request, TInv, RequestOK, SafeView, Safe, View
<1>5. QED
  BY <1>3, <1>4, InboxUntouched, AroundStays DEF RecoverEnds, TInv, PastOK

LEMMA ReportStep == ASSUME TInv, NEW r \in Runs, Report(r) PROVE Keeps
<1>1. RunsOK'
  BY DEF Report, TInv, RunsOK
<1>2. RequestOK' /\ PastOK'
  BY ReceiptOK DEF Report, request, TInv, RequestOK, SafeView, Safe, View
<1>3. QED
  BY <1>1, <1>2, Acknowledges DEF Report, Finished

LEMMA ScanStep == ASSUME TInv, NEW r \in Runs, Scan(r) PROVE Keeps
<1>1. RunsOK' /\ RequestOK'
  BY DEF Scan, request, TInv, RunsOK, RequestOK, SafeView, Safe, View
<1>2. PastOK'
  BY ReceiptOK DEF Scan, TInv
<1>3. QED
  BY <1>1, <1>2, Acknowledges DEF Scan, Finished

LEMMA StopParentStep == ASSUME TInv, StopParent PROVE Keeps
<1>1. RunsOK' /\ RequestOK'
  BY DEF StopParent, request, TInv, RunsOK, RequestOK, SafeView, Safe, View
<1>2. AroundOK'
  BY DEF StopParent, TInv, AroundOK, Results, Receipts
<1>3. QED
  BY <1>1, <1>2, InboxUntouched DEF StopParent, TInv, PastOK

-----------------------------------------------------------------------------
(* Every step keeps both.                                                   *)
LEMMA StepKeeps == TInv /\ [Next]_vars => Keeps
<1> SUFFICES ASSUME TInv, [Next]_vars PROVE Keeps
  OBVIOUS
<1>1. CASE UNCHANGED vars
  <2>1. RunsOK' /\ RequestOK'
    BY <1>1 DEF vars, request, TInv, RunsOK, RequestOK, SafeView, Safe, View
  <2>2. QED
    BY <1>1, <2>1, InboxUntouched, AroundStays DEF vars, TInv, PastOK
<1>2. ASSUME NEW q \in Requests, Works(q) PROVE Keeps
  BY <1>2, PullWritesStep, PrepareStep, PullAgainStep, PulledAgainStep, TakeStep, CreateStep, EndsStep,
     LinkStep, AckStep, SalvageStep, CancelsStep DEF Works
<1>3. ASSUME NEW q \in Requests, Pull(q) \/ Ask(q) \/ Resume(q) \/ Cancel(q) \/ Throws(q) \/ ReceiptFails(q)
      PROVE  Keeps
  BY <1>3, PullStep, AskStep, ResumeStep, CancelStep, ThrowsStep, ReceiptFailsStep
<1>4. ASSUME NEW r \in Runs, Recover(r) \/ RecoverEnds(r) \/ Report(r) \/ Scan(r) PROVE Keeps
  BY <1>4, RecoverStep, RecoverEndsStep, ReportStep, ScanStep
<1>5. ASSUME NEW m \in Messages, PageAcks(m) \/ RetryTeam(m) PROVE Keeps
  BY <1>5, PageAcksStep, RetryTeamStep
<1>6. CASE StopParent \/ StopReads \/ StopWrites \/ GuardReads \/ GuardWrites \/ Restart
  BY <1>6, StopParentStep, StopReadsStep, StopWritesStep, GuardReadsStep, GuardWritesStep, RestartStep
<1>7. QED
  BY <1>1, <1>2, <1>3, <1>4, <1>5, <1>6 DEF Next

LEMMA InitTypes == Init => TInv
<1> SUFFICES ASSUME Init PROVE TInv
  OBVIOUS
<1>1. RequestOK
  BY NoViewSafe DEF Init, RequestOK, Places, SafeView, View
<1>2. Safe(inbox)
  BY DEF Init, Safe, Row, Open, Waiting
<1>3. RunsOK /\ PastOK
  BY DEF Init, RunsOK, Run, PastOK
<1>4. AroundOK
  BY DEF Init, AroundOK, Results, Receipts
<1>5. QED
  BY <1>1, <1>2, <1>3, <1>4 DEF TInv

(* The rows, runs, requests and threads are what the code's columns and     *)
(* branches admit, and no message is claimed more than max_attempts times.  *)
THEOREM InboxTypes == Spec => []TypeOK
<1>1. TInv => TypeOK
  BY DEF TInv, TypeOK, Safe, AroundOK, RunsOK, RequestOK, PastOK
<1>2. TInv /\ [Next]_vars => TInv'
  BY StepKeeps DEF Keeps
<1>3. QED
  BY <1>1, <1>2, InitTypes, PTL DEF Spec

(* Unless one of the seven causes has come in between, a closed message stays *)
(* closed, whatever receipts, pulls and deferrals come late.                *)
THEOREM ClosedMessagesStay == Spec => ClosedStays
<1>1. TInv /\ [Next]_vars => TInv'
  BY StepKeeps DEF Keeps
<1>2. TInv /\ [Next]_vars =>
        [Undisturbed' => \A m \in Messages : inbox[m].st \in Closed => inbox'[m].st = inbox[m].st]_vars
  BY StepKeeps DEF Keeps, Kept
<1>3. QED
  BY <1>1, <1>2, InitTypes, PTL DEF Spec, ClosedStays

-----------------------------------------------------------------------------
(***************************************************************************)
(* Why a message is answered at most once, and its receipt is true: as     *)
(* long as no named cause has come in between, a message is claimed by at  *)
(* most one request or run, and by none while it waits.  Only of a brief   *)
(* that the guard has closed may the run end as it likes: nothing becomes  *)
(* of it.                                                                  *)
(***************************************************************************)

Driving == {r \in Runs : thread[r] = "driving" \/ \E q \in Requests : pc[q] = "driving" /\ run[q] = r}

\* A run holds a message until it has failed or was stopped, and nobody drives it.
Gone(r) == runs[r].st \in {"failed", "cancelled"} /\ r \notin Driving
Holds(r, m) == runs[r].src = m /\ ~Gone(r)
Prepared(q, m) == pc[q] = "prepared" /\ msg[q] = m
Unclaimed(m) == (\A r \in Runs : ~Holds(r, m)) /\ (\A q \in Requests : ~Prepared(q, m))

OneClaim ==
  /\ \A m \in Messages : \A r, s \in Runs : Holds(r, m) /\ runs[s].src = m => s <= r
  /\ \A m \in Messages : \A r \in Runs : \A q \in Requests : Holds(r, m) => ~Prepared(q, m)
  /\ \A m \in Messages : \A p, q \in Requests : Prepared(p, m) /\ Prepared(q, m) => p = q

Takable == Open \ {"processing"}
WaitingFree == \A m \in Messages : inbox[m].st \in Takable => Unclaimed(m)

RunsInOrder ==
  \A r \in Runs : runs[r].st = "none" =>
    /\ runs[r].src = None /\ runs[r].link = None
    /\ \A s \in Runs : runs[s].st # "none" => s < r

\* Links and requests know the message their run answers, or none.
OwnLinks ==
  /\ \A r \in Runs : runs[r].link \in {None, runs[r].src}
  /\ \A q \in Requests : pc[q] \in {"driving", "linking", "acking", "cancelling"} /\ run[q] # None =>
       msg[q] \in {None, runs[run[q]].src}

\* Briefs that the guard has closed.
Shut == {m \in Briefs : guard /\ inbox[m].st \in Closed}

\* At most one request or thread drives a run.
Driven ==
  /\ \A r \in Driving : runs[r].st \in {"running", "cancelled"} \/ (runs[r].st = "failed" /\ runs[r].src \in Shut)
  /\ \A p, q \in Requests : pc[p] = "driving" /\ pc[q] = "driving" /\ run[p] = run[q] => p = q
  /\ \A q \in Requests : pc[q] = "driving" => thread[run[q]] # "driving"

\* What a receipt says is true of the run.
Says(o, r) ==
  o \in Ended => runs[r].src \in Shut \/ (o = "failed" /\ Gone(r)) \/ (o # "failed" /\ runs[r].st = o)

Outcomes ==
  /\ \A q \in Requests : pc[q] \in {"linking", "acking"} /\ run[q] # None => Says(out[q], run[q])
  /\ \A r \in Runs : thread[r] # "driving" => Says(thread[r], r)

\* A request whose run was never created.
Stillborn ==
  \A q \in Requests : pc[q] = "acking" /\ run[q] = None =>
    msg[q] \in stopped /\ Unclaimed(msg[q]) /\ out[q] = "failed"

InPlace ==
  \A q \in Requests :
    /\ pc[q] # "salvaging" /\ out[q] # "thrown"
    /\ pc[q] = "idle" => msg[q] = None
    /\ pc[q] \in {"idle", "pulling", "offered", "repulling", "checked", "prepared"} => run[q] = None
    /\ pc[q] \in {"driving", "linking", "cancelling"} => run[q] \in Runs
    /\ pc[q] \in {"driving", "linking", "cancelling"} => runs[run[q]].st # "none"
    /\ pc[q] = "linking" => out[q] \in {"waiting"} \cup Ended
    /\ pc[q] \in {"offered", "repulling", "checked", "prepared", "linking", "acking"} => msg[q] \in Messages
    /\ pc[q] = "acking" => out[q] \in Ended
    /\ view[q].late \subseteq stopped

\* Who has messages in hand may close them.
Hands ==
  /\ hand["stop"] \subseteq stopped
  /\ hand["guard"] \subseteq Briefs /\ (hand["guard"] # {} => guard)
  /\ \A r \in doomed : runs[r].src \in hand["guard"]

True(m) == \E r \in Answers(m) : runs[r].st = inbox[m].st
ClosedTrue == \A m \in Messages \ Void : inbox[m].st \in {"completed", "cancelled"} => True(m)

\* A message that somebody works for says so.
Quiet(m) ==
  m \in Briefs \/ ((\A r \in Runs : runs[r].src = m => runs[r].st \in Ended) /\ \A q \in Requests : ~Prepared(q, m))
Attended == \A m \in Messages \ stopped : inbox[m].st # "processing" => Quiet(m)
Withdrawn == \A m \in retried : inbox[m].st \in Closed

Flow == OneClaim /\ RunsInOrder /\ OwnLinks /\ Driven /\ Outcomes /\ Stillborn /\ InPlace /\ Hands
Strong == Flow /\ WaitingFree /\ ClosedTrue /\ Attended /\ Withdrawn

OnceInv == TInv /\ (Undisturbed => Strong)

\* What no step takes back, and what most steps leave alone.
Lasts ==
  /\ Kept /\ UNCHANGED kind /\ stopped \subseteq stopped' /\ retried \subseteq retried'
  /\ Shut \subseteq Shut' /\ Void \subseteq Void'
Calm == \A m \in Messages : (Unclaimed(m) => Unclaimed(m)') /\ (Quiet(m) => Quiet(m)')

-----------------------------------------------------------------------------
LEMMA AroundMoves ==
  TInv /\ [Next]_vars =>
    /\ UNCHANGED kind /\ stopped \subseteq stopped' /\ retried \subseteq retried'
    /\ guard /\ Briefs # {} => guard'
<1> DEFINE Moves == /\ UNCHANGED kind /\ stopped \subseteq stopped' /\ retried \subseteq retried'
                    /\ guard /\ Briefs # {} => guard'
<1> SUFFICES ASSUME TInv, [Next]_vars PROVE Moves
  OBVIOUS
<1>1. ASSUME UNCHANGED around PROVE Moves
  <2>1. UNCHANGED <<kind, stopped, retried, guard>>
    BY <1>1 DEF around
  <2>2. guard /\ Briefs # {} => guard'
    BY <2>1, Zenon
  <2>3. QED
    BY <2>1, <2>2
<1>2. CASE UNCHANGED vars
  BY <1>1, <1>2 DEF vars
<1>3. ASSUME NEW q \in Requests, Works(q) PROVE Moves
  <2>1. UNCHANGED around
    BY <1>3 DEF Works, PullWrites, Prepare, PullAgain, PulledAgain, Take, Create, Ends, Link, Ack, Salvage, Cancels
  <2>2. QED
    BY <1>1, <2>1
<1>4. ASSUME NEW q \in Requests, Pull(q) \/ Ask(q) \/ Resume(q) \/ Cancel(q) \/ Throws(q) \/ ReceiptFails(q)
      PROVE  Moves
  <2>1. UNCHANGED around
    BY <1>4 DEF Pull, Ask, Resume, Cancel, Throws, ReceiptFails
  <2>2. QED
    BY <1>1, <2>1
<1>5. ASSUME NEW r \in Runs, Recover(r) \/ RecoverEnds(r) \/ Report(r) \/ Scan(r) PROVE Moves
  <2>1. UNCHANGED around
    BY <1>5 DEF Recover, RecoverEnds, Report, Scan
  <2>2. QED
    BY <1>1, <2>1
<1>6. ASSUME NEW m \in Messages, PageAcks(m) \/ RetryTeam(m) PROVE Moves
  <2>1. CASE PageAcks(m)
    BY <1>1, <2>1 DEF PageAcks
  <2>2. CASE RetryTeam(m)
    BY <2>2, Zenon DEF RetryTeam
  <2>3. QED
    BY <1>6, <2>1, <2>2
<1>7. CASE StopParent \/ StopReads \/ StopWrites \/ GuardReads \/ GuardWrites
  <2>1. UNCHANGED <<kind, retried, guard>> /\ stopped \subseteq stopped'
    BY <1>7 DEF StopParent, StopReads, StopWrites, GuardReads, GuardWrites
  <2>2. guard /\ Briefs # {} => guard'
    BY <2>1, Zenon
  <2>3. QED
    BY <2>1, <2>2
<1>8. CASE Restart
  <2>1. guard' = guard \/ guard' = (Briefs # {})
    BY <1>8 DEF Restart
  <2>2. guard /\ Briefs # {} => guard'
    BY <2>1, Zenon
  <2>3. QED
    BY <1>8, <2>2 DEF Restart
<1>9. QED
  BY <1>2, <1>3, <1>4, <1>5, <1>6, <1>7, <1>8 DEF Next

(* What is closed, stopped, withdrawn or shut stays so.                     *)
LEMMA StepLasts == TInv /\ Undisturbed' /\ [Next]_vars => Lasts
<1> SUFFICES ASSUME TInv, Undisturbed', [Next]_vars PROVE Lasts
  OBVIOUS
<1>1. Kept
  BY StepKeeps DEF Keeps
<1>2. /\ UNCHANGED kind /\ stopped \subseteq stopped' /\ retried \subseteq retried'
      /\ guard /\ Briefs # {} => guard'
  BY AroundMoves
<1>3. Briefs' = Briefs
  BY <1>2 DEF Briefs
<1>4. ASSUME NEW m \in Shut PROVE m \in Shut'
  <2>1. m \in Briefs /\ guard /\ inbox[m].st \in Closed /\ m \in Messages
    BY <1>4, Zenon DEF Shut, Briefs
  <2>2. m \in Briefs' /\ inbox'[m].st \in Closed
    BY <1>1, <1>3, <2>1 DEF Kept
  <2>3. guard'
    BY <1>2, <2>1, Zenon
  <2>4. QED
    BY <2>2, <2>3, Zenon DEF Shut
<1>5. ASSUME NEW m \in Void PROVE m \in Void'
  <2>1. CASE m \in stopped \cup retried
    BY <1>2, <2>1 DEF Void
  <2>2. CASE m \notin stopped \cup retried
    <3>1. m \in Briefs /\ guard
      BY <1>5, <2>2, Zenon DEF Void
    <3>2. guard'
      BY <1>2, <3>1, Zenon
    <3>3. m \in Briefs'
      BY <1>3, <3>1
    <3>4. QED
      BY <3>2, <3>3, Zenon DEF Void
  <2>3. QED
    BY <2>1, <2>2
<1>6. QED
  BY <1>1, <1>2, <1>4, <1>5 DEF Lasts

(* An acknowledgement opens a message only by a failure.                    *)
LEMMA AckEffect ==
  ASSUME Safe(inbox), NEW m, NEW to, NEW x \in Messages, Acked(m, to)[x] # inbox[x]
  PROVE  /\ x = m /\ inbox[x].st \in Open
         /\ to = "failed" => Acked(m, to)[x].st \in {"queued", "dead_letter"}
         /\ to # "failed" => Acked(m, to)[x].st = to
<1>1. to \in Allowed(inbox[m].st) /\ Acked(m, to) = [inbox EXCEPT ![m].st = IF to = "failed" THEN Failed(m) ELSE to]
  BY DEF Acked
<1>2. inbox \in [Messages -> Row] /\ x = m
  BY <1>1 DEF Safe
<1>3. Acked(m, to)[x].st = IF to = "failed" THEN Failed(m) ELSE to
  BY <1>1, <1>2 DEF Row
<1>4. inbox[x].st \in Open
  BY <1>1, <1>2 DEF Allowed, Open, Waiting
<1>5. QED
  BY <1>2, <1>3, <1>4 DEF Failed

(* What waits is free, what is closed says why, and what is worked for says *)
(* so, if this holds of the messages that a step has changed.               *)
LEMMA InboxMoves ==
  ASSUME TInv, Strong, Lasts, Flow',
         \A m \in Messages : inbox'[m].st # "processing" => (Unclaimed(m) => Unclaimed(m)') /\ (Quiet(m) => Quiet(m)'),
         \A r \in Runs : runs[r].src # None => runs'[r].src = runs[r].src,
         \A r \in Runs : runs[r].src \notin Void' /\ runs[r].st \in {"completed", "cancelled"} => runs'[r].st = runs[r].st,
         \A m \in Messages : inbox'[m] # inbox[m] =>
           /\ inbox'[m].st \in Takable => Unclaimed(m)' \/ inbox[m].st \in Takable
           /\ inbox'[m].st \in {"completed", "cancelled"} => m \in Void' \/ True(m)'
           /\ m \notin stopped' /\ inbox'[m].st # "processing" => inbox[m].st # "processing" \/ Quiet(m)',
         \A m \in retried' : m \in retried \/ inbox'[m].st \in Closed
  PROVE  Strong'
<1>1. WaitingFree'
  BY DEF Strong, WaitingFree, Takable
<1>2. ClosedTrue'
  <2> SUFFICES ASSUME NEW m \in Messages \ Void', inbox'[m].st \in {"completed", "cancelled"}
               PROVE  True(m)'
    BY DEF ClosedTrue
  <2>1. CASE inbox'[m] # inbox[m]
    BY <2>1
  <2>2. CASE inbox'[m] = inbox[m]
    <3>1. m \notin Void
      BY DEF Lasts
    <3>2. PICK r \in Runs : runs[r].src = m /\ runs[r].st = inbox[m].st
      BY <2>2, <3>1 DEF Strong, ClosedTrue, True, Answers
    <3>3. runs'[r].src = m /\ runs'[r].st = inbox'[m].st
      BY <2>2, <3>2
    <3>4. QED
      BY <3>3 DEF True, Answers
  <2>3. QED
    BY <2>1, <2>2
<1>3. Attended'
  BY DEF Strong, Attended, Lasts
<1>4. Withdrawn'
  <2>1. \A m \in retried : m \in Messages /\ inbox[m].st \in Closed
    BY DEF Strong, Withdrawn, TInv, AroundOK, Receipts
  <2>2. QED
    BY <2>1 DEF Withdrawn, Lasts, Kept
<1>5. QED
  BY <1>1, <1>2, <1>3, <1>4 DEF Strong

(* The inbox as it was, no new claim, no run that takes back its end.       *)
LEMMA InboxStays ==
  ASSUME TInv, Strong, Lasts, UNCHANGED <<inbox, retried>>, Flow', Calm,
         \A r \in Runs : runs[r].src # None => runs'[r].src = runs[r].src,
         \A r \in Runs : runs[r].src \notin Void' /\ runs[r].st \in {"completed", "cancelled"} => runs'[r].st = runs[r].st
  PROVE  Strong'
  BY InboxMoves DEF Calm

-----------------------------------------------------------------------------
(* A request that has no run, and who has messages in hand, go on so.       *)
LEMMA StillbornStays ==
  ASSUME Flow, Calm, stopped \subseteq stopped',
         \A q \in Requests : pc'[q] = "acking" /\ run'[q] = None =>
           pc[q] = "acking" /\ run[q] = None /\ msg'[q] = msg[q] /\ out'[q] = out[q]
  PROVE  Stillborn'
<1> SUFFICES ASSUME NEW q \in Requests, pc'[q] = "acking", run'[q] = None
             PROVE  msg'[q] \in stopped' /\ Unclaimed(msg[q])' /\ out'[q] = "failed"
  BY DEF Stillborn
<1>1. PICK m \in Messages : m = msg[q] /\ m = msg'[q]
  BY DEF Flow, InPlace
<1>2. m \in stopped /\ Unclaimed(m) /\ out[q] = "failed"
  BY <1>1 DEF Flow, Stillborn
<1>3. Unclaimed(m)'
  BY <1>2 DEF Calm
<1>4. Unclaimed(msg[q])'
  BY <1>1, <1>3 DEF Unclaimed
<1>5. QED
  BY <1>1, <1>2, <1>4

LEMMA HandsStay ==
  ASSUME TInv, Flow, UNCHANGED around, \A r \in Runs : runs[r].src # None => runs'[r].src = runs[r].src
  PROVE  Hands'
<1>1. Hands /\ UNCHANGED <<kind, guard, hand, stopped, doomed>> /\ Briefs' = Briefs
  BY DEF Flow, around, Briefs
<1>2. hand'["guard"] # {} => guard'
  BY <1>1, Zenon DEF Hands
<1>3. \A r \in doomed : r \in Runs /\ runs[r].src \in hand["guard"] /\ runs[r].src # None
  BY <1>1 DEF Hands, Briefs, TInv, AroundOK
<1>4. QED
  BY <1>1, <1>2, <1>3 DEF Hands

(* Requests that read, return or fail change no claim.                      *)
LEMMA ReturnsFlow ==
  ASSUME TInv, Flow, Lasts, NEW q \in Requests, Returns(q), UNCHANGED <<around, runs, thread>>
  PROVE  Flow' /\ Calm
<1>1. /\ pc'[q] = "idle" /\ out'[q] = "none" /\ view'[q].late = {} /\ msg'[q] = None /\ run'[q] = None
      /\ \A p \in Requests : p # q =>
            pc'[p] = pc[p] /\ msg'[p] = msg[p] /\ run'[p] = run[p] /\ out'[p] = out[p] /\ view'[p] = view[p]
      /\ runs' = runs /\ thread' = thread /\ kind' = kind /\ stopped' = stopped
  BY DEF Returns, TInv, RequestOK, NoView, around
<1>2. Driving' \subseteq Driving
  BY <1>1 DEF Driving
<1>3. Shut \subseteq Shut' /\ Briefs' = Briefs
  BY <1>1 DEF Lasts, Briefs
<1>4. Calm
  BY <1>1, <1>2, <1>3 DEF Calm, Unclaimed, Quiet, Holds, Gone, Prepared
<1>5. (OneClaim /\ RunsInOrder /\ OwnLinks)'
  BY <1>1, <1>2 DEF Flow, OneClaim, RunsInOrder, OwnLinks, Holds, Gone, Prepared
<1>6. (Driven /\ Outcomes)'
  BY <1>1, <1>2, <1>3 DEF Flow, Driven, Outcomes, Says, Gone
<1>7. InPlace'
  BY <1>1 DEF Flow, InPlace
<1>8. Stillborn' /\ Hands'
  BY <1>1, <1>4, StillbornStays, HandsStay
<1>9. QED
  BY <1>4, <1>5, <1>6, <1>7, <1>8 DEF Flow

LEMMA MovesFlow ==
  ASSUME TInv, Flow, Lasts, NEW q \in Requests, NEW p \in {"pulling", "offered", "repulling", "checked"}, Goes(q, p),
         pc[q] \in {"idle", "pulling", "offered", "repulling"},
         UNCHANGED <<around, runs, thread, run, out>>, RequestOK',
         p # "pulling" => msg'[q] \in Messages,
         view'[q].late \subseteq stopped,
         \A x \in Requests : x # q => msg'[x] = msg[x] /\ view'[x] = view[x]
  PROVE  Flow' /\ Calm
<1>1. /\ pc'[q] = p
      /\ \A x \in Requests : x # q => pc'[x] = pc[x] /\ msg'[x] = msg[x] /\ view'[x] = view[x]
      /\ run' = run /\ out' = out /\ runs' = runs /\ thread' = thread /\ kind' = kind /\ stopped' = stopped
  BY DEF Goes, TInv, RequestOK, around
<1>2. Driving' \subseteq Driving
  BY <1>1 DEF Driving
<1>3. Shut \subseteq Shut' /\ Briefs' = Briefs
  BY <1>1 DEF Lasts, Briefs
<1>4. Calm
  BY <1>1, <1>2, <1>3 DEF Calm, Unclaimed, Quiet, Holds, Gone, Prepared
<1>5. (OneClaim /\ RunsInOrder /\ OwnLinks)'
  BY <1>1, <1>2 DEF Flow, OneClaim, RunsInOrder, OwnLinks, Holds, Gone, Prepared
<1>6. (Driven /\ Outcomes)'
  BY <1>1, <1>2, <1>3 DEF Flow, Driven, Outcomes, Says, Gone
<1>7. InPlace'
  BY <1>1 DEF Flow, InPlace
<1>8. Stillborn' /\ Hands'
  BY <1>1, <1>4, StillbornStays, HandsStay
<1>9. QED
  BY <1>4, <1>5, <1>6, <1>7, <1>8 DEF Flow

LEMMA PullStrong == ASSUME TInv, TInv', Strong, Lasts, NEW q \in Requests, Pull(q) PROVE Strong'
<1>1. /\ view'[q] = Snapshot /\ Snapshot.late \subseteq stopped
      /\ \A x \in Requests : x # q => msg'[x] = msg[x] /\ view'[x] = view[x]
  BY DEF Pull, TInv, RequestOK, Snapshot
<1>2. Flow' /\ Calm
  BY <1>1, MovesFlow DEF Pull, Strong, TInv
<1>3. QED
  BY <1>2, InboxStays DEF Pull, around

LEMMA PullAgainStrong == ASSUME TInv, TInv', Strong, Lasts, NEW q \in Requests, PullAgain(q) PROVE Strong'
<1>1. /\ view'[q] = Snapshot /\ Snapshot.late \subseteq stopped /\ msg'[q] \in Messages
      /\ \A x \in Requests : x # q => msg'[x] = msg[x] /\ view'[x] = view[x]
  BY DEF PullAgain, TInv, RequestOK, Snapshot, Strong, Flow, InPlace
<1>2. Flow' /\ Calm
  BY <1>1, MovesFlow DEF PullAgain, Strong, TInv
<1>3. QED
  BY <1>2, InboxStays DEF PullAgain, around

(* A pull offers what was waiting, and withdraws what was stopped.          *)
LEMMA PullEffect ==
  ASSUME TInv, Strong, Lasts, NEW v, SafeView(v), v.box = inbox, v.late \subseteq stopped, inbox' = Pulled(v),
         UNCHANGED <<around, runs>>, Flow', Calm
  PROVE  Strong'
<1>1. UNCHANGED <<stopped, retried>> /\ stopped \subseteq Void'
  BY DEF around, Void
<1>2. ASSUME NEW m \in Messages, inbox'[m] # inbox[m]
      PROVE  inbox[m].st \in Takable /\ (inbox'[m].st \in {"completed", "cancelled"} => m \in stopped)
  <2>1. inbox[m] \in Row
    BY DEF TInv, Safe
  <2>2. CASE m \in v.late
    BY <2>1, <2>2 DEF SafeView, Takable, Open, Waiting
  <2>3. CASE m \notin v.late
    BY <1>2, <2>1, <2>3 DEF Pulled, Row, Takable, Open, Waiting
  <2>4. QED
    BY <2>2, <2>3
<1>3. "processing" \notin Takable
  BY DEF Takable
<1>4. QED
  BY <1>1, <1>2, <1>3, InboxMoves DEF Calm

LEMMA PullWritesStrong ==
  ASSUME TInv, TInv', Strong, Lasts, Undisturbed', NEW q \in Requests, PullWrites(q)
  PROVE  Strong'
<1>1. view[q].box = inbox
  BY DEF PullWrites, Overlap, Undisturbed, Causes
<1>2. SafeView(view[q]) /\ view[q].late \subseteq stopped
  BY DEF TInv, RequestOK, Strong, Flow, InPlace
<1>3. Flow' /\ Calm
  <2>1. CASE Returns(q)
    BY <2>1, ReturnsFlow DEF PullWrites, Strong
  <2>2. CASE ~Returns(q)
    <3>1. PICK m \in Messages : msg' = [msg EXCEPT ![q] = m]
      BY <2>2 DEF PullWrites, Offered
    <3>2. /\ Goes(q, "offered") /\ msg'[q] \in Messages /\ view'[q].late = {}
          /\ \A x \in Requests : x # q => msg'[x] = msg[x] /\ view'[x] = view[x]
      BY <2>2, <3>1 DEF PullWrites, TInv, RequestOK, NoView
    <3>3. QED
      BY <2>2, <3>2, MovesFlow DEF PullWrites, Strong, TInv
  <2>3. QED
    BY <2>1, <2>2
<1>4. QED
  BY <1>1, <1>2, <1>3, PullEffect DEF PullWrites

LEMMA PulledAgainStrong ==
  ASSUME TInv, TInv', Strong, Lasts, Undisturbed', NEW q \in Requests, PulledAgain(q)
  PROVE  Strong'
<1>1. view[q].box = inbox
  BY DEF PulledAgain, Overlap, Undisturbed, Causes
<1>2. SafeView(view[q]) /\ view[q].late \subseteq stopped
  BY DEF TInv, RequestOK, Strong, Flow, InPlace
<1>3. Flow' /\ Calm
  <2>1. CASE Returns(q)
    BY <2>1, ReturnsFlow DEF PulledAgain, Strong
  <2>2. CASE ~Returns(q)
    <3>1. Goes(q, "checked") /\ view' = [view EXCEPT ![q] = NoView] /\ UNCHANGED <<msg, run, out>>
      BY <2>2 DEF PulledAgain
    <3>2. /\ msg'[q] \in Messages /\ view'[q].late = {}
          /\ \A x \in Requests : x # q => msg'[x] = msg[x] /\ view'[x] = view[x]
      BY <3>1 DEF PulledAgain, Strong, Flow, InPlace, TInv, RequestOK, NoView
    <3>3. QED
      BY <3>1, <3>2, MovesFlow DEF PulledAgain, Strong, TInv
  <2>3. QED
    BY <2>1, <2>2
<1>4. QED
  BY <1>1, <1>2, <1>3, PullEffect DEF PulledAgain

-----------------------------------------------------------------------------
(* Who takes a message that waits is its only claimant.                     *)
LEMMA ClaimStrong ==
  ASSUME TInv, TInv', Strong, Lasts, NEW q \in Requests, pc[q] \in {"offered", "checked"},
         msg[q] \in Messages, inbox[msg[q]].st \in Takable,
         msg[q] \notin stopped, inbox' = Acked(msg[q], "processing"), Goes(q, "prepared"),
         UNCHANGED <<around, runs, thread, msg, run, out, view>>
  PROVE  Strong'
<1>0. PICK m \in Messages : m = msg[q]
  OBVIOUS
<1>1. /\ pc'[q] = "prepared" /\ \A p \in Requests : p # q => pc'[p] = pc[p]
      /\ msg' = msg /\ run' = run /\ out' = out /\ runs' = runs /\ thread' = thread /\ view' = view
      /\ stopped' = stopped /\ retried' = retried
  BY DEF Goes, TInv, RequestOK, around
<1>2. Unclaimed(m)
  BY <1>0 DEF Strong, WaitingFree
<1>3. inbox'[m].st = "processing" /\ \A x \in Messages : x # m => inbox'[x] = inbox[x]
  <2>1. "processing" \in Allowed(inbox[m].st)
    BY <1>0 DEF Allowed, Takable, Open, Waiting
  <2>2. QED
    BY <1>0, <2>1 DEF Acked, TInv, Safe, Row
<1>4. Driving' \subseteq Driving /\ Shut \subseteq Shut' /\ Briefs' = Briefs
  <2>1. Driving' \subseteq Driving
    BY <1>1 DEF Driving
  <2>2. QED
    BY <2>1 DEF Lasts, Briefs
<1>5. \A x \in Messages : x # m => (Unclaimed(x) => Unclaimed(x)') /\ (Quiet(x) => Quiet(x)')
  BY <1>0, <1>1, <1>4 DEF Unclaimed, Quiet, Holds, Gone, Prepared
<1>6. OneClaim'
  <2>1. OneClaim
    BY DEF Strong, Flow
  <2>2. \A x \in Messages : \A r \in Runs : Holds(r, x)' => Holds(r, x)
    <3>1. ASSUME NEW r \in Runs, r \in Driving' PROVE r \in Driving
      BY <1>4, <3>1
    <3>2. ASSUME NEW r \in Runs, Gone(r) PROVE Gone(r)'
      BY <1>1, <3>1, <3>2 DEF Gone
    <3>3. QED
      BY <1>1, <3>2 DEF Holds
  <2>3. \A x \in Messages : \A p \in Requests : Prepared(p, x)' => Prepared(p, x) \/ (p = q /\ x = m)
    BY <1>0, <1>1 DEF Prepared
  <2>4. \A r \in Runs : ~Holds(r, m)
    BY <1>2 DEF Unclaimed
  <2>5. \A p \in Requests : ~Prepared(p, m)
    BY <1>2 DEF Unclaimed
  <2>6. \A x \in Messages : \A r, s \in Runs : Holds(r, x)' /\ runs'[s].src = x => s <= r
    BY <1>1, <2>1, <2>2 DEF OneClaim
  <2>7. \A x \in Messages : \A r \in Runs : \A p \in Requests : Holds(r, x)' => ~Prepared(p, x)'
    BY <2>1, <2>2, <2>3, <2>4 DEF OneClaim
  <2>8. \A x \in Messages : \A p, s \in Requests : Prepared(p, x)' /\ Prepared(s, x)' => p = s
    BY <2>1, <2>3, <2>5 DEF OneClaim
  <2>9. QED
    BY <2>6, <2>7, <2>8 DEF OneClaim
<1>7. (RunsInOrder /\ OwnLinks)'
  BY <1>1 DEF Strong, Flow, RunsInOrder, OwnLinks
<1>8. (Driven /\ Outcomes)'
  BY <1>1, <1>4 DEF Strong, Flow, Driven, Outcomes, Says, Gone
<1>9. InPlace'
  BY <1>0, <1>1 DEF Strong, Flow, InPlace
<1>10. Hands'
  BY <1>1, HandsStay DEF Strong
<1>11. Stillborn'
  <2> SUFFICES ASSUME NEW p \in Requests, pc'[p] = "acking", run'[p] = None
               PROVE  msg'[p] \in stopped' /\ Unclaimed(msg[p])' /\ out'[p] = "failed"
    BY DEF Stillborn
  <2>1. p # q /\ pc[p] = "acking" /\ run[p] = None
    BY <1>1
  <2>2. PICK x \in Messages : x = msg[p] /\ x = msg'[p]
    BY <1>1, <2>1 DEF Strong, Flow, InPlace
  <2>3. x \in stopped /\ Unclaimed(x) /\ out[p] = "failed"
    BY <2>1, <2>2 DEF Strong, Flow, Stillborn
  <2>4. Unclaimed(x)'
    BY <1>0, <1>5, <2>3
  <2>5. Unclaimed(msg[p])'
    BY <2>2, <2>4 DEF Unclaimed
  <2>6. QED
    BY <1>1, <2>1, <2>2, <2>3, <2>5
<1>12. Flow'
  BY <1>6, <1>7, <1>8, <1>9, <1>10, <1>11 DEF Flow
<1>13. /\ \A r \in Runs : runs'[r].src = runs[r].src /\ runs'[r].st = runs[r].st
       /\ \A x \in Messages : inbox'[x] # inbox[x] => x = m
       /\ inbox'[m].st = "processing" /\ "processing" \notin Takable
  BY <1>1, <1>3 DEF Takable
<1>14. \A x \in Messages : inbox'[x].st # "processing" => (Unclaimed(x) => Unclaimed(x)') /\ (Quiet(x) => Quiet(x)')
  BY <1>5, <1>13
<1>15. QED
  BY <1>1, <1>12, <1>13, <1>14, InboxMoves

(* A receipt opens a free message or closes one as its run ended.           *)
LEMMA ReceiptStrong ==
  ASSUME TInv, Strong, Lasts, NEW m, NEW to \in Ended, inbox' \in {inbox, Acked(m, to)},
         UNCHANGED <<around, runs>>, Flow', Calm,
         m \in Messages /\ inbox' # inbox /\ m \notin stopped => Quiet(m),
         m \in Messages /\ inbox' # inbox /\ to = "failed" => Unclaimed(m),
         m \in Messages /\ inbox' # inbox /\ to # "failed" => m \in Void \/ \E r \in Answers(m) : runs[r].st = to
  PROVE  Strong'
<1>1. ASSUME NEW x \in Messages, inbox'[x] # inbox[x]
      PROVE  /\ x = m /\ inbox' # inbox
             /\ to = "failed" => inbox'[x].st \in {"queued", "dead_letter"} /\ Unclaimed(x)'
             /\ to # "failed" => inbox'[x].st = to
             /\ x \notin stopped => Quiet(x)'
  <2>1. Safe(inbox) /\ inbox' = Acked(m, to) /\ Acked(m, to)[x] # inbox[x] /\ inbox' # inbox
    BY <1>1 DEF TInv
  <2>2. /\ x = m
        /\ to = "failed" => Acked(m, to)[x].st \in {"queued", "dead_letter"}
        /\ to # "failed" => Acked(m, to)[x].st = to
    <3>1. Safe(inbox) /\ Acked(m, to)[x] # inbox[x]
      BY <2>1
    <3>2. QED
      BY ONLY <3>1, AckEffect
  <2>3. (to = "failed" => Unclaimed(x)') /\ (x \notin stopped => Quiet(x)')
    BY <2>1, <2>2 DEF Calm
  <2>4. QED
    BY <2>1, <2>2, <2>3
<1>2. UNCHANGED <<stopped, retried>> /\ Void \subseteq Void' /\ runs' = runs
  BY DEF around, Lasts
<1>3. ASSUME NEW x \in Messages, inbox'[x] # inbox[x]
      PROVE  /\ inbox'[x].st \in Takable => Unclaimed(x)'
             /\ inbox'[x].st \in {"completed", "cancelled"} => x \in Void' \/ True(x)'
  <2>1. CASE to = "failed"
    BY <1>1, <1>3, <2>1
  <2>2. CASE to # "failed"
    <3>1. inbox'[x].st = to /\ x = m /\ inbox' # inbox
      BY <1>1, <1>3, <2>2
    <3>2. inbox'[x].st \notin Takable
      BY <3>1 DEF Takable, Open, Waiting, Ended
    <3>3. x \in Void' \/ \E r \in Answers(x) : runs[r].st = to
      BY <1>2, <2>2, <3>1
    <3>4. x \in Void' \/ True(x)'
      BY <1>2, <3>1, <3>3 DEF True, Answers
    <3>5. QED
      BY <3>2, <3>4
  <2>3. QED
    BY <2>1, <2>2
<1>4. \A x \in Messages : inbox'[x] # inbox[x] => x \in stopped' \/ Quiet(x)'
  BY <1>1, <1>2
<1>5. QED
  BY <1>2, <1>3, <1>4, InboxMoves DEF Calm

(* Only what nobody works for is closed without a run.                      *)
LEMMA PrepareStrong == ASSUME TInv, TInv', Strong, Lasts, NEW q \in Requests, Prepare(q) PROVE Strong'
<1>0. PICK m \in Messages : m = msg[q]
  BY DEF Prepare, Strong, Flow, InPlace
<1>1. pc[q] = "offered" /\ UNCHANGED <<around, runs, thread>>
  BY DEF Prepare
<1>2. CASE Returns(q) /\ UNCHANGED inbox
  BY <1>1, <1>2, ReturnsFlow, InboxStays DEF Strong, around
<1>3. CASE Ready(m) /\ m \in Void /\ Returns(q) /\ inbox' = Acked(m, "completed")
  <2>1. Flow' /\ Calm
    BY <1>1, <1>3, ReturnsFlow DEF Strong
  <2>2. m \notin stopped => Quiet(m)
    BY <1>3 DEF Ready, Strong, Attended
  <2>3. QED
    BY <1>1, <1>3, <2>1, <2>2, ReceiptStrong DEF Ended
<1>4. CASE /\ Ready(m) /\ m \notin Void
           /\ inbox' = Acked(m, "processing") /\ Goes(q, "prepared") /\ UNCHANGED <<msg, run, out, view>>
  BY <1>0, <1>1, <1>4, ClaimStrong DEF Ready, Takable, Open, Waiting, Void
<1>5. QED
  BY <1>0, <1>2, <1>3, <1>4 DEF Prepare

LEMMA TakeStrong == ASSUME TInv, TInv', Strong, Lasts, Undisturbed', NEW q \in Requests, Take(q) PROVE Strong'
<1>0. PICK m \in Messages : m = msg[q]
  BY DEF Take, Strong, Flow, InPlace
<1>1. pc[q] = "checked" /\ UNCHANGED <<around, runs, thread>>
  BY DEF Take
<1>2. CASE m \in Void
  <2>1. Returns(q) /\ inbox' = Acked(m, "completed")
    BY <1>0, <1>2 DEF Take
  <2>2. Flow' /\ Calm
    BY <1>1, <2>1, ReturnsFlow DEF Strong
  <2>3. inbox' # inbox /\ m \notin stopped => Quiet(m)
    <3>1. m \in retried => inbox' = inbox
      BY <2>1 DEF Strong, Withdrawn, Acked, Allowed, Closed
    <3>2. m \in Briefs => Quiet(m)
      BY DEF Quiet
    <3>3. QED
      BY <1>2, <3>1, <3>2 DEF Void
  <2>4. QED
    BY <1>1, <1>2, <2>1, <2>2, <2>3, ReceiptStrong DEF Ended
<1>3. CASE m \notin Void /\ Accepted(m, "processing")
  <2>1. /\ inbox' = Acked(m, "processing") /\ Goes(q, "prepared") /\ UNCHANGED <<msg, run, out, view>>
        /\ mishaps' = IF inbox' = inbox THEN mishaps \cup {"shared"} ELSE mishaps
    BY <1>0, <1>3 DEF Take
  <2>2. inbox' # inbox
    BY <2>1 DEF Undisturbed, Causes
  <2>3. inbox[m].st \in Takable
    BY <2>1, <2>2 DEF Acked, Allowed, Takable, Open, Waiting, Ended
  <2>4. QED
    BY <1>0, <1>1, <1>3, <2>1, <2>3, ClaimStrong DEF Void
<1>4. CASE m \notin Void /\ ~Accepted(m, "processing")
  <2>1. Returns(q) /\ inbox' = Acked(m, "processing")
    BY <1>0, <1>4 DEF Take
  <2>2. inbox' = inbox
    BY <1>4, <2>1 DEF Accepted, Acked
  <2>3. QED
    BY <1>1, <2>1, <2>2, ReturnsFlow, InboxStays DEF Strong, around
<1>5. QED
  BY <1>2, <1>3, <1>4

(* If nobody has taken it since, a message whose run failed or was stopped  *)
(* is free, and one whose run has ended is worked for by nobody.            *)
LEMMA NotTaken ==
  ASSUME TInv, Strong, NEW r \in Runs, NEW m \in Messages, runs[r].src = m, ~Taken(r, m)
  PROVE  /\ Gone(r) => Unclaimed(m)
         /\ runs[r].st \in Ended => Quiet(m)
<1>1. \A q \in Requests : ~Prepared(q, m)
  BY DEF Taken, Prepared
<1>2. ASSUME NEW s \in Runs, Holds(s, m) PROVE s = r
  <2>1. r <= s
    BY <1>2 DEF Strong, Flow, OneClaim
  <2>2. r \in Nat \ {0} /\ s \in Nat
    BY DEF Runs
  <2>3. ~(s > r)
    BY <1>2, <2>2 DEF Taken, Holds
  <2>4. QED
    BY <2>1, <2>2, <2>3
<1>3. Gone(r) => Unclaimed(m)
  BY <1>1, <1>2 DEF Unclaimed, Holds
<1>4. ASSUME runs[r].st \in Ended, NEW s \in Runs, runs[s].src = m PROVE runs[s].st \in Ended
  <2>1. CASE Holds(s, m)
    BY <1>2, <1>4, <2>1
  <2>2. CASE ~Holds(s, m)
    BY <1>4, <2>2 DEF Holds, Gone, Ended
  <2>3. QED
    BY <2>1, <2>2
<1>5. QED
  BY <1>1, <1>3, <1>4 DEF Quiet

LEMMA FreeIsQuiet == ASSUME NEW m \in Messages, Unclaimed(m) PROVE Quiet(m)
  BY DEF Unclaimed, Quiet, Holds, Gone, Ended

\* Says(o, r)', of one that is said anew.
Told(o, r) ==
  o \in Ended => \/ runs'[r].src \in Shut'
                 \/ o = "failed" /\ runs'[r].st \in {"failed", "cancelled"} /\ r \notin Driving'
                 \/ o # "failed" /\ runs'[r].st = o

(* What was said of a run stays true while it keeps its end, or is shut.    *)
LEMMA OutcomesStay ==
  ASSUME TInv, Flow, Shut \subseteq Shut',
         \A r \in Runs : /\ runs[r].src # None => runs'[r].src = runs[r].src
                         /\ Gone(r) => (runs'[r].st \in {"failed", "cancelled"} /\ r \notin Driving') \/ runs'[r].src \in Shut'
                         /\ runs[r].st \in {"completed", "cancelled"} =>
                              runs'[r].st = runs[r].st \/ runs'[r].src \in Shut',
         \A q \in Requests : pc'[q] \in {"linking", "acking"} /\ run'[q] # None =>
           \/ pc[q] \in {"linking", "acking"} /\ run'[q] = run[q] /\ out'[q] = out[q]
           \/ Told(out'[q], run'[q]),
         \A r \in Runs : thread'[r] # "driving" => thread'[r] = thread[r] \/ Told(thread'[r], r)
  PROVE  Outcomes'
<1>1. ASSUME NEW o, NEW r \in Runs, Says(o, r) PROVE Told(o, r)
  <2>1. runs[r].src \in Shut => runs[r].src # None
    BY DEF Shut, Briefs
  <2>2. QED
    BY <1>1, <2>1 DEF Says, Told, Ended
<1>2. ASSUME NEW q \in Requests, pc'[q] \in {"linking", "acking"}, run'[q] # None PROVE Told(out'[q], run'[q])
  <2>1. CASE pc[q] \in {"linking", "acking"} /\ run'[q] = run[q] /\ out'[q] = out[q]
    <3>1. run[q] \in Runs /\ Says(out[q], run[q])
      BY <1>2, <2>1 DEF Flow, Outcomes, TInv, RequestOK
    <3>2. QED
      BY <1>1, <2>1, <3>1
  <2>2. QED
    BY <1>2, <2>1
<1>3. ASSUME NEW r \in Runs, thread'[r] # "driving" PROVE Told(thread'[r], r)
  BY <1>1, <1>3 DEF Flow, Outcomes
<1>4. QED
  BY <1>2, <1>3 DEF Outcomes, Told, Says, Gone

-----------------------------------------------------------------------------
(* A new run of what its request was given, if anything.                    *)
LEMMA StartStrong ==
  ASSUME TInv, TInv', Strong, Lasts, NEW q \in Requests, NEW r \in Free,
         \/ pc[q] = "idle"
         \/ pc[q] = "prepared" /\ msg[q] \notin stopped,
         runs' = [runs EXCEPT ![r] = [st |-> "running", src |-> msg[q], link |-> None]],
         run' = [run EXCEPT ![q] = r], Goes(q, "driving"),
         UNCHANGED <<inbox, around, thread, msg, out, view>>
  PROVE  Strong'
<1>0. PICK m \in Messages \cup {None} : m = msg[q]
  BY DEF TInv, RequestOK
<1>1. /\ pc'[q] = "driving" /\ \A p \in Requests : p # q => pc'[p] = pc[p] /\ run'[p] = run[p]
      /\ run'[q] = r /\ msg' = msg /\ out' = out /\ view' = view /\ thread' = thread
      /\ stopped' = stopped /\ retried' = retried /\ inbox' = inbox
  BY DEF Goes, TInv, RequestOK, around
<1>2. /\ r \in Runs /\ runs[r].st = "none" /\ \A s \in Runs : runs[s].st = "none" => r <= s
      /\ runs[r].src = None /\ runs[r].link = None /\ \A s \in Runs : runs[s].st # "none" => s < r
  BY DEF Free, Strong, Flow, RunsInOrder
<1>3. /\ runs'[r] = [st |-> "running", src |-> m, link |-> None]
      /\ \A s \in Runs : s # r => runs'[s] = runs[s]
  BY <1>0, <1>2 DEF TInv, RunsOK
<1>4. m = None \/ (m \in Messages /\ Prepared(q, m) /\ m \notin stopped)
  BY <1>0 DEF Strong, Flow, InPlace, Prepared
<1>5. \A s \in Runs : s \in Nat /\ s # None
  BY DEF Runs
<1>6. r \notin Driving /\ Driving' \subseteq Driving \cup {r}
  <2>1. r \notin Driving
    BY <1>2 DEF Strong, Flow, Driven
  <2>2. Driving' \subseteq Driving \cup {r}
    BY <1>1 DEF Driving
  <2>3. QED
    BY <2>1, <2>2
<1>7. \A s \in Runs : s # r => (Gone(s) => Gone(s)')
  BY <1>3, <1>6 DEF Gone
<1>8. Shut \subseteq Shut' /\ Briefs' = Briefs
  BY DEF Lasts, Briefs
<1>9. \A x \in Messages : Unclaimed(x) => x # m /\ Unclaimed(x)'
  <2>1. ASSUME NEW x \in Messages, Unclaimed(x) PROVE x # m
    BY <1>4, <2>1 DEF Unclaimed
  <2>2. ASSUME NEW x \in Messages, Unclaimed(x), NEW s \in Runs PROVE ~Holds(s, x)'
    BY <1>3, <1>7, <2>1, <2>2 DEF Unclaimed, Holds
  <2>3. ASSUME NEW x \in Messages, Unclaimed(x), NEW p \in Requests PROVE ~Prepared(p, x)'
    BY <1>1, <2>3 DEF Unclaimed, Prepared
  <2>4. QED
    BY <2>1, <2>2, <2>3 DEF Unclaimed
<1>10. \A x \in Messages : Quiet(x) => Quiet(x)'
  BY <1>1, <1>3, <1>4, <1>8 DEF Quiet, Prepared
<1>11. OneClaim'
  <2>1. ASSUME NEW x \in Messages, NEW s \in Runs, NEW t \in Runs, Holds(s, x)', runs'[t].src = x
        PROVE  t <= s
    <3>1. CASE s = r
      <4>1. CASE t = r
        BY <1>5, <3>1, <4>1
      <4>2. CASE t # r
        BY <1>2, <1>3, <1>5, <2>1, <3>1, <4>2 DEF Strong, Flow, RunsInOrder
      <4>3. QED
        BY <4>1, <4>2
    <3>2. CASE s # r
      <4>1. Holds(s, x)
        BY <1>3, <1>7, <2>1, <3>2 DEF Holds
      <4>2. ASSUME t = r PROVE FALSE
        <5>1. x = m /\ Prepared(q, x)
          BY <1>3, <1>4, <2>1, <4>2
        <5>2. QED
          BY <4>1, <5>1 DEF Strong, Flow, OneClaim
      <4>3. QED
        BY <1>3, <2>1, <4>1, <4>2 DEF Strong, Flow, OneClaim
    <3>3. QED
      BY <3>1, <3>2
  <2>2. ASSUME NEW x \in Messages, NEW p \in Requests, Prepared(p, x)'
        PROVE  Prepared(p, x) /\ p # q
    BY <1>1, <2>2 DEF Prepared
  <2>3. ASSUME NEW x \in Messages, NEW s \in Runs, NEW p \in Requests, Holds(s, x)', Prepared(p, x)'
        PROVE  FALSE
    <3>1. Prepared(p, x) /\ p # q
      BY <2>2, <2>3
    <3>2. CASE s = r
      BY <1>3, <1>4, <2>3, <3>1, <3>2 DEF Strong, Flow, OneClaim, Holds
    <3>3. CASE s # r
      <4>1. Holds(s, x)
        BY <1>3, <1>7, <2>3, <3>3 DEF Holds
      <4>2. QED
        BY <3>1, <4>1 DEF Strong, Flow, OneClaim
    <3>4. QED
      BY <3>2, <3>3
  <2>4. QED
    BY <2>1, <2>2, <2>3 DEF Strong, Flow, OneClaim
<1>12. RunsInOrder'
  BY <1>2, <1>3, <1>5 DEF Strong, Flow, RunsInOrder
<1>13. OwnLinks'
  BY <1>0, <1>1, <1>2, <1>3, <1>4 DEF Strong, Flow, OwnLinks
<1>14. Driven'
  <2>1. \A s \in Driving' : s = r \/ (s \in Driving /\ s # r /\ s \in Runs)
    BY <1>6 DEF Driving
  <2>2. \A s \in Driving' : runs'[s].st \in {"running", "cancelled"} \/ (runs'[s].st = "failed" /\ runs'[s].src \in Shut')
    BY <1>3, <1>8, <2>1 DEF Strong, Flow, Driven
  <2>3. \A p \in Requests : p # q => ~(pc[p] = "driving" /\ run[p] = r)
    BY <1>2, <1>6 DEF Driving
  <2>4. thread[r] # "driving"
    BY <1>2, <1>6 DEF Driving
  <2>5. QED
    BY <1>1, <2>2, <2>3, <2>4 DEF Strong, Flow, Driven
<1>15. Outcomes'
  <2>1. ASSUME NEW s \in Runs
        PROVE  /\ runs[s].src # None => runs'[s].src = runs[s].src
               /\ Gone(s) => runs'[s].st \in {"failed", "cancelled"} /\ s \notin Driving'
               /\ runs[s].st \in {"completed", "cancelled"} => runs'[s].st = runs[s].st
    BY <1>2, <1>3, <1>6 DEF Gone
  <2>2. \A p \in Requests : pc'[p] \in {"linking", "acking"} => pc[p] \in {"linking", "acking"} /\ run'[p] = run[p]
    BY <1>1
  <2>3. QED
    BY <1>1, <1>8, <2>1, <2>2, OutcomesStay DEF Strong
<1>16. InPlace'
  BY <1>1, <1>2, <1>3 DEF Strong, Flow, InPlace
<1>17. Stillborn' /\ Hands'
  <2>1. \A s \in Runs : runs[s].src # None => runs'[s].src = runs[s].src
    BY <1>2, <1>3
  <2>2. Calm
    BY <1>9, <1>10 DEF Calm
  <2>3. QED
    BY <1>1, <1>2, <1>5, <2>1, <2>2, StillbornStays, HandsStay DEF Strong
<1>18. Flow'
  BY <1>11, <1>12, <1>13, <1>14, <1>15, <1>16, <1>17 DEF Flow
<1>19. Strong'
  BY <1>1, <1>2, <1>3, <1>9, <1>10, <1>18, InboxStays DEF Calm
<1>20. QED
  BY <1>19

(* A run that exists moves on, and no request takes or drops a message.     *)
LEMMA MoveStrong ==
  ASSUME TInv, Strong, Lasts, NEW r \in Runs, UNCHANGED <<inbox, around>>,
         runs[r].st # "none", runs'[r].st # "none",
         runs'[r].src = runs[r].src, runs'[r].link \in {None, runs[r].src},
         \A s \in Runs : s # r => runs'[s] = runs[s],
         Gone(r) => runs'[r].st \in {"failed", "cancelled"},
         \A s \in Driving' : s \in Driving \/ ~Gone(s),
         runs[r].st \in {"completed", "cancelled"} => runs'[r].st = runs[r].st,
         runs[r].st \in Ended => runs'[r].st \in Ended \/ runs[r].src \in Shut,
         \A q \in Requests : pc'[q] = "prepared" => pc[q] = "prepared" /\ msg'[q] = msg[q],
         \A q \in Requests : pc'[q] = "acking" /\ run'[q] = None =>
           pc[q] = "acking" /\ run[q] = None /\ msg'[q] = msg[q] /\ out'[q] = out[q],
         \A q \in Requests : pc'[q] \in {"driving", "linking", "acking", "cancelling"} /\ run'[q] # None =>
           msg'[q] \in {None, runs'[run'[q]].src},
         \A q \in Requests : pc'[q] \in {"linking", "acking"} /\ run'[q] # None =>
           \/ pc[q] \in {"linking", "acking"} /\ run'[q] = run[q] /\ out'[q] = out[q]
           \/ Told(out'[q], run'[q]),
         \A s \in Runs : thread'[s] # "driving" => thread'[s] = thread[s] \/ Told(thread'[s], s),
         Driven', InPlace'
  PROVE  Strong'
<1>1. ASSUME NEW s \in Runs, Gone(s)
      PROVE  runs'[s].st \in {"failed", "cancelled"} /\ s \notin Driving'
  BY <1>1 DEF Gone
<1>2. \A x : \A s \in Runs : Holds(s, x)' => Holds(s, x)
  <2>1. \A s \in Runs : Gone(s) => Gone(s)'
    BY <1>1 DEF Gone
  <2>2. QED
    BY <2>1 DEF Holds
<1>3. \A x : \A q \in Requests : Prepared(q, x)' => Prepared(q, x)
  BY DEF Prepared
<1>4. \A s \in Runs : runs'[s].src = runs[s].src
  OBVIOUS
<1>5. Shut \subseteq Shut' /\ Shut \subseteq Briefs /\ Briefs' = Briefs
  BY DEF Lasts, Briefs, Shut
<1>6. \A x \in Messages : Quiet(x) => Quiet(x)'
  <2> SUFFICES ASSUME NEW x \in Messages, Quiet(x), x \notin Briefs PROVE Quiet(x)'
    BY <1>5 DEF Quiet
  <2>1. \A q \in Requests : ~Prepared(q, x)'
    BY <1>3 DEF Quiet
  <2>2. \A s \in Runs : runs'[s].src = x => runs'[s].st \in Ended
    BY <1>4, <1>5 DEF Quiet
  <2>3. QED
    BY <2>1, <2>2 DEF Quiet
<1>7. Calm
  BY <1>2, <1>3, <1>6 DEF Unclaimed, Calm
<1>8. OneClaim'
  BY <1>2, <1>3, <1>4 DEF Strong, Flow, OneClaim
<1>9. RunsInOrder'
  BY DEF Strong, Flow, RunsInOrder
<1>10. OwnLinks'
  BY <1>4 DEF Strong, Flow, OwnLinks
<1>11. UNCHANGED <<stopped, retried>>
  BY DEF around
<1>12. Outcomes'
  <2>1. \A s \in Runs : runs[s].st \in {"completed", "cancelled"} => runs'[s].st = runs[s].st
    OBVIOUS
  <2>2. QED
    BY <1>1, <1>4, <1>5, <2>1, OutcomesStay DEF Strong
<1>13. Stillborn' /\ Hands'
  BY <1>4, <1>7, <1>11, StillbornStays, HandsStay DEF Strong
<1>14. Flow'
  BY <1>8, <1>9, <1>10, <1>12, <1>13 DEF Flow
<1>15. QED
  BY <1>4, <1>7, <1>11, <1>14, InboxStays

LEMMA CreateStrong == ASSUME TInv, TInv', Strong, Lasts, NEW q \in Requests, Create(q) PROVE Strong'
<1>0. PICK m \in Messages : m = msg[q]
  BY DEF Create, Strong, Flow, InPlace
<1>1. /\ pc[q] = "prepared" /\ run[q] = None /\ Prepared(q, m)
      /\ UNCHANGED <<around, thread, mishaps>> /\ UNCHANGED <<stopped, retried, kind>>
  BY <1>0 DEF Create, Strong, Flow, InPlace, Prepared, around
<1>2. /\ \A r \in Runs : ~Holds(r, m)
      /\ \A p \in Requests : p # q => ~Prepared(p, m)
  BY <1>1 DEF Strong, Flow, OneClaim
<1>3. Shut \subseteq Shut' /\ Briefs' = Briefs
  BY DEF Lasts, Briefs
<1>4. CASE m \in stopped
  <2>1. /\ pc'[q] = "acking" /\ out'[q] = "failed" /\ UNCHANGED <<inbox, runs, msg, run, view>>
        /\ \A p \in Requests : p # q => pc'[p] = pc[p] /\ out'[p] = out[p]
    BY <1>0, <1>4 DEF Create, Goes, TInv, RequestOK
  <2>2. Driving' \subseteq Driving
    BY <1>1, <2>1 DEF Driving
  <2>3. \A r \in Runs : Gone(r) => Gone(r)'
    BY <2>1, <2>2 DEF Gone
  <2>4. Unclaimed(m)'
    BY <1>0, <1>2, <2>1, <2>3 DEF Unclaimed, Holds, Prepared
  <2>5. Calm
    BY <1>3, <2>1, <2>3 DEF Calm, Unclaimed, Quiet, Holds, Prepared
  <2>6. (OneClaim /\ RunsInOrder /\ OwnLinks)'
    BY <1>1, <2>1, <2>3 DEF Strong, Flow, OneClaim, RunsInOrder, OwnLinks, Holds, Prepared
  <2>7. Driven'
    BY <1>1, <1>3, <2>1, <2>2 DEF Strong, Flow, Driven
  <2>8. Outcomes'
    <3>1. \A r \in Runs : Gone(r) => runs'[r].st \in {"failed", "cancelled"} /\ r \notin Driving'
      BY <2>1, <2>2 DEF Gone
    <3>2. QED
      BY <1>1, <1>3, <2>1, <3>1, OutcomesStay DEF Strong
  <2>9. InPlace' /\ Hands'
    BY <1>1, <2>1, HandsStay DEF Strong, Flow, InPlace, Ended
  <2>10. Stillborn'
    <3> SUFFICES ASSUME NEW p \in Requests, pc'[p] = "acking", run'[p] = None
                 PROVE  msg'[p] \in stopped' /\ Unclaimed(msg[p])' /\ out'[p] = "failed"
      BY DEF Stillborn
    <3>1. PICK x \in Messages : x = msg[p] /\ x = msg'[p]
      BY <2>1, <2>9 DEF InPlace
    <3>2. x \in stopped /\ Unclaimed(x)' /\ out'[p] = "failed"
      <4>1. CASE p = q
        BY <1>0, <1>4, <2>1, <2>4, <3>1, <4>1
      <4>2. CASE p # q
        <5>1. x \in stopped /\ Unclaimed(x) /\ out[p] = "failed"
          BY <2>1, <3>1, <4>2 DEF Strong, Flow, Stillborn
        <5>2. QED
          BY <2>1, <2>5, <4>2, <5>1 DEF Calm
      <4>3. QED
        BY <4>1, <4>2
    <3>3. Unclaimed(msg[p])'
      BY <3>1, <3>2 DEF Unclaimed
    <3>4. QED
      BY <1>1, <3>1, <3>2, <3>3
  <2>11. Flow'
    BY <2>6, <2>7, <2>8, <2>9, <2>10 DEF Flow
  <2>12. QED
    BY <1>1, <2>1, <2>5, <2>11, InboxStays
<1>5. CASE m \notin stopped /\ Busy
  <2>1. /\ inbox' = IF inbox[m].st \in {"acknowledged", "processing"}
                        THEN [inbox EXCEPT ![m].st = "delivered"] ELSE inbox
        /\ Returns(q) /\ UNCHANGED runs
    BY <1>0, <1>5 DEF Create
  <2>2. Flow' /\ Calm
    BY <1>1, <2>1, ReturnsFlow DEF Strong
  <2>3. /\ pc'[q] = "idle" /\ \A p \in Requests : p # q => pc'[p] = pc[p] /\ msg'[p] = msg[p] /\ run'[p] = run[p]
        /\ thread' = thread
    BY <1>1, <2>1 DEF Returns, TInv, RequestOK
  <2>4. Driving' \subseteq Driving
    BY <2>3 DEF Driving
  <2>5. Unclaimed(m)'
    BY <1>2, <2>1, <2>3, <2>4 DEF Unclaimed, Holds, Gone, Prepared
  <2>6. Quiet(m)'
    BY <2>5 DEF Unclaimed, Quiet, Holds, Gone, Ended
  <2>7. ASSUME NEW x \in Messages, inbox'[x] # inbox[x]
        PROVE  x = m /\ inbox'[x].st = "delivered"
    BY <2>1, <2>7 DEF TInv, Safe, Row
  <2>8. QED
    BY <1>1, <2>1, <2>2, <2>5, <2>6, <2>7, InboxMoves DEF Calm
<1>6. CASE m \notin stopped /\ ~Busy
  <2>1. PICK r \in Free : /\ runs' = [runs EXCEPT ![r] = [st |-> "running", src |-> msg[q], link |-> None]]
                          /\ run' = [run EXCEPT ![q] = r]
    BY <1>0, <1>6 DEF Create
  <2>2. Goes(q, "driving") /\ UNCHANGED <<inbox, msg, out, view>>
    BY <1>0, <1>6 DEF Create
  <2>3. QED
    BY <1>0, <1>1, <1>6, <2>1, <2>2, StartStrong
<1>7. QED
  BY <1>4, <1>5, <1>6

LEMMA AskStrong == ASSUME TInv, TInv', Strong, Lasts, NEW q \in Requests, Ask(q) PROVE Strong'
<1>1. msg[q] = None /\ pc[q] = "idle"
  BY DEF Ask, Strong, Flow, InPlace
<1>2. PICK r \in Free : /\ runs' = [runs EXCEPT ![r] = [st |-> "running", src |-> None, link |-> None]]
                        /\ run' = [run EXCEPT ![q] = r]
  BY DEF Ask
<1>3. QED
  BY <1>1, <1>2, StartStrong DEF Ask

(* The user answers a run that waits; nobody else drives it.                *)
LEMMA ResumeStrong == ASSUME TInv, TInv', Strong, Lasts, Undisturbed', NEW q \in Requests, Resume(q) PROVE Strong'
<1>1. PICK r \in Runs :
        /\ runs[r].st = "waiting" \/ (runs[r].st = "failed" /\ Mishap("retry"))
        /\ runs' = [runs EXCEPT ![r].st = "running"]
        /\ run' = [run EXCEPT ![q] = r] /\ msg' = [msg EXCEPT ![q] = runs[r].link]
  BY DEF Resume
<1>2. runs[r].st = "waiting"
  BY <1>1 DEF Mishap, Undisturbed, Causes
<1>3. /\ runs'[r].st = "running" /\ runs'[r].src = runs[r].src /\ runs'[r].link = runs[r].link
      /\ \A s \in Runs : s # r => runs'[s] = runs[s]
      /\ runs[r].link \in {None, runs[r].src}
  BY <1>1 DEF TInv, RunsOK, Run, Strong, Flow, OwnLinks
<1>4. /\ pc'[q] = "driving" /\ run'[q] = r /\ msg'[q] = runs[r].link
      /\ \A p \in Requests : p # q => pc'[p] = pc[p] /\ run'[p] = run[p] /\ msg'[p] = msg[p]
      /\ UNCHANGED <<inbox, around, out, view, thread>> /\ UNCHANGED stopped
  BY <1>1 DEF Resume, Goes, TInv, RequestOK, around
<1>5. r # None
  BY DEF Runs
<1>6. r \notin Driving /\ Driving' \subseteq Driving \cup {r}
  <2>1. r \notin Driving
    BY <1>2 DEF Strong, Flow, Driven
  <2>2. QED
    BY <1>4, <2>1 DEF Driving
<1>7. Driven'
  <2>1. Shut \subseteq Shut'
    BY DEF Lasts
  <2>2. \A s \in Driving' : runs'[s].st \in {"running", "cancelled"} \/ (runs'[s].st = "failed" /\ runs'[s].src \in Shut')
    <3>1. \A s \in Driving' : s = r \/ (s \in Driving /\ s # r /\ s \in Runs)
      BY <1>6 DEF Driving
    <3>2. QED
      BY <1>3, <2>1, <3>1 DEF Strong, Flow, Driven
  <2>3. thread[r] # "driving" /\ \A p \in Requests : ~(pc[p] = "driving" /\ run[p] = r)
    BY <1>6 DEF Driving
  <2>4. QED
    BY <1>4, <2>2, <2>3 DEF Strong, Flow, Driven
<1>8. InPlace'
  BY <1>3, <1>4 DEF Strong, Flow, InPlace
<1>9. \A p \in Requests : pc'[p] \in {"driving", "linking", "acking", "cancelling"} /\ run'[p] # None =>
        msg'[p] \in {None, runs'[run'[p]].src}
  BY <1>3, <1>4 DEF Strong, Flow, OwnLinks, TInv, RequestOK
<1>10. ~Gone(r) /\ \A s \in Driving' : s \in Driving \/ ~Gone(s)
  BY <1>2, <1>6 DEF Gone
<1>11. \A p \in Requests : p # q => pc'[p] = pc[p] /\ run'[p] = run[p] /\ msg'[p] = msg[p] /\ out'[p] = out[p]
  BY <1>4
<1>12. UNCHANGED <<inbox, around>> /\ thread' = thread
  BY <1>4
<1>13. QED
  BY <1>2, <1>3, <1>4, <1>5, <1>7, <1>8, <1>9, <1>10, <1>11, <1>12, MoveStrong DEF Ended

(* A request whose run has come to a status goes on to its receipt, if any. *)
LEMMA SettlesStrong ==
  ASSUME TInv, Strong, Lasts, NEW q \in Requests, NEW o \in {"waiting"} \cup Ended,
         pc[q] \in {"driving", "cancelling"}, runs[run[q]].st # "none",
         runs' = [runs EXCEPT ![run[q]].st = o],
         IF msg[q] = None THEN Returns(q)
         ELSE Goes(q, "linking") /\ out' = [out EXCEPT ![q] = o] /\ UNCHANGED <<msg, run, view>>,
         UNCHANGED <<inbox, around, thread>>,
         runs[run[q]].st \in {"completed", "cancelled"} => o = runs[run[q]].st,
         runs[run[q]].st \in Ended => o \in {"completed", "cancelled"} \/ runs[run[q]].src \in Shut,
         Gone(run[q]) => o = "cancelled",
         pc[q] = "cancelling" => o = "cancelled" \/ (o = "completed" /\ runs[run[q]].st = "completed")
  PROVE  Strong'
<1>0. PICK r \in Runs : r = run[q]   \* which the request may forget
  BY DEF Strong, Flow, InPlace
<1>1. /\ runs'[r].st = o /\ runs'[r].src = runs[r].src /\ runs'[r].link = runs[r].link
      /\ \A s \in Runs : s # r => runs'[s] = runs[s]
      /\ runs[r].link \in {None, runs[r].src} /\ o # "none"
  BY <1>0 DEF TInv, RunsOK, Run, Strong, Flow, OwnLinks, Ended
<1>2. /\ \A p \in Requests : p # q => pc'[p] = pc[p] /\ run'[p] = run[p] /\ msg'[p] = msg[p] /\ out'[p] = out[p]
                                      /\ view'[p] = view[p]
      /\ \/ /\ pc'[q] = "idle" /\ run'[q] = None /\ msg'[q] = None /\ out'[q] = "none" /\ view'[q].late = {}
         \/ /\ pc'[q] = "linking" /\ run'[q] = r /\ msg'[q] = msg[q] /\ out'[q] = o /\ view'[q] = view[q]
            /\ msg[q] # None
  <2>1. CASE msg[q] = None
    BY <1>0, <2>1 DEF Returns, TInv, RequestOK, NoView
  <2>2. CASE msg[q] # None
    BY <1>0, <2>2 DEF Goes, TInv, RequestOK
  <2>3. QED
    BY <2>1, <2>2
<1>3. r # None /\ thread' = thread /\ stopped' = stopped
  BY DEF Runs, around
<1>4. Driving' \subseteq Driving /\ (pc[q] = "driving" => r \notin Driving')
  <2>1. Driving' \subseteq Driving
    BY <1>2, <1>3 DEF Driving
  <2>2. ASSUME pc[q] = "driving", r \in Driving' PROVE FALSE
    BY <1>0, <1>2, <1>3, <2>2 DEF Driving, Strong, Flow, Driven
  <2>3. QED
    BY <2>1, <2>2
<1>5. Driven'
  <2>1. Shut \subseteq Shut'
    BY DEF Lasts
  <2>2. r \in Driving' => o = "cancelled"
    <3>1. r \in Driving' => r \in Driving /\ pc[q] = "cancelling"
      BY <1>4
    <3>2. r \in Driving' => runs[r].st # "completed"
      BY <3>1 DEF Strong, Flow, Driven
    <3>3. QED
      BY <1>0, <3>1, <3>2
  <2>3. \A s \in Driving' : runs'[s].st \in {"running", "cancelled"} \/ (runs'[s].st = "failed" /\ runs'[s].src \in Shut')
    <3>1. \A s \in Driving' : s \in Driving /\ s \in Runs
      BY <1>4 DEF Driving
    <3>2. QED
      BY <1>1, <2>1, <2>2, <3>1 DEF Strong, Flow, Driven
  <2>4. QED
    BY <1>2, <1>3, <2>3 DEF Strong, Flow, Driven
<1>6. pc'[q] = "linking" => Told(o, r)
  BY <1>0, <1>1, <1>4 DEF Told
<1>7. InPlace'
  <2>1. msg[q] # None => msg[q] \in Messages
    BY DEF TInv, RequestOK
  <2>2. QED
    BY <1>1, <1>2, <1>3, <2>1 DEF Strong, Flow, InPlace, Ended
<1>8. \A p \in Requests : pc'[p] \in {"driving", "linking", "acking", "cancelling"} /\ run'[p] # None =>
        msg'[p] \in {None, runs'[run'[p]].src}
  BY <1>0, <1>1, <1>2 DEF Strong, Flow, OwnLinks, TInv, RequestOK
<1>9. /\ Gone(r) => runs'[r].st \in {"failed", "cancelled"}
      /\ runs[r].st \in {"completed", "cancelled"} => runs'[r].st = runs[r].st
      /\ runs[r].st \in Ended => runs'[r].st \in Ended \/ runs[r].src \in Shut
  BY <1>0, <1>1 DEF Ended
<1>10. \A p \in Requests : pc'[p] \in {"linking", "acking"} /\ run'[p] # None =>
           \/ pc[p] \in {"linking", "acking"} /\ run'[p] = run[p] /\ out'[p] = out[p]
           \/ Told(out'[p], run'[p])
  BY <1>2, <1>6
<1>11. \A s \in Driving' : s \in Driving \/ ~Gone(s)
  BY <1>4
<1>12. runs[r].st # "none" /\ runs'[r].st # "none"
  BY <1>0, <1>1
<1>13. UNCHANGED <<inbox, around>>
  OBVIOUS
<1>14. QED
  BY <1>1, <1>2, <1>3, <1>5, <1>7, <1>8, <1>9, <1>10, <1>11, <1>12, <1>13, MoveStrong

LEMMA EndsStrong == ASSUME TInv, TInv', Strong, Lasts, NEW q \in Requests, Ends(q) PROVE Strong'
<1>1. PICK o \in Result(run[q]) :
        /\ runs' = [runs EXCEPT ![run[q]].st = o]
        /\ IF msg[q] = None THEN Returns(q)
           ELSE Goes(q, "linking") /\ out' = [out EXCEPT ![q] = o] /\ UNCHANGED <<msg, run, view>>
  BY DEF Ends
<1>2. pc[q] = "driving" /\ run[q] \in Runs /\ run[q] \in Driving /\ ~Gone(run[q])
  BY DEF Ends, Strong, Flow, InPlace, Driving, Gone
<1>3. \/ runs[run[q]].st \in {"running", "cancelled"}
      \/ runs[run[q]].st = "failed" /\ runs[run[q]].src \in Shut
  BY <1>2 DEF Strong, Flow, Driven
<1>4. o \in {"waiting"} \cup Ended /\ (runs[run[q]].st = "cancelled" => o = "cancelled")
  BY DEF Result, Ended
<1>5. runs[run[q]].st # "none"
  BY <1>3
<1>6. /\ runs[run[q]].st \in {"completed", "cancelled"} => o = runs[run[q]].st
      /\ runs[run[q]].st \in Ended => o \in {"completed", "cancelled"} \/ runs[run[q]].src \in Shut
  BY <1>3, <1>4 DEF Ended
<1>7. QED
  BY <1>1, <1>2, <1>4, <1>5, <1>6, SettlesStrong DEF Ends

LEMMA CancelsStrong == ASSUME TInv, TInv', Strong, Lasts, NEW q \in Requests, Cancels(q) PROVE Strong'
<1> DEFINE o == IF runs[run[q]].st = "completed" THEN "completed" ELSE "cancelled"
<1>1. o \in {"waiting"} \cup Ended /\ o \in {"completed", "cancelled"}
  BY DEF Ended
<1>2. pc[q] = "cancelling" /\ runs[run[q]].st # "none" /\ run[q] \in Runs
  BY DEF Cancels, Strong, Flow, InPlace
<1>3. Gone(run[q]) => o = "cancelled"
  BY DEF Gone
<1>4. QED
  BY <1>1, <1>2, <1>3, SettlesStrong DEF Cancels

LEMMA LinkStrong == ASSUME TInv, TInv', Strong, Lasts, NEW q \in Requests, Link(q) PROVE Strong'
<1>0. PICK r \in Runs : r = run[q]
  BY DEF Link, Strong, Flow, InPlace
<1>1. /\ pc[q] = "linking" /\ msg[q] \in {None, runs[r].src} /\ r # None
      /\ UNCHANGED <<inbox, around, thread>> /\ UNCHANGED stopped
  BY <1>0 DEF Link, Strong, Flow, OwnLinks, Runs, around
<1>2. /\ runs'[r].link = msg[q] /\ runs'[r].src = runs[r].src /\ runs'[r].st = runs[r].st
      /\ \A s \in Runs : s # r => runs'[s] = runs[s]
  BY <1>0 DEF Link, TInv, RunsOK, Run
<1>3. /\ \A p \in Requests : p # q => pc'[p] = pc[p] /\ run'[p] = run[p] /\ msg'[p] = msg[p] /\ out'[p] = out[p]
                                      /\ view'[p] = view[p]
      /\ \/ /\ pc'[q] = "idle" /\ run'[q] = None /\ msg'[q] = None /\ out'[q] = "none" /\ view'[q].late = {}
         \/ /\ pc'[q] = "acking" /\ run'[q] = r /\ msg'[q] = msg[q] /\ out'[q] = out[q] /\ view'[q] = view[q]
            /\ out[q] # "waiting"
  <2>1. CASE out[q] = "waiting"
    BY <1>0, <2>1 DEF Link, Returns, TInv, RequestOK, NoView
  <2>2. CASE out[q] # "waiting"
    BY <1>0, <2>2 DEF Link, Goes, TInv, RequestOK
  <2>3. QED
    BY <2>1, <2>2
<1>4. \A s \in Runs : runs'[s].st = runs[s].st /\ runs'[s].src = runs[s].src
  BY <1>2
<1>5. Driving' \subseteq Driving
  BY <1>1, <1>3 DEF Driving
<1>6. Driven'
  <2>1. Shut \subseteq Shut' /\ \A s \in Driving' : s \in Driving /\ s \in Runs
    BY <1>5 DEF Lasts, Driving
  <2>2. \A s \in Driving' : runs'[s].st \in {"running", "cancelled"} \/ (runs'[s].st = "failed" /\ runs'[s].src \in Shut')
    BY <1>4, <2>1 DEF Strong, Flow, Driven
  <2>3. QED
    BY <1>1, <1>3, <2>2 DEF Strong, Flow, Driven
<1>7. InPlace'
  <2>1. ASSUME NEW p \in Requests, p # q, pc[p] \in {"driving", "linking", "cancelling"} PROVE runs'[run[p]].st # "none"
    BY <1>4, <2>1 DEF Strong, Flow, InPlace
  <2>2. out[q] # "waiting" => out[q] \in Ended
    BY <1>1 DEF Strong, Flow, InPlace
  <2>3. QED
    BY <1>1, <1>3, <2>1, <2>2 DEF Strong, Flow, InPlace
<1>8. \A p \in Requests : pc'[p] \in {"driving", "linking", "acking", "cancelling"} /\ run'[p] # None =>
        msg'[p] \in {None, runs'[run'[p]].src}
  BY <1>1, <1>3, <1>4 DEF Strong, Flow, OwnLinks, TInv, RequestOK
<1>9. runs[r].st # "none"
  BY <1>0, <1>1 DEF Strong, Flow, InPlace
<1>10. /\ \A p \in Requests : pc'[p] \in {"linking", "acking"} /\ run'[p] # None =>
            pc[p] \in {"linking", "acking"} /\ run'[p] = run[p] /\ out'[p] = out[p]
       /\ Gone(r) => runs'[r].st \in {"failed", "cancelled"}
       /\ \A s \in Driving' : s \in Driving \/ ~Gone(s)
  BY <1>0, <1>1, <1>2, <1>3, <1>5 DEF Gone
<1>11. UNCHANGED <<inbox, around>> /\ thread' = thread
  BY <1>1
<1>12. QED
  BY <1>1, <1>2, <1>3, <1>4, <1>6, <1>7, <1>8, <1>9, <1>10, <1>11, MoveStrong

-----------------------------------------------------------------------------
(* What is true of the run may be said of its message.                      *)
LEMMA SaidStrong ==
  ASSUME TInv, Strong, Lasts, NEW m \in Messages, NEW to \in Ended, inbox' \in {inbox, Acked(m, to)},
         UNCHANGED <<around, runs>>, Flow', Calm,
         NEW r \in Runs, runs[r].src = m, Says(to, r), inbox' # inbox => ~Taken(r, m)
  PROVE  Strong'
<1>1. inbox' # inbox => m \notin Shut
  <2>1. m \in Shut => inbox[m].st \in Closed
    BY DEF Shut
  <2>2. QED
    BY <2>1 DEF Acked, Allowed, Closed
<1>2. inbox' # inbox => IF to = "failed" THEN Gone(r) ELSE runs[r].st = to
  BY <1>1 DEF Says
<1>3. inbox' # inbox => Quiet(m) /\ (to = "failed" => Unclaimed(m))
  BY <1>2, NotTaken DEF Gone, Ended
<1>4. inbox' # inbox /\ to # "failed" => \E s \in Answers(m) : runs[s].st = to
  BY <1>2 DEF Answers
<1>5. QED
  BY <1>3, <1>4, ReceiptStrong

(* The receipt says what became of the run, and nobody has taken the        *)
(* message since.                                                           *)
LEMMA AckStrong == ASSUME TInv, TInv', Strong, Lasts, Undisturbed', NEW q \in Requests, Ack(q) PROVE Strong'
<1>0. PICK m \in Messages, to \in Ended : m = msg[q] /\ to = out[q]
  BY DEF Ack, Strong, Flow, InPlace
<1>1. /\ pc[q] = "acking" /\ inbox' = Acked(m, to) /\ Returns(q) /\ UNCHANGED <<around, runs, thread>>
      /\ inbox' # inbox => ~Taken(run[q], m)
  BY <1>0 DEF Ack, Leaves, Receipt, Strong, Flow, InPlace, Undisturbed, Causes
<1>2. Flow' /\ Calm
  BY <1>1, ReturnsFlow DEF Strong
<1>3. CASE run[q] = None
  <2>1. Unclaimed(m) /\ to = "failed" /\ m \in stopped
    BY <1>0, <1>1, <1>3 DEF Strong, Flow, Stillborn
  <2>2. QED
    BY <1>1, <1>2, <2>1, ReceiptStrong
<1>4. CASE run[q] # None
  <2>1. PICK r \in Runs : r = run[q]
    BY <1>4 DEF TInv, RequestOK
  <2>2. runs[r].src = m /\ Says(to, r)
    BY <1>0, <1>1, <1>4, <2>1 DEF Strong, Flow, OwnLinks, Outcomes
  <2>3. QED
    BY <1>1, <1>2, <2>1, <2>2, SaidStrong
<1>5. QED
  BY <1>3, <1>4

LEMMA ReceiptFailsStrong == ASSUME TInv, TInv', Strong, Lasts, NEW q \in Requests, ReceiptFails(q) PROVE Strong'
<1>1. Returns(q) /\ UNCHANGED <<inbox, around, runs, thread>>
  BY DEF ReceiptFails, Leaves, Strong, Flow, InPlace
<1>2. Flow' /\ Calm
  BY <1>1, ReturnsFlow DEF Strong
<1>3. QED
  BY <1>1, <1>2, InboxStays DEF around

(* A cancel that guessed right knows the message its run answers, or none.  *)
LEMMA CancelStrong == ASSUME TInv, TInv', Strong, Lasts, Undisturbed', NEW q \in Requests, Cancel(q) PROVE Strong'
<1>0. PICK r \in Runs : \E m \in Source(r) :
        /\ runs[r].st # "none"
        /\ runs' = [runs EXCEPT ![r].link = m]
        /\ run' = [run EXCEPT ![q] = r] /\ msg' = [msg EXCEPT ![q] = m]
        /\ mishaps' = IF m \in {None, runs[r].src} THEN mishaps ELSE mishaps \cup {"guess"}
  BY DEF Cancel
<1>1. PICK m \in Source(r) :
        /\ runs[r].st # "none"
        /\ runs' = [runs EXCEPT ![r].link = m]
        /\ run' = [run EXCEPT ![q] = r] /\ msg' = [msg EXCEPT ![q] = m]
        /\ mishaps' = IF m \in {None, runs[r].src} THEN mishaps ELSE mishaps \cup {"guess"}
  BY <1>0
<1>2. m \in {None, runs[r].src}
  BY <1>1 DEF Undisturbed, Causes
<1>3. /\ runs'[r].link = m /\ runs'[r].src = runs[r].src /\ runs'[r].st = runs[r].st
      /\ \A s \in Runs : s # r => runs'[s] = runs[s]
  BY <1>1 DEF TInv, RunsOK, Run
<1>4. \A s \in Runs : runs'[s].st = runs[s].st /\ runs'[s].src = runs[s].src
  BY <1>3
<1>5. /\ pc'[q] = "cancelling" /\ run'[q] = r /\ msg'[q] = m /\ r # None
      /\ \A p \in Requests : p # q => pc'[p] = pc[p] /\ run'[p] = run[p] /\ msg'[p] = msg[p]
      /\ UNCHANGED <<inbox, around, out, view, thread>> /\ UNCHANGED stopped
  BY <1>1 DEF Cancel, Goes, TInv, RequestOK, Runs, around
<1>6. Driving' \subseteq Driving /\ \A p \in Requests : pc'[p] = "driving" => pc[p] = "driving" /\ run'[p] = run[p]
  BY <1>5 DEF Driving
<1>7. Driven'
  <2>1. Shut \subseteq Shut' /\ \A s \in Driving' : s \in Driving /\ s \in Runs
    BY <1>6 DEF Lasts, Driving
  <2>2. \A s \in Driving' : runs'[s].st \in {"running", "cancelled"} \/ (runs'[s].st = "failed" /\ runs'[s].src \in Shut')
    BY <1>4, <2>1 DEF Strong, Flow, Driven
  <2>3. QED
    BY <1>5, <1>6, <2>2 DEF Strong, Flow, Driven
<1>8. InPlace'
  <2>1. ASSUME NEW p \in Requests, p # q, pc[p] \in {"driving", "linking", "cancelling"} PROVE runs'[run[p]].st # "none"
    BY <1>4, <2>1 DEF Strong, Flow, InPlace
  <2>2. QED
    BY <1>1, <1>3, <1>5, <2>1 DEF Strong, Flow, InPlace
<1>9. \A p \in Requests : pc'[p] \in {"driving", "linking", "acking", "cancelling"} /\ run'[p] # None =>
        msg'[p] \in {None, runs'[run'[p]].src}
  BY <1>2, <1>4, <1>5 DEF Strong, Flow, OwnLinks, TInv, RequestOK
<1>10. /\ Gone(r) => runs'[r].st \in {"failed", "cancelled"}
       /\ \A s \in Driving' : s \in Driving \/ ~Gone(s)
       /\ \A p \in Requests : p # q => pc'[p] = pc[p] /\ run'[p] = run[p] /\ msg'[p] = msg[p] /\ out'[p] = out[p]
  BY <1>4, <1>5, <1>6 DEF Gone
<1>11. UNCHANGED <<inbox, around>> /\ thread' = thread
  BY <1>5
<1>12. QED
  BY <1>1, <1>2, <1>3, <1>4, <1>5, <1>7, <1>8, <1>9, <1>10, <1>11, MoveStrong

-----------------------------------------------------------------------------
(* The recovery thread takes a run that nobody drives, and ends it.         *)
LEMMA RecoverStrong == ASSUME TInv, TInv', Strong, Lasts, NEW r \in Runs, Recover(r) PROVE Strong'
<1>1. /\ runs[r].st = "broken" /\ runs'[r].st = "running"
      /\ runs'[r].src = runs[r].src /\ runs'[r].link = runs[r].link /\ runs[r].link \in {None, runs[r].src}
      /\ \A s \in Runs : s # r => runs'[s] = runs[s] /\ thread'[s] = thread[s]
      /\ thread'[r] = "driving"
      /\ UNCHANGED <<inbox, around, pc, msg, run, out, view>> /\ UNCHANGED stopped
  BY DEF Recover, request, TInv, RunsOK, Run, Strong, Flow, OwnLinks, around
<1>2. r \notin Driving /\ Driving' \subseteq Driving \cup {r}
  <2>1. r \notin Driving
    BY <1>1 DEF Strong, Flow, Driven
  <2>2. QED
    BY <1>1, <2>1 DEF Driving
<1>3. Driven'
  <2>1. Shut \subseteq Shut'
    BY DEF Lasts
  <2>2. \A s \in Driving' : runs'[s].st \in {"running", "cancelled"} \/ (runs'[s].st = "failed" /\ runs'[s].src \in Shut')
    <3>1. \A s \in Driving' : s = r \/ (s \in Driving /\ s # r /\ s \in Runs)
      BY <1>2 DEF Driving
    <3>2. QED
      BY <1>1, <2>1, <3>1 DEF Strong, Flow, Driven
  <2>3. \A p \in Requests : pc[p] = "driving" => run[p] # r /\ run[p] \in Runs
    BY <1>2 DEF Driving, Strong, Flow, InPlace
  <2>4. QED
    BY <1>1, <2>2, <2>3 DEF Strong, Flow, Driven
<1>4. InPlace'
  BY <1>1 DEF Strong, Flow, InPlace
<1>5. \A p \in Requests : pc'[p] \in {"driving", "linking", "acking", "cancelling"} /\ run'[p] # None =>
        msg'[p] \in {None, runs'[run'[p]].src}
  BY <1>1 DEF Strong, Flow, OwnLinks, TInv, RequestOK
<1>6. ~Gone(r) /\ \A s \in Driving' : s \in Driving \/ ~Gone(s)
  BY <1>1, <1>2 DEF Gone
<1>7. /\ UNCHANGED <<inbox, around>> /\ \A s \in Runs : thread'[s] # "driving" => thread'[s] = thread[s]
      /\ \A s \in Runs : s # r => runs'[s] = runs[s]
  BY <1>1
<1>8. QED
  BY <1>1, <1>3, <1>4, <1>5, <1>6, <1>7, MoveStrong DEF Ended

LEMMA RecoverEndsStrong == ASSUME TInv, TInv', Strong, Lasts, NEW r \in Runs, RecoverEnds(r) PROVE Strong'
<1>1. PICK o \in Result(r) :
        /\ runs' = [runs EXCEPT ![r].st = o]
        /\ thread' = [thread EXCEPT ![r] = IF o = "waiting" THEN "off" ELSE o]
  BY DEF RecoverEnds
<1>2. /\ r \in Driving /\ ~Gone(r) /\ runs'[r].st = o /\ o \in {"waiting"} \cup Ended
      /\ runs[r].st = "cancelled" => o = "cancelled"
      /\ \A q \in Requests : ~(pc[q] = "driving" /\ run[q] = r)
  BY <1>1 DEF RecoverEnds, Result, Ended, Driving, Gone, TInv, RunsOK, Run, Strong, Flow, Driven
<1>3. \/ runs[r].st \in {"running", "cancelled"}
      \/ runs[r].st = "failed" /\ runs[r].src \in Shut
  BY <1>2 DEF Strong, Flow, Driven
<1>4. /\ runs'[r].src = runs[r].src /\ runs'[r].link = runs[r].link /\ runs[r].link \in {None, runs[r].src}
      /\ \A s \in Runs : s # r => runs'[s] = runs[s] /\ thread'[s] = thread[s]
      /\ thread'[r] = IF o = "waiting" THEN "off" ELSE o
      /\ UNCHANGED <<inbox, around, pc, msg, run, out, view>> /\ UNCHANGED stopped
  BY <1>1 DEF RecoverEnds, request, TInv, RunsOK, Run, Strong, Flow, OwnLinks, around
<1>5. Driving' \subseteq Driving \ {r}
  BY <1>2, <1>4 DEF Driving, Ended
<1>6. Driven'
  <2>1. Shut \subseteq Shut' /\ \A s \in Driving' : s \in Driving /\ s \in Runs /\ s # r
    BY <1>5 DEF Lasts, Driving
  <2>2. \A s \in Driving' : runs'[s].st \in {"running", "cancelled"} \/ (runs'[s].st = "failed" /\ runs'[s].src \in Shut')
    BY <1>4, <2>1 DEF Strong, Flow, Driven
  <2>3. \A p \in Requests : pc[p] = "driving" => run[p] # r /\ run[p] \in Runs
    BY <1>2 DEF Strong, Flow, InPlace
  <2>4. QED
    BY <1>4, <2>2, <2>3 DEF Strong, Flow, Driven
<1>7. Told(thread'[r], r)
  BY <1>2, <1>4, <1>5 DEF Told, Ended
<1>8. InPlace'
  BY <1>2, <1>4 DEF Strong, Flow, InPlace, Ended
<1>9. \A p \in Requests : pc'[p] \in {"driving", "linking", "acking", "cancelling"} /\ run'[p] # None =>
        msg'[p] \in {None, runs'[run'[p]].src}
  BY <1>4 DEF Strong, Flow, OwnLinks, TInv, RequestOK
<1>10. /\ runs[r].st # "none" /\ runs'[r].st # "none"
       /\ runs[r].st \in {"completed", "cancelled"} => runs'[r].st = runs[r].st
       /\ runs[r].st \in Ended => runs'[r].st \in Ended \/ runs[r].src \in Shut
       /\ \A s \in Driving' : s \in Driving
  BY <1>2, <1>3, <1>5 DEF Ended
<1>11. /\ UNCHANGED <<inbox, around>>
       /\ \A s \in Runs : thread'[s] # "driving" => thread'[s] = thread[s] \/ Told(thread'[s], s)
       /\ \A s \in Runs : s # r => runs'[s] = runs[s]
  BY <1>4, <1>7
<1>12. QED
  BY <1>2, <1>4, <1>6, <1>8, <1>9, <1>10, <1>11, MoveStrong

-----------------------------------------------------------------------------
(* Steps of others, in which no request and no run moves.                   *)
LEMMA RestsFlow ==
  ASSUME TInv, Flow, Lasts, UNCHANGED <<runs, request>>, Hands',
         \A r \in Runs : thread'[r] = thread[r] \/ thread'[r] = "off"
  PROVE  Flow' /\ Calm
<1>1. UNCHANGED <<runs, pc, msg, run, out, view>> /\ stopped \subseteq stopped'
  BY DEF request, Lasts
<1>2. Driving' \subseteq Driving
  BY <1>1 DEF Driving
<1>3. Shut \subseteq Shut' /\ Briefs' = Briefs
  BY DEF Lasts, Briefs
<1>4. \A r \in Runs : Gone(r) => runs'[r].st \in {"failed", "cancelled"} /\ r \notin Driving'
  BY <1>1, <1>2 DEF Gone
<1>5. \A x : \A r \in Runs : Holds(r, x)' => Holds(r, x)
  BY <1>1, <1>4 DEF Holds, Gone
<1>6. \A x : \A q \in Requests : Prepared(q, x)' => Prepared(q, x)
  BY <1>1 DEF Prepared
<1>7. Calm
  BY <1>1, <1>3, <1>5, <1>6 DEF Calm, Unclaimed, Quiet
<1>8. (OneClaim /\ RunsInOrder /\ OwnLinks)'
  BY <1>1, <1>5, <1>6 DEF Flow, OneClaim, RunsInOrder, OwnLinks
<1>9. Driven'
  <2>1. \A r \in Driving' : r \in Driving /\ r \in Runs
    BY <1>2 DEF Driving
  <2>2. \A r \in Driving' : runs'[r].st \in {"running", "cancelled"} \/ (runs'[r].st = "failed" /\ runs'[r].src \in Shut')
    BY <1>1, <1>3, <2>1 DEF Flow, Driven
  <2>3. \A q \in Requests : pc[q] = "driving" => thread'[run[q]] # "driving"
    BY DEF Flow, Driven, InPlace
  <2>4. QED
    BY <1>1, <2>2, <2>3 DEF Flow, Driven
<1>10. Outcomes'
  <2>1. \A r \in Runs : Told("off", r)
    BY DEF Told, Ended
  <2>2. QED
    BY <1>1, <1>3, <1>4, <2>1, OutcomesStay
<1>11. InPlace'
  BY <1>1 DEF Flow, InPlace
<1>12. Stillborn'
  BY <1>1, <1>7, StillbornStays
<1>13. QED
  BY <1>7, <1>8, <1>9, <1>10, <1>11, <1>12 DEF Flow

(* Recovery and scan report what became of the run.                         *)
LEMMA ReportsStrong ==
  ASSUME TInv, Strong, Lasts, NEW r \in Runs, NEW to \in Ended, Says(to, r),
         inbox' = Finished(r, to), UNCHANGED <<around, runs, request>>,
         \A s \in Runs : thread'[s] = thread[s] \/ thread'[s] = "off",
         runs[r].link # None /\ inbox' # inbox => ~Taken(r, runs[r].link)
  PROVE  Strong'
<1>0. PICK m \in Messages \cup {None} : m = runs[r].link
  BY DEF TInv, RunsOK, Run
<1>1. inbox' \in {inbox, Acked(m, to)} /\ (m = None => inbox' = inbox)
  BY <1>0 DEF Finished
<1>2. m \in Messages => runs[r].src = m
  BY <1>0 DEF Strong, Flow, OwnLinks
<1>3. Flow' /\ Calm
  BY HandsStay, RestsFlow DEF Strong
<1>4. CASE m \in Messages
  BY <1>0, <1>1, <1>2, <1>3, <1>4, SaidStrong
<1>5. CASE m = None
  BY <1>1, <1>3, <1>5, InboxStays DEF around
<1>6. QED
  BY <1>4, <1>5

LEMMA ReportStrong == ASSUME TInv, TInv', Strong, Lasts, Undisturbed', NEW r \in Runs, Report(r) PROVE Strong'
<1>1. /\ thread[r] \in Ended /\ inbox' = Finished(r, thread[r]) /\ thread' = [thread EXCEPT ![r] = "off"]
      /\ UNCHANGED <<around, runs, request>>
      /\ runs[r].link # None /\ inbox' # inbox => ~Taken(r, runs[r].link)
  BY DEF Report, Receipt, Undisturbed, Causes
<1>2. Says(thread[r], r)
  BY <1>1 DEF Strong, Flow, Outcomes, Ended
<1>3. \A s \in Runs : thread'[s] = thread[s] \/ thread'[s] = "off"
  BY <1>1 DEF TInv, RunsOK
<1>4. QED
  BY <1>1, <1>2, <1>3, ReportsStrong

LEMMA ScanStrong == ASSUME TInv, TInv', Strong, Lasts, Undisturbed', NEW r \in Runs, Scan(r) PROVE Strong'
<1>1. /\ runs[r].st \in Ended /\ inbox' = Finished(r, runs[r].st)
      /\ UNCHANGED <<around, runs, request>> /\ thread' = thread
      /\ runs[r].link # None /\ inbox' # inbox => ~Taken(r, runs[r].link)
  BY DEF Scan, Receipt, Undisturbed, Causes
<1>2. Says(runs[r].st, r)
  <2>1. runs[r].st = "failed" => Gone(r) \/ runs[r].src \in Shut
    BY DEF Gone, Strong, Flow, Driven
  <2>2. QED
    BY <2>1 DEF Says
<1>3. QED
  BY <1>1, <1>2, ReportsStrong

LEMMA PageAcksStrong ==
  ASSUME TInv, TInv', Strong, Lasts, Undisturbed', NEW m \in Messages, PageAcks(m)
  PROVE  Strong'
<1>1. PICK to : inbox' = Acked(m, to) /\ Mishap(IF to = "acknowledged" THEN "seen" ELSE "page")
  BY DEF PageAcks
<1>2. to = "acknowledged"
  BY <1>1 DEF Mishap, Undisturbed, Causes
<1>3. UNCHANGED <<around, runs, request, thread>> /\ UNCHANGED <<stopped, retried>>
  BY DEF PageAcks, around
<1>4. Flow' /\ Calm
  BY <1>3, HandsStay, RestsFlow DEF Strong
<1>5. ASSUME NEW x \in Messages, inbox'[x] # inbox[x]
      PROVE  inbox[x].st \in Takable /\ inbox'[x].st = "acknowledged"
  <2>1. x = m /\ inbox'[x].st = "acknowledged"
    BY <1>1, <1>2, <1>5, AckEffect DEF TInv
  <2>2. inbox[m].st \in Takable
    BY <1>1, <1>2, <1>5 DEF Acked, Allowed, Takable, Open, Waiting, Ended
  <2>3. QED
    BY <2>1, <2>2
<1>6. "processing" \notin Takable
  BY DEF Takable
<1>7. QED
  BY <1>3, <1>4, <1>5, <1>6, InboxMoves DEF Calm

-----------------------------------------------------------------------------
(* Those who close messages without a run.                                  *)
LEMMA StopParentStrong == ASSUME TInv, TInv', Strong, Lasts, StopParent PROVE Strong'
<1>1. /\ UNCHANGED <<inbox, runs, request, thread>> /\ UNCHANGED <<kind, retried, guard, hand, doomed>>
      /\ stopped \subseteq stopped'
  BY DEF StopParent
<1>2. Hands'
  <2>1. hand'["guard"] # {} => guard'
    BY <1>1, Zenon DEF Strong, Flow, Hands
  <2>2. QED
    BY <1>1, <2>1 DEF Strong, Flow, Hands, Briefs
<1>3. Flow' /\ Calm
  BY <1>1, <1>2, RestsFlow DEF Strong
<1>4. QED
  BY <1>1, <1>3, InboxStays

LEMMA StopReadsStrong == ASSUME TInv, TInv', Strong, Lasts, StopReads PROVE Strong'
<1>1. /\ UNCHANGED <<inbox, runs, request, thread>> /\ UNCHANGED <<kind, retried, guard, stopped, doomed>>
      /\ hand' = [hand EXCEPT !["stop"] = Unclosed(stopped \cap Receipts)]
  BY DEF StopReads
<1>2. hand'["guard"] = hand["guard"] /\ hand'["stop"] \subseteq stopped
  BY <1>1 DEF TInv, AroundOK, Unclosed
<1>3. Hands'
  <2>1. hand'["guard"] # {} => guard'
    BY <1>1, <1>2, Zenon DEF Strong, Flow, Hands
  <2>2. QED
    BY <1>1, <1>2, <2>1 DEF Strong, Flow, Hands, Briefs
<1>4. Flow' /\ Calm
  BY <1>1, <1>3, RestsFlow DEF Strong
<1>5. QED
  BY <1>1, <1>4, InboxStays

LEMMA StopWritesStrong == ASSUME TInv, TInv', Strong, Lasts, StopWrites PROVE Strong'
<1>1. /\ UNCHANGED <<runs, request, thread>> /\ UNCHANGED <<kind, retried, guard, stopped, doomed>>
      /\ hand' = [hand EXCEPT !["stop"] = {}] /\ inbox' = Closes(hand["stop"], "cancelled")
  BY DEF StopWrites
<1>2. hand'["guard"] = hand["guard"] /\ hand'["stop"] = {}
  BY <1>1 DEF TInv, AroundOK
<1>3. Hands'
  <2>1. hand'["guard"] # {} => guard'
    BY <1>1, <1>2, Zenon DEF Strong, Flow, Hands
  <2>2. QED
    BY <1>1, <1>2, <2>1 DEF Strong, Flow, Hands, Briefs
<1>4. Flow' /\ Calm
  BY <1>1, <1>3, RestsFlow DEF Strong
<1>5. ASSUME NEW m \in Messages, inbox'[m] # inbox[m]
      PROVE  m \in stopped' /\ m \in Void' /\ inbox'[m].st \notin Takable
  <2>1. m \in hand["stop"] /\ inbox'[m].st = "cancelled"
    BY <1>1, <1>5 DEF Closes, TInv, Safe, Row
  <2>2. m \in stopped'
    BY <1>1, <2>1 DEF Strong, Flow, Hands
  <2>3. QED
    BY <2>1, <2>2 DEF Void, Takable, Open, Waiting
<1>6. QED
  BY <1>1, <1>4, <1>5, InboxMoves DEF Calm

LEMMA RetryTeamStrong ==
  ASSUME TInv, TInv', Strong, Lasts, NEW m \in Messages, RetryTeam(m)
  PROVE  Strong'
<1>1. /\ UNCHANGED <<runs, request, thread>> /\ UNCHANGED <<kind, guard, stopped, hand, doomed>>
      /\ retried' = retried \cup {m} /\ inbox[m].st # "processing" /\ inbox' = Closes(Unclosed({m}), "completed")
  BY DEF RetryTeam
<1>2. Hands'
  <2>1. hand'["guard"] # {} => guard'
    BY <1>1, Zenon DEF Strong, Flow, Hands
  <2>2. QED
    BY <1>1, <2>1 DEF Strong, Flow, Hands, Briefs
<1>3. Flow' /\ Calm
  BY <1>1, <1>2, RestsFlow DEF Strong
<1>4. ASSUME NEW x \in Messages, inbox'[x] # inbox[x]
      PROVE  x = m /\ x \in Void' /\ inbox'[x].st \notin Takable /\ inbox[x].st # "processing"
  <2>1. x = m /\ inbox'[x].st = "completed"
    BY <1>1, <1>4 DEF Closes, Unclosed, TInv, Safe, Row
  <2>2. QED
    BY <1>1, <2>1 DEF Void, Takable, Open, Waiting
<1>5. inbox'[m].st \in Closed
  BY <1>1 DEF Closes, Unclosed, TInv, Safe, Row, Open, Closed
<1>6. QED
  BY <1>1, <1>3, <1>4, <1>5, InboxMoves DEF Calm

LEMMA GuardReadsStrong == ASSUME TInv, TInv', Strong, Lasts, GuardReads PROVE Strong'
<1>1. /\ UNCHANGED <<inbox, runs, request, thread>> /\ UNCHANGED <<kind, retried, guard, stopped>>
      /\ hand' = [hand EXCEPT !["guard"] = Unclosed(Briefs)]
      /\ doomed' = {r \in Runs : runs[r].link \in Unclosed(Briefs) /\ runs[r].st \in Active}
  BY DEF GuardReads
<1>2. /\ hand'["stop"] = hand["stop"] /\ hand'["guard"] = Unclosed(Briefs) /\ hand'["guard"] \subseteq Briefs
      /\ Briefs' = Briefs /\ None \notin Briefs
  BY <1>1 DEF TInv, AroundOK, Unclosed, Briefs
<1>3. Hands'
  <2>1. guard'
    BY Zenon DEF GuardReads
  <2>2. \A r \in doomed' : runs'[r].src \in hand'["guard"]
    BY <1>1, <1>2 DEF Strong, Flow, OwnLinks
  <2>3. QED
    BY <1>1, <1>2, <2>1, <2>2 DEF Strong, Flow, Hands
<1>4. Flow' /\ Calm
  BY <1>1, <1>3, RestsFlow DEF Strong
<1>5. QED
  BY <1>1, <1>4, InboxStays

(* A run that the guard fails answers a brief that it closes with it.       *)
LEMMA GuardWritesStrong == ASSUME TInv, TInv', Strong, Lasts, GuardWrites PROVE Strong'
<1>1. /\ UNCHANGED <<pc, msg, run, out, view, thread>> /\ UNCHANGED <<kind, retried, guard, stopped>>
      /\ inbox' = Closes(hand["guard"], "completed")
      /\ hand' = [hand EXCEPT !["guard"] = {}] /\ doomed' = {}
  BY DEF GuardWrites, request
<1>2. guard' /\ Briefs' = Briefs /\ hand["guard"] \subseteq Briefs
  <2>1. guard /\ Briefs' = Briefs /\ hand["guard"] \subseteq Briefs
    BY <1>1, Zenon DEF GuardWrites, Strong, Flow, Hands, Briefs
  <2>2. QED
    BY <1>1, <2>1, Zenon
<1>3. ASSUME NEW m \in hand["guard"]
      PROVE  m \in Briefs /\ inbox'[m].st = "completed" /\ m \in Shut' /\ m \in Void'
  <2>1. m \in Briefs /\ m \in Messages
    BY <1>2, <1>3 DEF Briefs
  <2>2. inbox'[m].st = "completed" /\ inbox'[m].st \in Closed
    BY <1>1, <1>3, <2>1 DEF Closes, TInv, Safe, Row, Closed
  <2>3. m \in Briefs'
    BY <1>2, <2>1
  <2>4. m \in Shut' /\ m \in Void'
    BY <1>2, <2>2, <2>3, Zenon DEF Shut, Void
  <2>5. QED
    BY <2>1, <2>2, <2>4
<1>4. \A r \in Runs :
        /\ runs'[r].src = runs[r].src /\ runs'[r].link = runs[r].link
        /\ r \in doomed => runs'[r].st = "failed" /\ runs[r].src \in hand["guard"]
        /\ r \notin doomed => runs'[r].st = runs[r].st
  BY DEF GuardWrites, TInv, RunsOK, Run, Strong, Flow, Hands
<1>5. \A r \in doomed : runs[r].st # "none" /\ runs'[r].src \in Shut' /\ runs[r].src \in Briefs
  <2>1. \A r \in doomed : r \in Runs /\ runs[r].src \in hand["guard"]
    BY DEF TInv, AroundOK, Strong, Flow, Hands
  <2>2. None \notin Briefs
    BY DEF Briefs
  <2>3. QED
    BY <1>2, <1>3, <1>4, <2>1, <2>2 DEF Strong, Flow, RunsInOrder
<1>6. Driving' = Driving
  BY <1>1 DEF Driving
<1>7. \A r \in Runs : Gone(r) => runs'[r].st \in {"failed", "cancelled"} /\ r \notin Driving'
  BY <1>4, <1>6 DEF Gone
<1>8. \A x : \A r \in Runs : Holds(r, x)' => Holds(r, x)
  BY <1>4, <1>7 DEF Holds, Gone
<1>9. \A x : \A q \in Requests : Prepared(q, x)' => Prepared(q, x)
  BY <1>1 DEF Prepared
<1>10. Calm
  BY <1>2, <1>4, <1>5, <1>8, <1>9 DEF Calm, Unclaimed, Quiet
<1>11. OneClaim'
  BY <1>4, <1>8, <1>9 DEF Strong, Flow, OneClaim
<1>12. RunsInOrder'
  <2>1. \A r \in Runs : runs'[r].st = "none" <=> runs[r].st = "none"
    BY <1>4, <1>5
  <2>2. QED
    BY <1>4, <2>1 DEF Strong, Flow, RunsInOrder
<1>13. OwnLinks'
  BY <1>1, <1>4 DEF Strong, Flow, OwnLinks, TInv, RequestOK
<1>14. Shut \subseteq Shut'
  BY DEF Lasts
<1>15. Driven'
  <2>1. ASSUME NEW r \in Driving'
        PROVE  runs'[r].st \in {"running", "cancelled"} \/ (runs'[r].st = "failed" /\ runs'[r].src \in Shut')
    <3>1. r \in Driving /\ r \in Runs
      BY <1>6, <2>1 DEF Driving
    <3>2. QED
      BY <1>4, <1>5, <1>14, <3>1 DEF Strong, Flow, Driven
  <2>2. QED
    BY <1>1, <2>1 DEF Strong, Flow, Driven
<1>16. Outcomes'
  <2>1. \A r \in Runs : runs[r].st \in {"completed", "cancelled"} => runs'[r].st = runs[r].st \/ runs'[r].src \in Shut'
    BY <1>4, <1>5
  <2>2. QED
    BY <1>1, <1>4, <1>7, <1>14, <2>1, OutcomesStay DEF Strong
<1>17. InPlace'
  <2>1. \A r \in Runs : runs[r].st # "none" => runs'[r].st # "none"
    BY <1>4
  <2>2. QED
    BY <1>1, <2>1 DEF Strong, Flow, InPlace
<1>18. Stillborn'
  BY <1>1, <1>10, StillbornStays DEF Strong
<1>19. Hands'
  <2>1. hand'["stop"] = hand["stop"] /\ hand'["guard"] = {}
    BY <1>1 DEF TInv, AroundOK
  <2>2. QED
    BY <1>1, <2>1 DEF Strong, Flow, Hands
<1>20. Flow'
  BY <1>11, <1>12, <1>13, <1>15, <1>16, <1>17, <1>18, <1>19 DEF Flow
<1>21. ASSUME NEW m \in Messages, inbox'[m] # inbox[m]
       PROVE  m \in Void' /\ inbox'[m].st \notin Takable /\ Quiet(m)'
  <2>1. m \in hand["guard"]
    BY <1>1, <1>21 DEF Closes
  <2>2. m \in Void' /\ inbox'[m].st = "completed" /\ m \in Briefs'
    BY <1>2, <1>3, <2>1
  <2>3. QED
    BY <2>2 DEF Takable, Open, Waiting, Quiet
<1>22. \A r \in Runs : runs[r].src \notin Void' => runs'[r].st = runs[r].st
  BY <1>3, <1>4
<1>23. QED
  BY <1>1, <1>4, <1>10, <1>20, <1>21, <1>22, InboxMoves DEF Calm

(* Nobody works for the run that the process left, and it is still its own. *)
LEMMA RestartStrong == ASSUME TInv, TInv', Strong, Lasts, Restart PROVE Strong'
<1>1. /\ \A q \in Requests : pc'[q] = "idle" /\ msg'[q] = None /\ run'[q] = None /\ out'[q] = "none" /\ view'[q].late = {}
      /\ \A r \in Runs : thread'[r] = "off"
      /\ hand' = [h \in {"stop", "guard"} |-> {}] /\ doomed' = {}
      /\ UNCHANGED <<kind, stopped, retried>>
  BY DEF Restart, NoView
<1>2. ASSUME NEW r \in Runs
      PROVE  /\ runs'[r].src = runs[r].src /\ runs'[r].link = runs[r].link
             /\ \/ runs'[r].st = runs[r].st
                \/ runs[r].st = "running" /\ runs'[r].st = "broken"
                \/ runs[r].st \in Active \cup {"broken"} /\ runs'[r].st = "failed"
  <2>1. CASE guard' /\ runs[r].link \in Briefs /\ runs[r].st \in Active \cup {"broken"}
    <3>1. runs'[r] = [runs[r] EXCEPT !.st = "failed"]
      BY <2>1 DEF Restart
    <3>2. QED
      BY <2>1, <3>1 DEF TInv, RunsOK, Run
  <2>2. CASE ~(guard' /\ runs[r].link \in Briefs /\ runs[r].st \in Active \cup {"broken"})
    <3>1. runs'[r] = IF runs[r].st = "running" THEN [runs[r] EXCEPT !.st = "broken"] ELSE runs[r]
      BY <2>2 DEF Restart
    <3>2. QED
      BY <3>1 DEF TInv, RunsOK, Run
  <2>3. QED
    BY <2>1, <2>2
<1>3. Driving' = {}
  BY <1>1 DEF Driving
<1>4. \A x : \A r \in Runs : Holds(r, x)' => Holds(r, x)
  BY <1>2, <1>3 DEF Holds, Gone, Active
<1>5. \A x : \A q \in Requests : ~Prepared(q, x)'
  BY <1>1 DEF Prepared
<1>6. Briefs' = Briefs
  BY <1>1 DEF Briefs
<1>7. Calm
  BY <1>2, <1>4, <1>5, <1>6 DEF Calm, Unclaimed, Quiet, Active, Ended
<1>8. OneClaim'
  BY <1>2, <1>4, <1>5 DEF Strong, Flow, OneClaim
<1>9. RunsInOrder'
  BY <1>2 DEF Strong, Flow, RunsInOrder, Active
<1>10. OwnLinks'
  BY <1>1, <1>2 DEF Strong, Flow, OwnLinks
<1>11. Driven' /\ Outcomes'
  BY <1>1, <1>3 DEF Driven, Outcomes, Says, Ended
<1>12. (Stillborn /\ InPlace /\ Hands)'
  BY <1>1 DEF Stillborn, InPlace, Hands
<1>13. Flow'
  BY <1>8, <1>9, <1>10, <1>11, <1>12 DEF Flow
<1>14. ASSUME NEW m \in Messages, inbox'[m] # inbox[m]
       PROVE  m \in Void' /\ inbox'[m].st \notin Takable /\ Quiet(m)'
  <2>1. PICK swept \in SUBSET Unclosed({x \in Briefs : guard'}) : inbox' = Closes(swept, "completed")
    BY DEF Restart
  <2>2. m \in swept /\ inbox'[m].st = "completed"
    BY <1>14, <2>1 DEF Closes, TInv, Safe, Row
  <2>3. m \in Unclosed({x \in Briefs : guard'})
    BY <2>1, <2>2
  <2>4. m \in Briefs /\ guard'
    BY <2>3, Zenon DEF Unclosed
  <2>5. m \in Briefs'
    BY <1>6, <2>4
  <2>6. m \in Void'
    BY <2>4, <2>5, Zenon DEF Void
  <2>7. QED
    BY <2>2, <2>5, <2>6 DEF Takable, Open, Waiting, Quiet
<1>15. \A r \in Runs : runs[r].st \in {"completed", "cancelled"} => runs'[r].st = runs[r].st
  BY <1>2 DEF Active
<1>16. QED
  BY <1>1, <1>2, <1>7, <1>13, <1>14, <1>15, InboxMoves DEF Calm

-----------------------------------------------------------------------------
LEMMA StepStrong == TInv /\ TInv' /\ Strong /\ Undisturbed' /\ [Next]_vars => Strong'
<1> SUFFICES ASSUME TInv, TInv', Strong, Undisturbed', [Next]_vars PROVE Strong'
  OBVIOUS
<1>0. Lasts
  BY StepLasts
<1>1. CASE UNCHANGED vars
  <2>1. UNCHANGED <<inbox, around, runs, request, thread>> /\ UNCHANGED retried
    BY <1>1 DEF vars, around
  <2>2. Flow' /\ Calm
    BY <1>0, <2>1, HandsStay, RestsFlow DEF Strong
  <2>3. QED
    BY <1>0, <2>1, <2>2, InboxStays
<1>2. ASSUME NEW q \in Requests, Works(q) PROVE Strong'
  <2>1. ~Salvage(q)
    BY DEF Salvage, Strong, Flow, InPlace
  <2>2. QED
    BY <1>0, <1>2, <2>1, PullWritesStrong, PrepareStrong, PullAgainStrong, PulledAgainStrong, TakeStrong,
       CreateStrong, EndsStrong, LinkStrong, AckStrong, CancelsStrong DEF Works
<1>3. ASSUME NEW q \in Requests, Pull(q) \/ Ask(q) \/ Resume(q) \/ Cancel(q) \/ Throws(q) \/ ReceiptFails(q)
      PROVE  Strong'
  <2>1. ~Throws(q)
    BY DEF Throws, Mishap, Undisturbed, Causes
  <2>2. QED
    BY <1>0, <1>3, <2>1, PullStrong, AskStrong, ResumeStrong, CancelStrong, ReceiptFailsStrong
<1>4. ASSUME NEW r \in Runs, Recover(r) \/ RecoverEnds(r) \/ Report(r) \/ Scan(r) PROVE Strong'
  BY <1>0, <1>4, RecoverStrong, RecoverEndsStrong, ReportStrong, ScanStrong
<1>5. ASSUME NEW m \in Messages, PageAcks(m) \/ RetryTeam(m) PROVE Strong'
  BY <1>0, <1>5, PageAcksStrong, RetryTeamStrong
<1>6. CASE StopParent \/ StopReads \/ StopWrites \/ GuardReads \/ GuardWrites \/ Restart
  BY <1>0, <1>6, StopParentStrong, StopReadsStrong, StopWritesStrong, GuardReadsStrong, GuardWritesStrong,
     RestartStrong
<1>7. QED
  BY <1>1, <1>2, <1>3, <1>4, <1>5, <1>6 DEF Next

(* What has happened has happened.                                          *)
LEMMA CausesStay == [Next]_vars => mishaps \subseteq mishaps'
<1> SUFFICES ASSUME [Next]_vars PROVE mishaps \subseteq mishaps'
  OBVIOUS
<1>1. CASE UNCHANGED vars
  BY <1>1 DEF vars
<1>2. ASSUME NEW q \in Requests, Works(q) PROVE mishaps \subseteq mishaps'
  BY <1>2 DEF Works, PullWrites, Prepare, PullAgain, PulledAgain, Overlap, Take, Create, Ends, Link, Ack, Receipt,
     Salvage, Cancels
<1>3. ASSUME NEW q \in Requests, Pull(q) \/ Ask(q) \/ Resume(q) \/ Cancel(q) \/ Throws(q) \/ ReceiptFails(q)
      PROVE  mishaps \subseteq mishaps'
  BY <1>3 DEF Pull, Ask, Resume, Cancel, Throws, ReceiptFails, Mishap
<1>4. ASSUME NEW r \in Runs, Recover(r) \/ RecoverEnds(r) \/ Report(r) \/ Scan(r) PROVE mishaps \subseteq mishaps'
  BY <1>4 DEF Recover, RecoverEnds, Report, Scan, Receipt
<1>5. ASSUME NEW m \in Messages, PageAcks(m) \/ RetryTeam(m) PROVE mishaps \subseteq mishaps'
  BY <1>5 DEF PageAcks, RetryTeam, Mishap
<1>6. CASE StopParent \/ StopReads \/ StopWrites \/ GuardReads \/ GuardWrites \/ Restart
  BY <1>6 DEF StopParent, StopReads, StopWrites, GuardReads, GuardWrites, Restart, Mishap, Overlap
<1>7. QED
  BY <1>1, <1>2, <1>3, <1>4, <1>5, <1>6 DEF Next

LEMMA InitStrong == Init => Strong
<1> SUFFICES ASSUME Init PROVE Strong
  OBVIOUS
<1>1. /\ \A r \in Runs : runs[r].st = "none" /\ runs[r].src = None /\ runs[r].link = None /\ thread[r] = "off"
      /\ \A q \in Requests : pc[q] = "idle" /\ msg[q] = None /\ run[q] = None /\ out[q] = "none" /\ view[q].late = {}
      /\ \A m \in Messages : inbox[m].st = "queued" /\ m # None
      /\ retried = {} /\ doomed = {} /\ hand["stop"] = {} /\ hand["guard"] = {}
  BY DEF Init, NoView
<1>2. \A m \in Messages : Unclaimed(m) /\ \A r \in Runs : ~Holds(r, m)
  BY <1>1 DEF Unclaimed, Holds, Prepared
<1>3. OneClaim /\ WaitingFree /\ ClosedTrue
  BY <1>1, <1>2 DEF OneClaim, WaitingFree, ClosedTrue, Prepared
<1>4. Attended /\ Withdrawn
  BY <1>1, <1>2, FreeIsQuiet DEF Attended, Withdrawn
<1>5. Driving = {}
  BY <1>1 DEF Driving
<1>6. RunsInOrder /\ OwnLinks /\ Driven /\ Outcomes /\ Stillborn /\ InPlace /\ Hands
  BY <1>1, <1>5 DEF RunsInOrder, OwnLinks, Driven, Outcomes, Stillborn, InPlace, Hands, Says, Ended
<1>7. QED
  BY <1>3, <1>4, <1>6 DEF Strong, Flow

LEMMA OnceInductive == Spec => []OnceInv
<1>1. Init => OnceInv
  BY InitTypes, InitStrong DEF OnceInv
<1>2. OnceInv /\ [Next]_vars => OnceInv'
  <2> SUFFICES ASSUME OnceInv, [Next]_vars PROVE OnceInv'
    OBVIOUS
  <2>1. TInv /\ TInv'
    BY StepKeeps DEF OnceInv, Keeps
  <2>2. Undisturbed' => Undisturbed
    BY CausesStay DEF Undisturbed
  <2>3. QED
    BY <2>1, <2>2, StepStrong DEF OnceInv
<1>3. QED
  BY <1>1, <1>2, PTL DEF Spec

(* Although pages race for a message, the process starts again, receipts    *)
(* are lost, runs wait for the user and others close messages, it is        *)
(* answered once, unless one of the seven causes has come in between.       *)
THEOREM MessagesHandledOnce == Spec => []HandledOnce
<1>1. OnceInv => HandledOnce
  <2> SUFFICES ASSUME OnceInv, Undisturbed, NEW m \in Messages, NEW r \in Answers(m), NEW s \in Answers(m),
                      runs[r].st = "completed", runs[s].st = "completed"
               PROVE  r = s
    BY DEF HandledOnce
  <2>1. r \in Runs /\ s \in Runs /\ Holds(r, m) /\ Holds(s, m) /\ runs[r].src = m /\ runs[s].src = m
    BY DEF Answers, Holds, Gone
  <2>2. s <= r /\ r <= s
    BY <2>1 DEF OnceInv, Strong, Flow, OneClaim
  <2>3. QED
    BY <2>1, <2>2 DEF Runs
<1>2. QED
  BY <1>1, OnceInductive, PTL

(* And its receipt is true: a message closed as answered or as stopped was, *)
(* unless the stop of its parent, the retry of its team or the guard has    *)
(* closed it; and what a retry has closed was nobody's work.                *)
THEOREM MessageReceiptsAreTrue == Spec => []ReceiptsAreTrue
<1>1. OnceInv => ReceiptsAreTrue
  <2> SUFFICES ASSUME OnceInv, Undisturbed PROVE
        /\ \A m \in Messages \ Void : inbox[m].st \in {"completed", "cancelled"} =>
             \E r \in Answers(m) : runs[r].st = inbox[m].st
        /\ \A m \in retried \ stopped : \A r \in Answers(m) : runs[r].st \in Ended
    BY DEF ReceiptsAreTrue
  <2>1. \A m \in Messages \ Void : inbox[m].st \in {"completed", "cancelled"} =>
          \E r \in Answers(m) : runs[r].st = inbox[m].st
    BY DEF OnceInv, Strong, ClosedTrue, True
  <2>2. ASSUME NEW m \in retried \ stopped, NEW r \in Answers(m) PROVE runs[r].st \in Ended
    <3>1. m \in Messages /\ m \notin Briefs
      BY DEF OnceInv, TInv, AroundOK, Receipts, Briefs
    <3>2. inbox[m].st # "processing"
      BY DEF OnceInv, Strong, Withdrawn, Closed
    <3>3. Quiet(m)
      BY <3>1, <3>2 DEF OnceInv, Strong, Attended
    <3>4. QED
      BY <3>1, <3>3 DEF Quiet, Answers
  <2>3. QED
    BY <2>1, <2>2
<1>2. QED
  BY <1>1, OnceInductive, PTL
=============================================================================
