----------------------------- MODULE ResponseRun -----------------------------
(***************************************************************************)
(* One run of a conversation: a model that calls tools, some of them only  *)
(* after the user's approval (agent_responses_service.py,                  *)
(* deepseek_responses_runtime.py), recovered after exceptions and restarts *)
(* (agent_run_salvage.py, background_task_recovery.py), stopped by its     *)
(* user at any moment.                                                     *)
(*                                                                         *)
(* A driver is an HTTP request or a recovery thread that works on the run: *)
(* each has a copy of the checkpoint and nothing keeps two of them apart   *)
(* but the row.  Each step is one transaction, or one read followed by a   *)
(* save that repeats its question.                                         *)
(***************************************************************************)
EXTENDS Naturals, FiniteSets

CONSTANTS
  Calls,          \* tool calls the model may ask for, in their order
  Guarded,        \* those that need the user's approval
  Drivers,        \* requests and recovery threads that may be at work
  MaxRecoveries,  \* MAX_AUTO_RECOVERIES
  UserStops,      \* the user may stop the run
  Rivals,         \* the session may start another run
  LongCalls,      \* a driver may be silent for longer than the lease of the row
  MaxMishaps      \* bound: stray requests, database errors and restarts together

None == 0

ASSUME RunAssumption ==
  /\ Calls \subseteq Nat \ {None} /\ Guarded \subseteq Calls
  /\ MaxRecoveries \in Nat /\ MaxMishaps \in Nat
  /\ UserStops \in BOOLEAN /\ Rivals \in BOOLEAN /\ LongCalls \in BOOLEAN

VARIABLES
  row,       \* agent_response_run: status and checkpoint
  tail,      \* the transcript table; the checkpoint of the row refers to it
  ledger,    \* agent_tool_execution, by call
  approval,  \* approval item of each call
  effects,   \* how often the operation of each call has run
  pc,        \* where each driver is
  ck,        \* its checkpoint, or the row it read
  call,      \* the tool call it is busy with
  result,    \* and what came of it
  auto,      \* drivers that are recovery threads
  waking,    \* a recovery thread is about to start
  sweep,     \* the row the orphan sweep has read, or NoRow
  stopper,   \* the cancel request
  rival,     \* another run of the session has started
  mishaps    \* strays, errors and restarts so far

drivers == <<pc, ck, call, result, auto>>
book == <<ledger, approval, effects>>
rest == <<waking, sweep, stopper, rival, mishaps>>
store == <<row, tail>>
vars == <<store, drivers, book, rest>>

Executing == {"running", "approving", "rejecting"}
Active == Executing \cup {"waiting"}
Final == {"completed", "cancelled"}
RunStatus == {"none", "failed"} \cup Active \cup Final
\* "asked": the function call is in the transcript, its output is not.
Outcome == {"success", "failed", "unknown", "rejected"}
Evidence == {"none", "asked"} \cup Outcome

Row == [st : RunStatus, pend : Calls \cup {None}, ev : [Calls -> Evidence],
        stop : BOOLEAN, rec : BOOLEAN, att : 0..MaxRecoveries]
NoRow == [st |-> "none", pend |-> None, ev |-> [c \in Calls |-> "none"],
          stop |-> FALSE, rec |-> FALSE, att |-> 0]

Init ==
  /\ row = NoRow /\ tail = NoRow.ev
  /\ ledger = [c \in Calls |-> "none"]
  /\ approval = [c \in Calls |-> "none"]
  /\ effects = [c \in Calls |-> 0]
  /\ pc = [d \in Drivers |-> "idle"]
  /\ ck = [d \in Drivers |-> NoRow]
  /\ call = [d \in Drivers |-> None]
  /\ result = [d \in Drivers |-> "none"]
  /\ auto = {} /\ waking = FALSE /\ sweep = NoRow
  /\ stopper = "idle" /\ rival = FALSE
  /\ mishaps = 0

-----------------------------------------------------------------------------
\* live_run: a recovery thread leaves the register before it looks back.
Live == \E d \in Drivers :
          pc[d] # "idle" /\ (d \in auto => pc[d] \notin {"salvage", "salvaging"})

GoesTo(d, p) == pc' = [pc EXCEPT ![d] = p]

Quits(d) ==
  /\ pc' = [pc EXCEPT ![d] = "idle"] /\ ck' = [ck EXCEPT ![d] = NoRow]
  /\ call' = [call EXCEPT ![d] = None] /\ result' = [result EXCEPT ![d] = "none"]
  /\ auto' = auto \ {d}

\* An exception leaves the driver, or a recovery thread has done its work.
Throws(d) ==
  /\ pc' = [pc EXCEPT ![d] = "salvage"] /\ ck' = [ck EXCEPT ![d] = NoRow]
  /\ call' = [call EXCEPT ![d] = None] /\ result' = [result EXCEPT ![d] = "none"]
  /\ auto' = auto

Leaves(d) == IF d \in auto THEN Throws(d) ELSE Quits(d)

Cancelled(r) == [r EXCEPT !.st = "cancelled", !.pend = None, !.stop = TRUE, !.rec = FALSE]

\* _extend_run_transcript: nothing was written behind the part the row refers
\* to, and that part is a prefix of the new transcript.
Extends(ev) ==
  /\ ~rival /\ row.ev = tail
  /\ \A c \in Calls : row.ev[c] \in {"none", ev[c]} \/ (row.ev[c] = "asked" /\ ev[c] \in Outcome)

\* save(): next is where the driver goes on, or "end".
Save(d, new, next) ==
  IF row.st = "cancelled" THEN Leaves(d) /\ UNCHANGED store
  ELSE IF row.st # "completed" /\ ~Extends(new.ev) THEN Throws(d) /\ UNCHANGED store
  ELSE IF row.st # "completed" /\ row.stop
    THEN Leaves(d) /\ row' = Cancelled(new) /\ tail' = new.ev
  ELSE /\ IF row.st = "completed" THEN UNCHANGED store ELSE row' = new /\ tail' = new.ev
       /\ IF next = "end" THEN Leaves(d)
          ELSE GoesTo(d, next) /\ ck' = [ck EXCEPT ![d] = new] /\ UNCHANGED <<call, result, auto>>

-----------------------------------------------------------------------------
\* Requests of the user.
Start(d) ==
  /\ pc[d] = "idle" /\ row.st = "none"
  /\ row' = [NoRow EXCEPT !.st = "running"]
  /\ ck' = [ck EXCEPT ![d] = row'] /\ GoesTo(d, "loop")
  /\ UNCHANGED <<tail, call, result, auto, book, rest>>

\* claim(): a stop that came first wins.
Claims(d, st, next) ==
  /\ pc[d] = "idle"
  /\ IF row.stop
       THEN row' = Cancelled(row) /\ UNCHANGED drivers
       ELSE /\ row' = [row EXCEPT !.st = st, !.rec = FALSE]
            /\ ck' = [ck EXCEPT ![d] = row'] /\ GoesTo(d, next)
            /\ call' = [call EXCEPT ![d] = row.pend]
            /\ UNCHANGED <<result, auto>>
  /\ UNCHANGED <<tail, book, rest>>

Approve(d) == row.st = "waiting" /\ Claims(d, "approving", "exec")
Reject(d) == row.st = "waiting" /\ Claims(d, "rejecting", "refuse")

Retry(d) ==
  /\ row.st = "failed"
  /\ IF row.pend = None \/ row.stop THEN Claims(d, "running", "loop")
     ELSE /\ pc[d] = "idle"
          /\ row' = [row EXCEPT !.st = "waiting", !.rec = FALSE]
          /\ UNCHANGED <<tail, drivers, book, rest>>

\* A request the run refuses: sent twice, or for a state that is over.
Stray(d) ==
  /\ pc[d] = "idle" /\ row.st # "none" /\ mishaps < MaxMishaps
  /\ mishaps' = mishaps + 1
  /\ Throws(d)
  /\ UNCHANGED <<store, book, waking, sweep, stopper, rival>>

Stop ==
  /\ UserStops /\ stopper = "idle" /\ row.st # "none"
  /\ row' = [row EXCEPT !.stop = TRUE]
  /\ stopper' = "asked"
  /\ UNCHANGED <<tail, drivers, book, waking, sweep, rival, mishaps>>

\* The same request goes on to mark the run; it fails when it cannot save.
StopMarks ==
  /\ stopper = "asked" /\ stopper' = "done"
  /\ row' = IF row.st \in Final \/ ~Extends(row.ev) THEN row ELSE Cancelled(row)
  /\ UNCHANGED <<tail, drivers, book, waking, sweep, rival, mishaps>>

\* create() of another run; its input moves the transcript of the session.
RivalStarts ==
  /\ Rivals /\ ~rival /\ row.st \in Final \cup {"failed"}
  /\ rival' = TRUE
  /\ UNCHANGED <<store, drivers, book, waking, sweep, stopper, mishaps>>

-----------------------------------------------------------------------------
\* The drive: cancelled or asked to stop, a driver halts at the next boundary.
Halted == row.st = "cancelled" \/ row.stop

Halts(d) ==
  /\ pc[d] \in {"loop", "model", "pause"} \/ (pc[d] = "answered" /\ ck[d].pend = None)
  /\ Halted
  /\ IF row.st \in Final THEN Leaves(d) /\ UNCHANGED store
     ELSE IF Extends(ck[d].ev) THEN Leaves(d) /\ row' = Cancelled(ck[d]) /\ tail' = ck[d].ev
     ELSE Throws(d) /\ UNCHANGED store
  /\ UNCHANGED <<book, rest>>

\* Calls of a completed response that have no output yet, taken in order.
TodoM(d) == {c \in Calls : ck[d].ev[c] = "asked" /\ ledger[c] = "none"}   \* those begun count as done
Todo(d) == {c \in Calls : ck[d].ev[c] = "asked"}
First(C) == {c \in C : \A x \in C : c <= x}

Loop(d) ==
  /\ pc[d] = "loop" /\ ~Halted
  /\ IF Todo(d) # {}
       THEN /\ \E c \in First(Todo(d)) : call' = [call EXCEPT ![d] = c]
            /\ GoesTo(d, "exec") /\ UNCHANGED <<store, ck, result, auto>>
       ELSE Save(d, ck[d], "model")
  /\ UNCHANGED <<book, rest>>

\* A call the model has never asked for carries an id nobody has seen.
Fresh == {c \in Calls : /\ ledger[c] = "none" /\ approval[c] = "none" /\ row.ev[c] = "none"
                        /\ \A d \in Drivers : ck[d].ev[c] = "none"}

Ask(d) ==
  /\ pc[d] = "model" /\ ~Halted
  /\ \E C \in SUBSET Fresh \ {{}} :
       Save(d, [ck[d] EXCEPT !.ev = [c \in Calls |-> IF c \in C THEN "asked" ELSE @[c]]], "loop")
  /\ UNCHANGED <<book, rest>>

Complete(d) ==
  /\ pc[d] = "model" /\ ~Halted
  /\ Save(d, [ck[d] EXCEPT !.st = "completed"], "end")
  /\ UNCHANGED <<book, rest>>

\* Transport errors, incomplete responses, too many rounds.
Fail(d) ==
  /\ pc[d] = "model"
  /\ Save(d, [ck[d] EXCEPT !.st = "failed"], "end")
  /\ UNCHANGED <<book, rest>>

-----------------------------------------------------------------------------
\* PrismToolExecutor.execute.
Answers(d, r) ==
  /\ result' = [result EXCEPT ![d] = r] /\ GoesTo(d, "answered")
  /\ UNCHANGED <<ck, call, auto>>

Approved(d) == ck[d].pend = call[d]

\* Rights, arguments or the supervisor are against it, whatever came before.
Deny(d) ==
  /\ pc[d] = "exec"
  /\ ledger' = [ledger EXCEPT ![call[d]] = IF @ = "none" THEN "failed" ELSE @]
  /\ Answers(d, "failed")
  /\ UNCHANGED <<store, approval, effects, rest>>

AskApproval(d) ==
  LET c == call[d] IN
  /\ pc[d] = "exec" /\ c \in Guarded /\ ~Approved(d)
  /\ approval' = [approval EXCEPT ![c] = IF @ = "none" THEN "pending" ELSE @]
  /\ GoesTo(d, "pause")
  /\ UNCHANGED <<store, ck, call, result, auto, ledger, effects, rest>>

Pause(d) ==
  /\ pc[d] = "pause" /\ ~Halted
  /\ Save(d, [ck[d] EXCEPT !.st = "waiting", !.pend = call[d]], "end")
  /\ UNCHANGED <<book, rest>>

\* _mark_approval
MarkedM(c, decision) == approval' = [approval EXCEPT ![c] = decision]
Marked(c, decision) ==
  /\ approval[c] \in {"pending", decision}
  /\ approval' = [approval EXCEPT ![c] = decision]

MarkApproval(d) ==
  /\ pc[d] = "exec" /\ call[d] \in Guarded /\ Approved(d)
  /\ \/ Marked(call[d], "approved") /\ GoesTo(d, "begin") /\ UNCHANGED <<ck, call, result, auto>>
     \/ approval[call[d]] = "rejected" /\ Answers(d, "failed") /\ UNCHANGED approval
  /\ UNCHANGED <<store, ledger, effects, rest>>

\* _execute_once: the place in the ledger comes first, and once.
ReservedM(c) == ledger[c] \in {"none", "executing"}   \* an unknown result is tried again
Reserved(c) == ledger[c] = "none"

\* _recorded_execution: nobody knows how a call ended that only began.
RecordedM(c) == IF ledger[c] = "failed" THEN "failed" ELSE "success"   \* taken for done
Recorded(c) == IF ledger[c] = "executing" THEN "unknown" ELSE ledger[c]

Begin(d) ==
  LET c == call[d] IN
  /\ pc[d] = "begin" \/ (pc[d] = "exec" /\ c \notin Guarded)
  /\ IF Reserved(c)
       THEN /\ ledger' = [ledger EXCEPT ![c] = "executing"]
            /\ GoesTo(d, "effect") /\ UNCHANGED <<ck, call, result, auto>>
       ELSE /\ Answers(d, Recorded(c))
            /\ UNCHANGED ledger
  /\ UNCHANGED <<store, approval, effects, rest>>

Effect(d) ==
  /\ pc[d] = "effect"
  /\ effects' = [effects EXCEPT ![call[d]] = IF @ < 2 THEN @ + 1 ELSE @]
  /\ GoesTo(d, "commit")
  /\ UNCHANGED <<store, ck, call, result, auto, ledger, approval, rest>>

\* Recorded with its result; without an effect when the session has ended.
Commit(d) ==
  /\ pc[d] \in {"effect", "commit"}
  /\ \E r \in {"success", "failed"} :
       /\ pc[d] = "effect" => r = "failed"
       /\ ledger' = [ledger EXCEPT ![call[d]] = r]
       /\ Answers(d, r)
  /\ UNCHANGED <<store, approval, effects, rest>>

\* The commit itself fails: the transcript is told of a failure.
CommitFails(d) ==
  /\ pc[d] = "commit" /\ mishaps < MaxMishaps
  /\ mishaps' = mishaps + 1
  /\ Answers(d, "failed")
  /\ UNCHANGED <<store, book, waking, sweep, stopper, rival>>

\* The answer of an approved call is saved without asking for a stop first.
Record(d) ==
  /\ pc[d] = "answered" /\ (Halted => Approved(d))
  /\ Save(d, [ck[d] EXCEPT !.st = "running", !.pend = None, !.ev[call[d]] = result[d]], "loop")
  /\ UNCHANGED <<book, rest>>

\* reject(): the decision, then the end of the run.
Refuse(d) ==
  /\ pc[d] = "refuse"
  /\ \/ /\ Marked(call[d], "rejected") /\ GoesTo(d, "refused")
        /\ UNCHANGED <<store, ck, call, result, auto>>
     \/ /\ approval[call[d]] = "approved" /\ UNCHANGED approval
        /\ Save(d, [ck[d] EXCEPT !.st = "failed"], "end")
  /\ UNCHANGED <<ledger, effects, rest>>

Refused(d) ==
  /\ pc[d] = "refused"
  /\ Save(d, [ck[d] EXCEPT !.st = "completed", !.pend = None,
                !.ev = [c \in Calls |-> IF @[c] = "asked" THEN "rejected" ELSE @[c]]], "end")
  /\ UNCHANGED <<book, rest>>

-----------------------------------------------------------------------------
\* salvage_crashed_run: what it makes of the row it has read.
Settled(r) ==   \* _recover_stale_active_run
  IF r.stop THEN Cancelled(r)
  ELSE IF r.st = "waiting" THEN r
  ELSE IF r.st # "running" /\ r.pend # None THEN [r EXCEPT !.st = "waiting"]
  ELSE [r EXCEPT !.st = "failed", !.pend = None, !.rec = TRUE]

GivenUp(r) == [r EXCEPT !.st = "failed", !.pend = None, !.rec = FALSE]

Budget(r) == r.att < MaxRecoveries

SalvagedM(r) ==   \* the count is lost
  IF r.stop THEN Cancelled(r) ELSE IF ~Budget(r) THEN GivenUp(r) ELSE Settled(r)
Salvaged(r) ==
  IF r.stop THEN Cancelled(r)
  ELSE IF ~Budget(r) THEN GivenUp(r)
  ELSE [Settled(r) EXCEPT !.att = @ + 1]

Throw(d) ==
  /\ pc[d] \notin {"idle", "exec", "begin", "effect", "commit"} /\ mishaps < MaxMishaps
  /\ mishaps' = mishaps + 1
  /\ IF pc[d] \in {"salvage", "salvaging"} THEN Quits(d) ELSE Throws(d)
  /\ UNCHANGED <<store, book, waking, sweep, stopper, rival>>

SalvageRead(d) ==
  /\ pc[d] = "salvage"
  /\ IF row.st \in Active
       THEN ck' = [ck EXCEPT ![d] = row] /\ GoesTo(d, "salvaging") /\ UNCHANGED <<call, result, auto>>
       ELSE Quits(d)
  /\ UNCHANGED <<store, book, rest>>

SalvageWrite(d) ==
  LET r == ck[d]
      new == Salvaged(r)
  IN
  /\ pc[d] = "salvaging"
  /\ IF r.st = "waiting" /\ new.st = "waiting" THEN UNCHANGED <<row, waking>>
     ELSE row' = new /\ waking' = (waking \/ new.rec)
  /\ Quits(d)
  /\ UNCHANGED <<tail, book, sweep, stopper, rival, mishaps>>

\* sweep_orphan_runs_once: the rows are read first, then those that do not live
\* by then are settled one by one.  A save renews the lease of 15 minutes.
Lapsed == Live => LongCalls
Orphan == row.st \in Executing \/ (row.st = "waiting" /\ row.stop)

SweepRead ==
  /\ sweep = NoRow /\ Orphan /\ Lapsed
  /\ sweep' = row
  /\ UNCHANGED <<store, drivers, book, waking, stopper, rival, mishaps>>

Swept(r) ==
  LET s == Settled(r) IN
  IF ~s.rec THEN s ELSE IF Budget(s) THEN [s EXCEPT !.att = @ + 1] ELSE GivenUp(s)

SweepWrite ==
  /\ sweep # NoRow /\ sweep' = NoRow
  /\ IF Live THEN UNCHANGED <<row, waking>>
     ELSE row' = Swept(sweep) /\ waking' = (waking \/ row'.rec)
  /\ UNCHANGED <<tail, drivers, book, stopper, rival, mishaps>>

\* _resume_agent_run, when its thread starts.
Resume(d) ==
  /\ waking /\ waking' = FALSE /\ pc[d] = "idle"
  /\ IF Live THEN UNCHANGED <<row, drivers>>
     ELSE IF row.st = "failed" /\ row.rec /\ ~row.stop
       THEN /\ row' = [row EXCEPT !.st = "running", !.rec = FALSE]
            /\ ck' = [ck EXCEPT ![d] = row'] /\ GoesTo(d, "loop")
            /\ auto' = auto \cup {d} /\ UNCHANGED <<call, result>>
       ELSE /\ row' = IF row.stop /\ row.st # "cancelled" THEN Cancelled(row) ELSE row
            /\ GoesTo(d, "salvage")
            /\ auto' = auto \cup {d} /\ UNCHANGED <<ck, call, result>>
  /\ UNCHANGED <<tail, book, sweep, stopper, rival, mishaps>>

\* The process starts again: sweep_stale_active_runs, then the recoveries.
Restart ==
  /\ row.st # "none" /\ mishaps < MaxMishaps
  /\ mishaps' = mishaps + 1
  /\ LET r == IF row.st \in Active THEN Settled(row) ELSE row
     IN  /\ row' = IF r.st = "failed" /\ r.rec /\ r.stop THEN Cancelled(r) ELSE r
         /\ waking' = (r.st = "failed" /\ r.rec /\ ~r.stop)
  /\ pc' = [d \in Drivers |-> "idle"] /\ ck' = [d \in Drivers |-> NoRow]
  /\ call' = [d \in Drivers |-> None] /\ result' = [d \in Drivers |-> "none"]
  /\ auto' = {} /\ sweep' = NoRow
  /\ stopper' = IF stopper = "asked" THEN "done" ELSE stopper
  /\ UNCHANGED <<tail, book, rival>>

-----------------------------------------------------------------------------
Request(d) == Start(d) \/ Approve(d) \/ Reject(d) \/ Retry(d) \/ Stray(d)

Work(d) ==
  \/ Halts(d) \/ Loop(d) \/ Ask(d) \/ Complete(d) \/ Fail(d)
  \/ Deny(d) \/ AskApproval(d) \/ Pause(d) \/ MarkApproval(d) \/ Begin(d) \/ Effect(d) \/ Commit(d) \/ Record(d)
  \/ Refuse(d) \/ Refused(d) \/ SalvageRead(d) \/ SalvageWrite(d)

Next ==
  \/ \E d \in Drivers : Request(d) \/ Work(d) \/ Resume(d) \/ Throw(d) \/ CommitFails(d)
  \/ Stop \/ StopMarks \/ RivalStarts \/ SweepRead \/ SweepWrite \/ Restart

Spec == Init /\ [][Next]_vars
=============================================================================
