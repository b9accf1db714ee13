------------------------- MODULE ResponseRunProofs -------------------------
(***************************************************************************)
(* Proofs about runs for any number of calls, drivers, mishaps and         *)
(* recoveries: the operation of a call runs at most once and only          *)
(* approved, and what a completed run tells of its calls is complete and   *)
(* true.                                                                   *)
(*                                                                         *)
(* Two drivers may hold different copies of the run, so nothing is said of *)
(* one copy from another.  Each copy is sound by itself (Known), and what  *)
(* a driver is about to do is safe because of the ledger and the approvals *)
(* alone (DriverOK, Alone).                                                *)
(***************************************************************************)
EXTENDS ResponseRunProps, TLAPS

Unanswered(r) == \E c \in Calls : r.ev[c] = "asked"

Good(r) ==
  /\ r \in Row
  /\ r.st \in {"waiting", "approving", "rejecting"} => r.pend # None
  /\ r.st = "completed" => ~Unanswered(r)

Told(r) == \A c \in Calls : r.ev[c] = "success" => ledger[c] = "success"

Known(r) == Good(r) /\ Told(r)

Busy == {"exec", "pause", "begin", "effect", "commit", "answered", "refuse", "refused"}
Inside == {"effect", "commit"}

AskedFor(c) == c \in Guarded => approval[c] = "approved"

DriverOK(d) ==
  /\ Known(ck[d])
  /\ pc[d] \in Busy => call[d] \in Calls
  /\ pc[d] = "model" => ~Unanswered(ck[d])
  /\ pc[d] \in {"loop", "model"} => ck[d].st # "completed"
  /\ pc[d] = "answered" => /\ result[d] \in Outcome
                           /\ result[d] = "success" => ledger[call[d]] = "success"
  /\ pc[d] \in {"begin"} \cup Inside => AskedFor(call[d])
  /\ pc[d] = "effect" => ledger[call[d]] = "executing" /\ effects[call[d]] = 0
  /\ pc[d] = "commit" => ledger[call[d]] = "executing" /\ effects[call[d]] = 1

CallOK(c) ==
  /\ effects[c] \in {0, 1}
  /\ ledger[c] = "none" => effects[c] = 0
  /\ ledger[c] = "success" => effects[c] = 1
  /\ effects[c] = 1 => AskedFor(c)

Alone ==
  \A d, e \in Drivers : d # e /\ pc[d] \in Inside /\ pc[e] \in Inside => call[d] # call[e]

IInv ==
  /\ TypeOK
  /\ Known(row) /\ Known(sweep)
  /\ \A d \in Drivers : DriverOK(d)
  /\ \A c \in Calls : CallOK(c)
  /\ Alone

-----------------------------------------------------------------------------
(* What recovery makes of a sound copy of the run is sound.                 *)
LEMMA NoRowKnown == Known(NoRow)
  BY RunAssumption DEF Known, Good, Told, NoRow, Row, Unanswered, RunStatus, Active, Executing, Evidence

LEMMA CancelledKnown ==
  ASSUME NEW r, Known(r)
  PROVE  Known(Cancelled(r)) /\ Cancelled(r).ev = r.ev
  BY DEF Known, Good, Told, Cancelled, Row, Unanswered, RunStatus, Final, Active, Executing

LEMMA GivenUpKnown ==
  ASSUME NEW r, Known(r)
  PROVE  Known(GivenUp(r)) /\ GivenUp(r).ev = r.ev
  BY DEF Known, Good, Told, GivenUp, Row, Unanswered, RunStatus

LEMMA SettledKnown ==
  ASSUME NEW r, Known(r)
  PROVE  Known(Settled(r)) /\ Settled(r).ev = r.ev
  <1>1. CASE r.stop
    BY <1>1, CancelledKnown DEF Settled, Cancelled, Known, Good, Row
  <1>2. CASE ~r.stop
    BY <1>2 DEF Known, Good, Told, Settled, Row, Unanswered, RunStatus, Active, Executing
  <1> QED BY <1>1, <1>2

LEMMA CountedKnown ==
  ASSUME NEW r, Known(r), Budget(r)
  PROVE  Known([r EXCEPT !.att = @ + 1])
  BY RunAssumption DEF Known, Good, Told, Budget, Row, Unanswered

LEMMA SalvagedKnown ==
  ASSUME NEW r, Known(r)
  PROVE  Known(Salvaged(r))
  <1>1. CASE r.stop \/ ~Budget(r)
    BY <1>1, CancelledKnown, GivenUpKnown DEF Salvaged
  <1>2. CASE ~r.stop /\ Budget(r)
    <2>1. Settled(r).att = r.att
      BY <1>2 DEF Settled, Known, Good, Row
    <2>2. Budget(Settled(r))
      BY <1>2, <2>1 DEF Budget
    <2> QED BY <1>2, <2>2, SettledKnown, CountedKnown DEF Salvaged
  <1> QED BY <1>1, <1>2

LEMMA SweptKnown ==
  ASSUME NEW r, Known(r)
  PROVE  Known(Swept(r))
  <1> DEFINE s == Settled(r)
  <1>1. Known(s)
    BY SettledKnown
  <1>2. CASE ~s.rec
    BY <1>1, <1>2 DEF Swept
  <1>3. CASE s.rec /\ Budget(s)
    <2>1. Swept(r) = [s EXCEPT !.att = @ + 1]
      BY <1>3 DEF Swept
    <2> HIDE DEF s
    <2> QED BY <1>1, <1>3, <2>1, CountedKnown
  <1>4. CASE s.rec /\ ~Budget(s)
    <2>1. Swept(r) = GivenUp(s)
      BY <1>4 DEF Swept
    <2> HIDE DEF s
    <2> QED BY <1>1, <2>1, GivenUpKnown
  <1> QED BY <1>2, <1>3, <1>4

-----------------------------------------------------------------------------
(* The ledger and the approvals only grow: what makes a step of a driver    *)
(* safe is not taken away by another.                                       *)
BookGrows ==
  /\ \A c \in Calls : ledger[c] = "success" => ledger'[c] = "success"
  /\ \A c \in Calls : approval[c] = "approved" => approval'[c] = "approved"

Untouched(e) ==
  /\ pc'[e] = pc[e] /\ ck'[e] = ck[e] /\ call'[e] = call[e] /\ result'[e] = result[e]
  /\ pc[e] \in Inside => ledger'[call[e]] = ledger[call[e]] /\ effects'[call[e]] = effects[call[e]]

\* Known of a copy when the step is done.
KnownNext(r) == Good(r) /\ \A c \in Calls : r.ev[c] = "success" => ledger'[c] = "success"

LEMMA KnownStays ==
  ASSUME NEW r, Known(r), BookGrows
  PROVE  KnownNext(r)
  BY DEF Known, KnownNext, Told, BookGrows

LEMMA Bystander ==
  ASSUME NEW e \in Drivers, DriverOK(e), BookGrows, Untouched(e)
  PROVE  DriverOK(e)'
  <1>1. KnownNext(ck[e])
    BY KnownStays DEF DriverOK
  <1>2. Known(ck[e])'
    BY <1>1 DEF KnownNext, Known, Told, Untouched
  <1>3. (pc[e] = "answered" /\ result[e] = "success") => ledger'[call[e]] = "success"
    BY DEF DriverOK, BookGrows, Busy
  <1>4. pc[e] \in {"begin"} \cup Inside => (AskedFor(call[e]) /\ call[e] \in Calls)
    BY DEF DriverOK, Busy, Inside
  <1>5. pc[e] \in {"begin"} \cup Inside => (call[e] \in Guarded => approval'[call[e]] = "approved")
    BY <1>4 DEF AskedFor, BookGrows
  <1> QED
    BY <1>2, <1>3, <1>5 DEF DriverOK, Untouched, AskedFor, Unanswered, Inside

-----------------------------------------------------------------------------
(* The types, in the parts in which the actions change them.                *)
Places == {"idle", "loop", "model", "exec", "pause", "begin", "effect", "commit",
           "answered", "refuse", "refused", "salvage", "salvaging"}

SharedT ==
  /\ row \in Row /\ tail \in [Calls -> Evidence]
  /\ waking \in BOOLEAN /\ sweep \in Row
  /\ stopper \in {"idle", "asked", "done"} /\ rival \in BOOLEAN /\ mishaps \in 0..MaxMishaps

BookT ==
  /\ ledger \in [Calls -> {"none", "executing", "success", "failed"}]
  /\ approval \in [Calls -> {"none", "pending", "approved", "rejected"}]
  /\ effects \in [Calls -> 0..2]

DriversT ==
  /\ pc \in [Drivers -> Places] /\ ck \in [Drivers -> Row]
  /\ call \in [Drivers -> Calls \cup {None}]
  /\ result \in [Drivers -> {"none"} \cup Outcome]
  /\ auto \subseteq Drivers

LEMMA TypeParts == TypeOK <=> SharedT /\ BookT /\ DriversT
  BY DEF TypeOK, SharedT, BookT, DriversT, Places

\* One driver moves; what it leaves unsaid about the others follows.
LEMMA Move ==
  ASSUME IInv, NEW d \in Drivers,
         TypeOK', BookGrows, KnownNext(row'), KnownNext(sweep'),
         \A e \in Drivers \ {d} : Untouched(e),
         DriverOK(d)',
         \A c \in Calls : CallOK(c)',
         pc'[d] \in Inside =>
           \A e \in Drivers \ {d} : pc[e] \in Inside => call[e] # call'[d]
  PROVE  IInv'
  <1>1. Known(row)' /\ Known(sweep)'
    BY DEF Known, KnownNext, Told
  <1>2. ASSUME NEW e \in Drivers PROVE DriverOK(e)'
    BY <1>2, Bystander DEF IInv
  <1>3. Alone'
    BY DEF IInv, Alone, Untouched
  <1> QED BY <1>1, <1>2, <1>3 DEF IInv

\* A driver that only changes its place, its copy or what it is busy with.
LEMMA Goes ==
  ASSUME IInv, NEW d \in Drivers, UNCHANGED book,
         NEW p \in Places \ Inside, NEW k, Known(k),
         NEW c \in Calls \cup {None}, NEW r \in {"none"} \cup Outcome,
         pc' = [pc EXCEPT ![d] = p], ck' = [ck EXCEPT ![d] = k],
         call' = [call EXCEPT ![d] = c], result' = [result EXCEPT ![d] = r],
         auto' \subseteq Drivers,
         p \in Busy => c \in Calls,
         p = "model" => ~Unanswered(k),
         p \in {"loop", "model"} => k.st # "completed",
         p = "answered" => r \in Outcome /\ (r = "success" => ledger[c] = "success"),
         p = "begin" => AskedFor(c),
         SharedT', KnownNext(row'), KnownNext(sweep')
  PROVE  IInv'
  <1>1. k \in Row
    BY DEF Known, Good
  <1>2. TypeOK'
    <2>1. DriversT'
      BY <1>1, TypeParts DEF IInv, DriversT
    <2>2. BookT'
      BY TypeParts DEF IInv, BookT, book
    <2> QED BY <2>1, <2>2, TypeParts, PTL
  <1>3. BookGrows
    BY DEF BookGrows, book
  <1>4. pc'[d] = p /\ ck'[d] = k /\ call'[d] = c /\ result'[d] = r
    BY TypeParts DEF IInv, DriversT
  <1>5. \A e \in Drivers \ {d} : Untouched(e)
    BY TypeParts DEF IInv, DriversT, Untouched, book
  <1>6. Known(ck[d])'
    BY <1>4 DEF Known, Told, book
  <1>7. DriverOK(d)'
    BY <1>4, <1>6 DEF DriverOK, book, AskedFor, Inside, Unanswered
  <1>8. \A x \in Calls : CallOK(x)'
    BY DEF IInv, CallOK, AskedFor, book
  <1> QED BY <1>2, <1>3, <1>4, <1>5, <1>7, <1>8, Move

Out(d) ==
  /\ \E p \in {"idle", "salvage"} : pc' = [pc EXCEPT ![d] = p]
  /\ ck' = [ck EXCEPT ![d] = NoRow]
  /\ call' = [call EXCEPT ![d] = None] /\ result' = [result EXCEPT ![d] = "none"]
  /\ auto' \subseteq Drivers

LEMMA OutSafe ==
  ASSUME IInv, NEW d \in Drivers, Out(d), UNCHANGED book,
         SharedT', KnownNext(row'), KnownNext(sweep')
  PROVE  IInv'
  <1>1. PICK p \in {"idle", "salvage"} : pc' = [pc EXCEPT ![d] = p]
    BY DEF Out
  <1>2. Known(NoRow)
    BY NoRowKnown
  <1>3. p \in Places \ Inside /\ p \notin Busy /\ p # "model" /\ p # "answered" /\ p # "begin"
    BY <1>1 DEF Places, Inside, Busy
  <1> QED BY <1>1, <1>2, <1>3, Goes DEF Out

LEMMA WaysOut ==
  ASSUME TypeOK, NEW d \in Drivers, Leaves(d) \/ Throws(d) \/ Quits(d)
  PROVE  Out(d)
  BY DEF TypeOK, Leaves, Throws, Quits, Out

\* Nobody moves: the user, the sweep and their writes.
LEMMA Written ==
  ASSUME IInv, UNCHANGED <<drivers, book>>, SharedT', KnownNext(row'), KnownNext(sweep')
  PROVE  IInv'
  <1>1. TypeOK'
    <2>1. DriversT' /\ BookT'
      BY TypeParts DEF IInv, DriversT, BookT, drivers, book
    <2> QED BY <2>1, TypeParts, PTL
  <1>2. BookGrows /\ \A e \in Drivers : Untouched(e)
    BY DEF BookGrows, Untouched, drivers, book
  <1>3. \A e \in Drivers : DriverOK(e)'
    BY <1>2, Bystander DEF IInv
  <1>4. Known(row)' /\ Known(sweep)'
    BY DEF Known, KnownNext, Told
  <1>5. Alone' /\ \A c \in Calls : CallOK(c)'
    BY DEF IInv, Alone, CallOK, AskedFor, drivers, book
  <1> QED BY <1>1, <1>3, <1>4, <1>5 DEF IInv

LEMMA KnownStill ==
  ASSUME NEW r, Known(r), UNCHANGED book
  PROVE  KnownNext(r)
  BY DEF Known, KnownNext, Told, book

\* save() of a sound copy, whatever it meets in the table.
LEMMA SaveSafe ==
  ASSUME IInv, NEW d \in Drivers, NEW new, Known(new), NEW next \in {"end", "loop", "model"},
         next = "model" => ~Unanswered(new),
         next \in {"loop", "model"} => new.st # "completed",
         Save(d, new, next), UNCHANGED <<book, rest>>
  PROVE  IInv'
  <1>1. UNCHANGED book
    BY DEF book
  <1>2. new \in Row /\ Known(Cancelled(new)) /\ Cancelled(new) \in Row
    BY CancelledKnown DEF Known, Good
  <1>3. row' \in {row, new, Cancelled(new)} /\ tail' \in {tail, new.ev}
    BY DEF Save, store
  <1>4. KnownNext(row')
    <2>1. Known(row')
      BY <1>2, <1>3 DEF IInv
    <2> QED BY <1>1, <2>1, KnownStill
  <1>5. KnownNext(sweep')
    BY <1>1, KnownStill DEF IInv, rest
  <1>6. SharedT'
    BY <1>2, <1>3, TypeParts DEF IInv, SharedT, rest, Row
  <1>7. Leaves(d) \/ Throws(d) \/ (/\ GoesTo(d, next) /\ ck' = [ck EXCEPT ![d] = new]
                                   /\ UNCHANGED <<call, result, auto>> /\ next # "end")
    BY DEF Save
  <1>8. CASE Leaves(d) \/ Throws(d)
    BY <1>1, <1>4, <1>5, <1>6, <1>8, WaysOut, OutSafe DEF IInv
  <1>9. CASE /\ GoesTo(d, next) /\ ck' = [ck EXCEPT ![d] = new]
             /\ UNCHANGED <<call, result, auto>> /\ next # "end"
    <2>1. call[d] \in Calls \cup {None} /\ result[d] \in {"none"} \cup Outcome /\ auto \subseteq Drivers
      BY TypeParts DEF IInv, DriversT
    <2>2. call' = [call EXCEPT ![d] = call[d]] /\ result' = [result EXCEPT ![d] = result[d]]
      BY <1>9, TypeParts DEF IInv, DriversT
    <2>3. /\ next \in Places \ Inside /\ next \notin Busy
          /\ next # "answered" /\ next # "begin"
      BY <1>9 DEF Places, Inside, Busy
    <2>4. auto' = auto
      BY <1>9
    <2>5. auto' \subseteq Drivers
      BY <2>1, <2>4
    <2>6. pc' = [pc EXCEPT ![d] = next] /\ ck' = [ck EXCEPT ![d] = new]
      BY <1>9 DEF GoesTo
    <2>7. next # "end"
      BY <1>9
    <2> QED BY <1>1, <1>4, <1>5, <1>6, <2>1, <2>2, <2>3, <2>5, <2>6, <2>7, Goes
  <1> QED BY <1>7, <1>8, <1>9

-----------------------------------------------------------------------------
(* Requests of the user.                                                    *)
LEMMA StartSafe ==
  ASSUME IInv, NEW d \in Drivers, Start(d)
  PROVE  IInv'
  <1>1. row' = [NoRow EXCEPT !.st = "running"] /\ Known(row')
    BY NoRowKnown DEF Start, IInv, Known, Good, Told, NoRow, Row, Unanswered, RunStatus, Active, Executing
  <1>2. UNCHANGED book /\ KnownNext(row') /\ KnownNext(sweep')
    BY <1>1, KnownStill DEF Start, rest, book, IInv
  <1>3. SharedT'
    BY <1>1, TypeParts DEF Start, rest, IInv, SharedT, Known, Good
  <1>4. /\ call[d] \in Calls \cup {None} /\ result[d] \in {"none"} \cup Outcome /\ auto' \subseteq Drivers
        /\ call' = [call EXCEPT ![d] = call[d]] /\ result' = [result EXCEPT ![d] = result[d]]
    BY TypeParts DEF IInv, DriversT, Start
  <1>5. pc' = [pc EXCEPT ![d] = "loop"] /\ ck' = [ck EXCEPT ![d] = row']
    BY DEF Start, GoesTo
  <1>6. Known([NoRow EXCEPT !.st = "running"]) /\ ck' = [ck EXCEPT ![d] = [NoRow EXCEPT !.st = "running"]]
    BY <1>1, <1>5
  <1>7. "loop" \in Places \ Inside /\ "loop" \notin Busy /\ [NoRow EXCEPT !.st = "running"].st # "completed"
    BY DEF Places, Inside, Busy, NoRow
  <1> QED BY <1>2, <1>3, <1>4, <1>5, <1>6, <1>7, Goes

\* A claimed run is as sound as it was, whatever state it is claimed for.
LEMMA ClaimsSafe ==
  ASSUME IInv, NEW d \in Drivers,
         NEW st \in {"approving", "rejecting", "running"}, NEW next \in {"exec", "refuse", "loop"},
         st # "running" => row.pend # None,
         next # "loop" => row.pend # None,
         Claims(d, st, next)
  PROVE  IInv'
  <1>1. UNCHANGED book /\ UNCHANGED <<tail, rest>>
    BY DEF Claims
  <1>2. CASE row.stop
    <2>1. row' = Cancelled(row) /\ UNCHANGED drivers /\ Known(row')
      BY <1>2, CancelledKnown DEF Claims, IInv
    <2>2. KnownNext(row') /\ KnownNext(sweep')
      BY <1>1, <2>1, KnownStill DEF rest, IInv
    <2>3. SharedT'
      BY <1>1, <2>1, TypeParts DEF rest, IInv, SharedT, Known, Good
    <2> QED BY <1>1, <2>1, <2>2, <2>3, Written
  <1>3. CASE ~row.stop
    <2> DEFINE k == [row EXCEPT !.st = st, !.rec = FALSE]
    <2>1. row' = k /\ Known(k)
      BY <1>3 DEF Claims, IInv, Known, Good, Told, Row, Unanswered, RunStatus, Active, Executing
    <2>2. KnownNext(row') /\ KnownNext(sweep')
      BY <1>1, <2>1, KnownStill DEF rest, IInv
    <2>3. SharedT'
      BY <1>1, <2>1, TypeParts DEF rest, IInv, SharedT, Known, Good
    <2>4. /\ pc' = [pc EXCEPT ![d] = next] /\ ck' = [ck EXCEPT ![d] = row']
          /\ call' = [call EXCEPT ![d] = row.pend] /\ UNCHANGED <<result, auto>>
      BY <1>3 DEF Claims, GoesTo
    <2>5. /\ row.pend \in Calls \cup {None} /\ result[d] \in {"none"} \cup Outcome /\ auto' \subseteq Drivers
          /\ result' = [result EXCEPT ![d] = result[d]]
      BY <2>4, TypeParts DEF IInv, DriversT, Known, Good, Row
    <2>6. ck' = [ck EXCEPT ![d] = k]
      BY <2>1, <2>4
    <2>7. next \in Places \ Inside /\ next # "model" /\ next # "answered" /\ next # "begin"
      BY DEF Places, Inside
    <2>8. next \in Busy => row.pend \in Calls
      BY <2>5 DEF Busy
    <2>9. k.st # "completed"
      BY DEF IInv, Known, Good, Row
    <2>10. next \in {"loop", "model"} => k.st # "completed"
      BY <2>9
    <2> HIDE DEF k
    <2>11. UNCHANGED book /\ next # "model"
      BY <1>1, <2>7
    <2>12. pc' = [pc EXCEPT ![d] = next] /\ call' = [call EXCEPT ![d] = row.pend]
      BY <2>4
    <2> QED BY <2>1, <2>2, <2>3, <2>5, <2>6, <2>7, <2>8, <2>10, <2>11, <2>12, Goes
  <1> QED BY <1>2, <1>3

LEMMA RequestSafe ==
  ASSUME IInv, NEW d \in Drivers, Request(d)
  PROVE  IInv'
  <1>1. CASE Start(d)
    BY <1>1, StartSafe
  <1>2. CASE Approve(d) \/ Reject(d)
    BY <1>2, ClaimsSafe DEF Approve, Reject, IInv, Known, Good
  <1>3. CASE Retry(d)
    <2>1. CASE row.pend = None \/ row.stop
      BY <1>3, <2>1, ClaimsSafe DEF Retry
    <2>2. CASE ~(row.pend = None \/ row.stop)
      <3>1. /\ row' = [row EXCEPT !.st = "waiting", !.rec = FALSE]
            /\ UNCHANGED <<drivers, book, rest, tail>>
        BY <1>3, <2>2 DEF Retry
      <3>2. Known(row')
        BY <2>2, <3>1 DEF IInv, Known, Good, Told, Row, Unanswered, RunStatus, Active
      <3>3. KnownNext(row') /\ KnownNext(sweep')
        BY <3>1, <3>2, KnownStill DEF rest, IInv
      <3>4. SharedT'
        BY <3>1, <3>2, TypeParts DEF rest, IInv, SharedT, Known, Good
      <3> QED BY <3>1, <3>3, <3>4, Written
    <2> QED BY <2>1, <2>2
  <1>4. CASE Stray(d)
    <2>1. Out(d)
      BY <1>4, WaysOut DEF Stray, IInv
    <2>2. UNCHANGED book /\ KnownNext(row') /\ KnownNext(sweep')
      BY <1>4, KnownStill DEF Stray, store, IInv
    <2>3. SharedT'
      BY <1>4, TypeParts, RunAssumption DEF Stray, store, IInv, SharedT
    <2> QED BY <2>1, <2>2, <2>3, OutSafe
  <1> QED BY <1>1, <1>2, <1>3, <1>4 DEF Request

-----------------------------------------------------------------------------
(* The drive: what it saves is sound.                                       *)
LEMMA HaltsSafe ==
  ASSUME IInv, NEW d \in Drivers, Halts(d)
  PROVE  IInv'
  <1>1. UNCHANGED book /\ UNCHANGED rest
    BY DEF Halts
  <1>2. Known(ck[d])
    BY DEF IInv, DriverOK
  <1>3. Known(Cancelled(ck[d])) /\ ck[d].ev \in [Calls -> Evidence]
    BY <1>2, CancelledKnown DEF Known, Good, Row
  <1>4. row' \in {row, Cancelled(ck[d])} /\ tail' \in {tail, ck[d].ev}
    BY DEF Halts, store
  <1>5. KnownNext(row') /\ KnownNext(sweep')
    BY <1>1, <1>3, <1>4, KnownStill DEF rest, IInv
  <1>6. SharedT'
    BY <1>1, <1>3, <1>4, TypeParts DEF rest, IInv, SharedT, Known, Good
  <1>7. Out(d)
    BY WaysOut DEF Halts, IInv
  <1> QED BY <1>1, <1>5, <1>6, <1>7, OutSafe

LEMMA LoopSafe ==
  ASSUME IInv, NEW d \in Drivers, Loop(d)
  PROVE  IInv'
  <1>1. UNCHANGED <<book, rest>> /\ Known(ck[d])
    BY DEF Loop, IInv, DriverOK
  <1>2. CASE Todo(d) = {}
    <2>1. ~Unanswered(ck[d]) /\ ck[d].st # "completed"
      BY <1>2 DEF Todo, Unanswered, Loop, IInv, DriverOK
    <2> QED BY <1>1, <1>2, <2>1, SaveSafe DEF Loop
  <1>3. CASE Todo(d) # {}
    <2>1. PICK c \in First(Todo(d)) : call' = [call EXCEPT ![d] = c]
      BY <1>3 DEF Loop
    <2>2. c \in Calls
      BY <2>1 DEF First, Todo
    <2>3. pc' = [pc EXCEPT ![d] = "exec"] /\ UNCHANGED <<store, ck, result, auto>>
      BY <1>3 DEF Loop, GoesTo
    <2>4. /\ ck' = [ck EXCEPT ![d] = ck[d]] /\ result' = [result EXCEPT ![d] = result[d]]
          /\ result[d] \in {"none"} \cup Outcome /\ auto' \subseteq Drivers
      BY <2>3, TypeParts DEF IInv, DriversT
    <2>5. KnownNext(row') /\ KnownNext(sweep')
      BY <1>1, <2>3, KnownStill DEF store, rest, IInv
    <2>6. SharedT'
      BY <1>1, <2>3, TypeParts DEF store, rest, IInv, SharedT
    <2>7. "exec" \in Places \ Inside
      BY DEF Places, Inside
    <2> QED BY <1>1, <2>1, <2>2, <2>3, <2>4, <2>5, <2>6, <2>7, Goes
  <1> QED BY <1>2, <1>3

LEMMA ModelSafe ==
  ASSUME IInv, NEW d \in Drivers, Ask(d) \/ Complete(d) \/ Fail(d)
  PROVE  IInv'
  <1>1. UNCHANGED <<book, rest>> /\ Known(ck[d]) /\ ck[d] \in Row /\ ~Unanswered(ck[d])
    BY DEF Ask, Complete, Fail, IInv, DriverOK, Known, Good
  <1>2. CASE Ask(d)
    <2>1. PICK C \in SUBSET Fresh \ {{}} :
            Save(d, [ck[d] EXCEPT !.ev = [c \in Calls |-> IF c \in C THEN "asked" ELSE @[c]]], "loop")
      BY <1>2 DEF Ask
    <2> DEFINE new == [ck[d] EXCEPT !.ev = [c \in Calls |-> IF c \in C THEN "asked" ELSE @[c]]]
    <2>2. ck[d].st # "completed"
      BY <1>2 DEF Ask, IInv, DriverOK
    <2>3. Known(new) /\ new.st # "completed"
      BY <1>1, <2>2 DEF Known, Good, Told, Row, Unanswered, Evidence
    <2> QED BY <1>1, <2>1, <2>3, SaveSafe
  <1>3. CASE Complete(d)
    <2>1. Known([ck[d] EXCEPT !.st = "completed"])
      BY <1>1 DEF Known, Good, Told, Row, Unanswered, RunStatus, Final
    <2> QED BY <1>1, <1>3, <2>1, SaveSafe DEF Complete
  <1>4. CASE Fail(d)
    <2>1. Known([ck[d] EXCEPT !.st = "failed"])
      BY <1>1 DEF Known, Good, Told, Row, Unanswered, RunStatus
    <2> QED BY <1>1, <1>4, <2>1, SaveSafe DEF Fail
  <1> QED BY <1>2, <1>3, <1>4

LEMMA PauseSafe ==
  ASSUME IInv, NEW d \in Drivers, Pause(d)
  PROVE  IInv'
  <1>1. UNCHANGED <<book, rest>> /\ Known(ck[d]) /\ call[d] \in Calls
    BY DEF Pause, IInv, DriverOK, Busy
  <1>2. Known([ck[d] EXCEPT !.st = "waiting", !.pend = call[d]])
    BY <1>1, RunAssumption DEF Known, Good, Told, Row, Unanswered, RunStatus, Active
  <1> QED BY <1>1, <1>2, SaveSafe DEF Pause

LEMMA RecordSafe ==
  ASSUME IInv, NEW d \in Drivers, Record(d)
  PROVE  IInv'
  <1>1. /\ UNCHANGED <<book, rest>> /\ Known(ck[d]) /\ call[d] \in Calls /\ result[d] \in Outcome
        /\ result[d] = "success" => ledger[call[d]] = "success"
    BY DEF Record, IInv, DriverOK, Busy
  <1> DEFINE new == [ck[d] EXCEPT !.st = "running", !.pend = None, !.ev[call[d]] = result[d]]
  <1>2. Known(new) /\ new.st # "completed"
    BY <1>1 DEF Known, Good, Told, Row, Unanswered, RunStatus, Active, Executing, Evidence
  <1> QED BY <1>1, <1>2, SaveSafe DEF Record

LEMMA RefusedSafe ==
  ASSUME IInv, NEW d \in Drivers, Refused(d)
  PROVE  IInv'
  <1> DEFINE new == [ck[d] EXCEPT !.st = "completed", !.pend = None,
                       !.ev = [c \in Calls |-> IF @[c] = "asked" THEN "rejected" ELSE @[c]]]
  <1>1. UNCHANGED <<book, rest>> /\ Known(ck[d]) /\ Save(d, new, "end")
    BY DEF Refused, IInv, DriverOK
  <1>2. Known(new)
    BY <1>1 DEF Known, Good, Told, Row, Unanswered, RunStatus, Final, Evidence, Outcome
  <1> HIDE DEF new
  <1> QED BY <1>1, <1>2, SaveSafe

-----------------------------------------------------------------------------
(* The tool executor: it writes the book and nothing else.                  *)
LEMMA Booked ==
  ASSUME IInv, NEW d \in Drivers, call[d] \in Calls,
         NEW p \in Busy, NEW r \in {"none"} \cup Outcome,
         pc' = [pc EXCEPT ![d] = p], result' = [result EXCEPT ![d] = r],
         UNCHANGED <<row, tail, ck, call, auto, waking, sweep, stopper, rival>>,
         mishaps' \in 0..MaxMishaps,
         BookT', BookGrows, \A c \in Calls : CallOK(c)',
         \A e \in Drivers \ {d} : pc[e] \in Inside =>
            ledger'[call[e]] = ledger[call[e]] /\ effects'[call[e]] = effects[call[e]],
         p = "answered" => r \in Outcome /\ (r = "success" => ledger'[call[d]] = "success"),
         p \in {"begin"} \cup Inside => (call[d] \in Guarded => approval'[call[d]] = "approved"),
         p = "effect" => ledger'[call[d]] = "executing" /\ effects'[call[d]] = 0,
         p = "commit" => ledger'[call[d]] = "executing" /\ effects'[call[d]] = 1,
         p \in Inside => \A e \in Drivers \ {d} : pc[e] \in Inside => call[e] # call[d]
  PROVE  IInv'
  <1>1. TypeOK'
    <2>1. DriversT'
      BY TypeParts DEF IInv, DriversT, Places, Busy
    <2>2. SharedT'
      BY TypeParts DEF IInv, SharedT
    <2> QED BY <2>1, <2>2, TypeParts, PTL
  <1>2. KnownNext(row') /\ KnownNext(sweep') /\ KnownNext(ck[d])
    BY KnownStays DEF IInv, DriverOK
  <1>3. \A e \in Drivers \ {d} : Untouched(e)
    BY TypeParts DEF IInv, DriversT, Untouched
  <1>4. pc'[d] = p /\ result'[d] = r /\ call'[d] = call[d] /\ ck'[d] = ck[d]
    BY TypeParts DEF IInv, DriversT
  <1>5. Known(ck[d])'
    BY <1>2, <1>4 DEF Known, KnownNext, Told
  <1>6. p # "model" /\ p # "loop"
    BY DEF Busy
  <1>7. DriverOK(d)'
    BY <1>4, <1>5, <1>6 DEF DriverOK, AskedFor, Inside
  <1>8. pc'[d] \in Inside => \A e \in Drivers \ {d} : pc[e] \in Inside => call[e] # call'[d]
    BY <1>4
  <1> QED BY <1>1, <1>2, <1>3, <1>7, <1>8, Move

\* What another driver holds while it is inside an operation.
LEMMA Holding ==
  ASSUME IInv, NEW d \in Drivers, pc[d] \in Inside
  PROVE  /\ call[d] \in Calls /\ ledger[call[d]] = "executing"
         /\ \A e \in Drivers \ {d} : pc[e] \in Inside => call[e] # call[d]
  BY DEF IInv, DriverOK, Alone, Inside, Busy

LEMMA DenySafe ==
  ASSUME IInv, NEW d \in Drivers, Deny(d)
  PROVE  IInv'
  <1>1. call[d] \in Calls /\ BookT
    BY TypeParts DEF Deny, IInv, DriverOK, Busy
  <1>2. BookT' /\ BookGrows
    BY <1>1 DEF Deny, BookT, BookGrows
  <1>3. \A c \in Calls : CallOK(c)'
    BY <1>1 DEF Deny, BookT, IInv, CallOK, AskedFor
  <1>4. \A e \in Drivers \ {d} : pc[e] \in Inside =>
           ledger'[call[e]] = ledger[call[e]] /\ effects'[call[e]] = effects[call[e]]
    BY <1>1, Holding DEF Deny, BookT
  <1>5. pc' = [pc EXCEPT ![d] = "answered"] /\ result' = [result EXCEPT ![d] = "failed"]
    BY DEF Deny, Answers, GoesTo
  <1>6. /\ UNCHANGED <<row, tail, ck, call, auto, waking, sweep, stopper, rival>>
        /\ mishaps' \in 0..MaxMishaps
    BY TypeParts DEF Deny, Answers, store, rest, IInv, SharedT
  <1>7. "answered" \in Busy /\ "answered" \notin {"begin"} \cup Inside /\ "failed" \in Outcome
    BY DEF Busy, Inside, Outcome
  <1> QED BY <1>1, <1>2, <1>3, <1>4, <1>5, <1>6, <1>7, Booked

LEMMA AskApprovalSafe ==
  ASSUME IInv, NEW d \in Drivers, AskApproval(d)
  PROVE  IInv'
  <1>1. call[d] \in Calls /\ BookT /\ result[d] \in {"none"} \cup Outcome
    BY TypeParts DEF AskApproval, IInv, DriverOK, Busy, DriversT
  <1>2. BookT' /\ BookGrows
    BY <1>1 DEF AskApproval, BookT, BookGrows
  <1>3. \A c \in Calls : CallOK(c)'
    BY <1>1 DEF AskApproval, BookT, IInv, CallOK, AskedFor
  <1>4. UNCHANGED <<ledger, effects>> /\ pc' = [pc EXCEPT ![d] = "pause"]
    BY DEF AskApproval, GoesTo
  <1>5. /\ UNCHANGED <<row, tail, ck, call, auto, waking, sweep, stopper, rival>>
        /\ mishaps' \in 0..MaxMishaps /\ result' = [result EXCEPT ![d] = result[d]]
    BY TypeParts DEF AskApproval, store, rest, IInv, SharedT, DriversT
  <1>6. "pause" \in Busy /\ "pause" \notin {"begin"} \cup Inside
    BY DEF Busy, Inside
  <1> QED BY <1>1, <1>2, <1>3, <1>4, <1>5, <1>6, Booked

LEMMA MarkApprovalSafe ==
  ASSUME IInv, NEW d \in Drivers, MarkApproval(d)
  PROVE  IInv'
  <1>1. call[d] \in Calls /\ BookT /\ result[d] \in {"none"} \cup Outcome
    BY TypeParts DEF MarkApproval, IInv, DriverOK, Busy, DriversT
  <1>2. UNCHANGED <<ledger, effects, row, tail, ck, call, auto, waking, sweep, stopper, rival, mishaps>>
    BY DEF MarkApproval, Answers, store, rest
  <1>3. mishaps' \in 0..MaxMishaps
    BY <1>2, TypeParts DEF IInv, SharedT
  <1>4. CASE Marked(call[d], "approved") /\ GoesTo(d, "begin") /\ UNCHANGED <<ck, call, result, auto>>
    <2>1. BookT' /\ BookGrows /\ approval'[call[d]] = "approved"
      BY <1>1, <1>2, <1>4 DEF Marked, BookT, BookGrows
    <2>2. \A c \in Calls : CallOK(c)'
      BY <1>1, <1>2, <1>4 DEF Marked, BookT, IInv, CallOK, AskedFor
    <2>3. pc' = [pc EXCEPT ![d] = "begin"] /\ result' = [result EXCEPT ![d] = result[d]]
      BY <1>4, TypeParts DEF GoesTo, IInv, DriversT
    <2>4. "begin" \in Busy /\ "begin" \notin Inside
      BY DEF Busy, Inside
    <2> QED BY <1>1, <1>2, <1>3, <2>1, <2>2, <2>3, <2>4, Booked
  <1>5. CASE Answers(d, "failed") /\ UNCHANGED approval
    <2>1. BookT' /\ BookGrows /\ \A c \in Calls : CallOK(c)'
      BY <1>1, <1>2, <1>5 DEF BookT, BookGrows, IInv, CallOK, AskedFor
    <2>2. pc' = [pc EXCEPT ![d] = "answered"] /\ result' = [result EXCEPT ![d] = "failed"]
      BY <1>5 DEF Answers, GoesTo
    <2>3. "answered" \in Busy /\ "answered" \notin {"begin"} \cup Inside /\ "failed" \in Outcome
      BY DEF Busy, Inside, Outcome
    <2> QED BY <1>1, <1>2, <1>3, <2>1, <2>2, <2>3, Booked
  <1> QED BY <1>4, <1>5 DEF MarkApproval

LEMMA BeginSafe ==
  ASSUME IInv, NEW d \in Drivers, Begin(d)
  PROVE  IInv'
  <1> DEFINE c == call[d]
  <1>1. c \in Calls /\ BookT /\ result[d] \in {"none"} \cup Outcome /\ AskedFor(c)
    BY TypeParts DEF Begin, IInv, DriverOK, Busy, DriversT, AskedFor
  <1>2. UNCHANGED <<approval, effects, row, tail, ck, call, auto, waking, sweep, stopper, rival, mishaps>>
    BY DEF Begin, Answers, store, rest
  <1>3. mishaps' \in 0..MaxMishaps
    BY <1>2, TypeParts DEF IInv, SharedT
  <1>4. CASE Reserved(c)
    <2>1. ledger[c] = "none" /\ effects[c] = 0 /\ ledger' = [ledger EXCEPT ![c] = "executing"]
      BY <1>1, <1>4 DEF Begin, Reserved, IInv, CallOK
    <2>2. BookT' /\ BookGrows /\ ledger'[c] = "executing" /\ effects'[c] = 0
      BY <1>1, <1>2, <2>1 DEF BookT, BookGrows
    <2>3. \A x \in Calls : CallOK(x)'
      BY <1>1, <1>2, <2>1 DEF BookT, IInv, CallOK, AskedFor
    <2>4. \A e \in Drivers \ {d} : pc[e] \in Inside =>
             call[e] # c /\ ledger'[call[e]] = ledger[call[e]] /\ effects'[call[e]] = effects[call[e]]
      BY <1>1, <1>2, <2>1, Holding DEF BookT
    <2>5. pc' = [pc EXCEPT ![d] = "effect"] /\ result' = [result EXCEPT ![d] = result[d]]
      BY <1>4, TypeParts DEF Begin, GoesTo, IInv, DriversT
    <2>6. "effect" \in Busy
      BY DEF Busy
    <2>7. c \in Guarded => approval'[c] = "approved"
      BY <1>1, <1>2 DEF AskedFor
    <2> QED BY <1>1, <1>2, <1>3, <2>2, <2>3, <2>4, <2>5, <2>6, <2>7, Booked
  <1>5. CASE ~Reserved(c)
    <2>1. /\ UNCHANGED ledger
          /\ pc' = [pc EXCEPT ![d] = "answered"] /\ result' = [result EXCEPT ![d] = Recorded(c)]
      BY <1>5 DEF Begin, Answers, GoesTo
    <2>2. Recorded(c) \in Outcome /\ (Recorded(c) = "success" => ledger[c] = "success")
      BY <1>1, <1>5 DEF BookT, Recorded, Reserved, Outcome
    <2>3. BookT' /\ BookGrows /\ \A x \in Calls : CallOK(x)'
      BY <1>1, <1>2, <2>1 DEF BookT, BookGrows, IInv, CallOK, AskedFor
    <2>4. "answered" \in Busy /\ "answered" \notin {"begin"} \cup Inside
      BY DEF Busy, Inside
    <2> QED BY <1>1, <1>2, <1>3, <2>1, <2>2, <2>3, <2>4, Booked
  <1> QED BY <1>4, <1>5

LEMMA EffectSafe ==
  ASSUME IInv, NEW d \in Drivers, Effect(d)
  PROVE  IInv'
  <1> DEFINE c == call[d]
  <1>1. /\ c \in Calls /\ BookT /\ result[d] \in {"none"} \cup Outcome
        /\ AskedFor(c) /\ ledger[c] = "executing" /\ effects[c] = 0
    BY TypeParts DEF Effect, IInv, DriverOK, Busy, DriversT, Inside
  <1>2. /\ UNCHANGED <<ledger, approval, row, tail, ck, call, auto, waking, sweep, stopper, rival, mishaps>>
        /\ effects' = [effects EXCEPT ![c] = 1]
    BY <1>1 DEF Effect, store, rest, BookT
  <1>3. mishaps' \in 0..MaxMishaps
    BY <1>2, TypeParts DEF IInv, SharedT
  <1>4. BookT' /\ BookGrows /\ ledger'[c] = "executing" /\ effects'[c] = 1
    BY <1>1, <1>2 DEF BookT, BookGrows
  <1>5. \A x \in Calls : CallOK(x)'
    BY <1>1, <1>2 DEF BookT, IInv, CallOK, AskedFor
  <1>6. \A e \in Drivers \ {d} : pc[e] \in Inside => call[e] # c
    BY Holding DEF Effect, Inside
  <1>7. \A e \in Drivers \ {d} : pc[e] \in Inside =>
           ledger'[call[e]] = ledger[call[e]] /\ effects'[call[e]] = effects[call[e]]
    BY <1>1, <1>2, <1>6, Holding DEF BookT
  <1>8. pc' = [pc EXCEPT ![d] = "commit"] /\ result' = [result EXCEPT ![d] = result[d]]
    BY TypeParts DEF Effect, GoesTo, IInv, DriversT
  <1>9. "commit" \in Busy /\ (c \in Guarded => approval'[c] = "approved")
    BY <1>1, <1>2 DEF Busy, AskedFor
  <1> QED BY <1>1, <1>2, <1>3, <1>4, <1>5, <1>6, <1>7, <1>8, <1>9, Booked

LEMMA CommitSafe ==
  ASSUME IInv, NEW d \in Drivers, Commit(d)
  PROVE  IInv'
  <1> DEFINE c == call[d]
  <1>1. /\ c \in Calls /\ BookT /\ ledger[c] = "executing"
        /\ pc[d] = "commit" => effects[c] = 1
    BY TypeParts DEF Commit, IInv, DriverOK, Busy
  <1>2. PICK r \in {"success", "failed"} :
          /\ pc[d] = "effect" => r = "failed"
          /\ ledger' = [ledger EXCEPT ![c] = r]
          /\ Answers(d, r)
    BY DEF Commit
  <1>3. UNCHANGED <<approval, effects, row, tail, ck, call, auto, waking, sweep, stopper, rival, mishaps>>
    BY <1>2 DEF Commit, Answers, store, rest
  <1>4. mishaps' \in 0..MaxMishaps
    BY <1>3, TypeParts DEF IInv, SharedT
  <1>5. BookT' /\ BookGrows /\ ledger'[c] = r
    BY <1>1, <1>2, <1>3 DEF BookT, BookGrows
  <1>6. \A x \in Calls : CallOK(x)'
    BY <1>1, <1>2, <1>3 DEF BookT, IInv, CallOK, AskedFor, Commit
  <1>7. \A e \in Drivers \ {d} : pc[e] \in Inside =>
           ledger'[call[e]] = ledger[call[e]] /\ effects'[call[e]] = effects[call[e]]
    BY <1>1, <1>2, <1>3, Holding DEF BookT, Commit, Inside
  <1>8. pc' = [pc EXCEPT ![d] = "answered"] /\ result' = [result EXCEPT ![d] = r]
    BY <1>2 DEF Answers, GoesTo
  <1>9. r \in Outcome /\ "answered" \in Busy /\ "answered" \notin {"begin"} \cup Inside
    BY DEF Busy, Inside, Outcome
  <1> QED BY <1>1, <1>3, <1>4, <1>5, <1>6, <1>7, <1>8, <1>9, Booked

LEMMA CommitFailsSafe ==
  ASSUME IInv, NEW d \in Drivers, CommitFails(d)
  PROVE  IInv'
  <1>1. call[d] \in Calls /\ BookT
    BY TypeParts DEF CommitFails, IInv, DriverOK, Busy
  <1>2. UNCHANGED <<ledger, approval, effects, row, tail, ck, call, auto, waking, sweep, stopper, rival>>
    BY DEF CommitFails, Answers, store, book
  <1>3. mishaps' \in 0..MaxMishaps
    BY TypeParts, RunAssumption DEF CommitFails, IInv, SharedT
  <1>4. BookT' /\ BookGrows /\ \A x \in Calls : CallOK(x)'
    BY <1>1, <1>2 DEF BookT, BookGrows, IInv, CallOK, AskedFor
  <1>5. pc' = [pc EXCEPT ![d] = "answered"] /\ result' = [result EXCEPT ![d] = "failed"]
    BY DEF CommitFails, Answers, GoesTo
  <1>6. "failed" \in Outcome /\ "answered" \in Busy /\ "answered" \notin {"begin"} \cup Inside
    BY DEF Busy, Inside, Outcome
  <1> QED BY <1>1, <1>2, <1>3, <1>4, <1>5, <1>6, Booked

LEMMA RefuseSafe ==
  ASSUME IInv, NEW d \in Drivers, Refuse(d)
  PROVE  IInv'
  <1>1. call[d] \in Calls /\ BookT /\ result[d] \in {"none"} \cup Outcome /\ Known(ck[d])
    BY TypeParts DEF Refuse, IInv, DriverOK, Busy, DriversT
  <1>2. CASE Marked(call[d], "rejected") /\ GoesTo(d, "refused") /\ UNCHANGED <<store, ck, call, result, auto>>
    <2>1. /\ UNCHANGED <<ledger, effects, row, tail, ck, call, auto, waking, sweep, stopper, rival>>
          /\ mishaps' \in 0..MaxMishaps
      BY <1>2, TypeParts DEF Refuse, store, rest, IInv, SharedT
    <2>2. BookT' /\ BookGrows
      BY <1>1, <1>2, <2>1 DEF Marked, BookT, BookGrows
    <2>3. \A c \in Calls : CallOK(c)'
      BY <1>1, <1>2, <2>1 DEF Marked, BookT, IInv, CallOK, AskedFor
    <2>4. pc' = [pc EXCEPT ![d] = "refused"] /\ result' = [result EXCEPT ![d] = result[d]]
      BY <1>2, TypeParts DEF GoesTo, IInv, DriversT
    <2>5. "refused" \in Busy /\ "refused" \notin {"begin"} \cup Inside
      BY DEF Busy, Inside
    <2> QED BY <1>1, <2>1, <2>2, <2>3, <2>4, <2>5, Booked
  <1>3. CASE UNCHANGED approval /\ Save(d, [ck[d] EXCEPT !.st = "failed"], "end")
    <2>1. Known([ck[d] EXCEPT !.st = "failed"])
      BY <1>1 DEF Known, Good, Told, Row, Unanswered, RunStatus
    <2>2. UNCHANGED <<book, rest>>
      BY <1>3 DEF Refuse, book
    <2> QED BY <1>3, <2>1, <2>2, SaveSafe
  <1> QED BY <1>2, <1>3 DEF Refuse

-----------------------------------------------------------------------------
(* Recovery, the user's stop, and the restart of the process.               *)
LEMMA ThrowSafe ==
  ASSUME IInv, NEW d \in Drivers, Throw(d)
  PROVE  IInv'
  <1>1. Out(d)
    BY WaysOut DEF Throw, IInv
  <1>2. UNCHANGED book /\ KnownNext(row') /\ KnownNext(sweep')
    BY KnownStill DEF Throw, store, IInv
  <1>3. SharedT'
    BY TypeParts, RunAssumption DEF Throw, store, IInv, SharedT
  <1> QED BY <1>1, <1>2, <1>3, OutSafe

LEMMA SalvageReadSafe ==
  ASSUME IInv, NEW d \in Drivers, SalvageRead(d)
  PROVE  IInv'
  <1>1. UNCHANGED book /\ KnownNext(row') /\ KnownNext(sweep')
    BY KnownStill DEF SalvageRead, store, rest, IInv
  <1>2. SharedT'
    BY TypeParts DEF SalvageRead, store, rest, IInv, SharedT
  <1>3. CASE row.st \in Active
    <2>1. /\ pc' = [pc EXCEPT ![d] = "salvaging"] /\ ck' = [ck EXCEPT ![d] = row]
          /\ call' = [call EXCEPT ![d] = call[d]] /\ result' = [result EXCEPT ![d] = result[d]]
      BY <1>3, TypeParts DEF SalvageRead, GoesTo, IInv, DriversT
    <2>2. /\ call[d] \in Calls \cup {None} /\ result[d] \in {"none"} \cup Outcome
          /\ auto' \subseteq Drivers /\ Known(row)
      BY <1>3, TypeParts DEF SalvageRead, IInv, DriversT
    <2>3. "salvaging" \in Places \ Inside /\ "salvaging" \notin Busy
      BY DEF Places, Inside, Busy
    <2> QED BY <1>1, <1>2, <2>1, <2>2, <2>3, Goes
  <1>4. CASE row.st \notin Active
    BY <1>1, <1>2, <1>4, WaysOut, OutSafe DEF SalvageRead, IInv
  <1> QED BY <1>3, <1>4

LEMMA SalvageWriteSafe ==
  ASSUME IInv, NEW d \in Drivers, SalvageWrite(d)
  PROVE  IInv'
  <1>1. Known(Salvaged(ck[d])) /\ Salvaged(ck[d]).rec \in BOOLEAN
    BY SalvagedKnown DEF IInv, DriverOK, Known, Good, Row
  <1>2. row' \in {row, Salvaged(ck[d])} /\ waking' \in {waking, waking \/ Salvaged(ck[d]).rec}
    BY DEF SalvageWrite
  <1>3. UNCHANGED <<book, tail, sweep, stopper, rival, mishaps>>
    BY DEF SalvageWrite
  <1>4. KnownNext(row') /\ KnownNext(sweep')
    BY <1>1, <1>2, <1>3, KnownStill DEF IInv
  <1>5. row' \in Row
    BY <1>4 DEF KnownNext, Good
  <1>6. waking' \in BOOLEAN
    BY <1>1, <1>2, TypeParts DEF IInv, SharedT
  <1>7. SharedT'
    BY <1>3, <1>5, <1>6, TypeParts DEF IInv, SharedT
  <1>8. Out(d)
    BY WaysOut DEF SalvageWrite, IInv
  <1> QED BY <1>3, <1>4, <1>7, <1>8, OutSafe

LEMMA SweepSafe ==
  ASSUME IInv, SweepRead \/ SweepWrite
  PROVE  IInv'
  <1>1. UNCHANGED <<drivers, book, tail, stopper, rival, mishaps>>
    BY DEF SweepRead, SweepWrite, store
  <1>2. CASE SweepRead
    <2>1. row' = row /\ sweep' = row /\ waking' = waking
      BY <1>2 DEF SweepRead, store
    <2>2. KnownNext(row') /\ KnownNext(sweep')
      BY <1>1, <2>1, KnownStill DEF IInv
    <2>3. SharedT'
      BY <1>1, <2>1, TypeParts DEF IInv, SharedT
    <2> QED BY <1>1, <2>2, <2>3, Written
  <1>3. CASE SweepWrite
    <2>1. Known(NoRow) /\ Known(Swept(sweep))
      BY NoRowKnown, SweptKnown DEF IInv
    <2>2. /\ sweep' = NoRow /\ row' \in {row, Swept(sweep)}
          /\ waking' = waking \/ waking' = (waking \/ row'.rec)
      BY <1>3 DEF SweepWrite
    <2>3. KnownNext(row') /\ KnownNext(sweep')
      BY <1>1, <2>1, <2>2, KnownStill DEF IInv
    <2>4. row' \in Row /\ sweep' \in Row
      BY <2>3 DEF KnownNext, Good
    <2>5. row'.rec \in BOOLEAN
      BY <2>4 DEF Row
    <2>6. waking' \in BOOLEAN
      BY <2>2, <2>5, TypeParts DEF IInv, SharedT
    <2>7. SharedT'
      BY <1>1, <2>4, <2>6, TypeParts DEF IInv, SharedT
    <2> QED BY <1>1, <2>3, <2>7, Written
  <1> QED BY <1>2, <1>3

LEMMA StopSafe ==
  ASSUME IInv, Stop \/ StopMarks \/ RivalStarts
  PROVE  IInv'
  <1>1. UNCHANGED <<drivers, book, tail, waking, sweep, mishaps>>
    BY DEF Stop, StopMarks, RivalStarts, store
  <1>2. row' \in {row, [row EXCEPT !.stop = TRUE], Cancelled(row)}
    BY DEF Stop, StopMarks, RivalStarts, store
  <1>3. Known(Cancelled(row)) /\ Known([row EXCEPT !.stop = TRUE])
    BY CancelledKnown DEF IInv, Known, Good, Told, Row, Unanswered
  <1>4. KnownNext(row') /\ KnownNext(sweep')
    BY <1>1, <1>2, <1>3, KnownStill DEF IInv
  <1>5. row' \in Row
    BY <1>4 DEF KnownNext, Good
  <1>6. stopper' \in {"idle", "asked", "done"} /\ rival' \in BOOLEAN
    BY TypeParts DEF Stop, StopMarks, RivalStarts, IInv, SharedT
  <1>7. SharedT'
    BY <1>1, <1>5, <1>6, TypeParts DEF IInv, SharedT
  <1> QED BY <1>1, <1>4, <1>7, Written

LEMMA ResumeSafe ==
  ASSUME IInv, NEW d \in Drivers, Resume(d)
  PROVE  IInv'
  <1>1. UNCHANGED <<book, tail, sweep, stopper, rival, mishaps>> /\ waking' = FALSE
    BY DEF Resume
  <1> DEFINE k == [row EXCEPT !.st = "running", !.rec = FALSE]
  <1>2. Known(k) /\ Known(Cancelled(row)) /\ k.st # "completed"
    BY CancelledKnown DEF IInv, Known, Good, Told, Row, Unanswered, RunStatus, Active, Executing
  <1>3. row' \in {row, k, Cancelled(row)}
    BY DEF Resume
  <1>4. KnownNext(row') /\ KnownNext(sweep')
    BY <1>1, <1>2, <1>3, KnownStill DEF IInv
  <1>5. row' \in Row
    BY <1>4 DEF KnownNext, Good
  <1>6. SharedT'
    BY <1>1, <1>5, TypeParts DEF IInv, SharedT
  <1>7. CASE Live
    BY <1>1, <1>4, <1>6, <1>7, Written DEF Resume
  <1>8. CASE ~Live
    <2>1. /\ call' = [call EXCEPT ![d] = call[d]] /\ result' = [result EXCEPT ![d] = result[d]]
          /\ call[d] \in Calls \cup {None} /\ result[d] \in {"none"} \cup Outcome
          /\ auto' \subseteq Drivers
      BY <1>8, TypeParts DEF Resume, IInv, DriversT
    <2>2. CASE row.st = "failed" /\ row.rec /\ ~row.stop
      <3>1. pc' = [pc EXCEPT ![d] = "loop"] /\ ck' = [ck EXCEPT ![d] = k]
        BY <1>8, <2>2 DEF Resume, GoesTo
      <3>2. "loop" \in Places \ Inside /\ "loop" \notin Busy
        BY DEF Places, Inside, Busy
      <3> HIDE DEF k
      <3> QED BY <1>1, <1>2, <1>4, <1>6, <2>1, <3>1, <3>2, Goes
    <2>3. CASE ~(row.st = "failed" /\ row.rec /\ ~row.stop)
      <3>1. pc' = [pc EXCEPT ![d] = "salvage"] /\ ck' = [ck EXCEPT ![d] = ck[d]] /\ Known(ck[d])
        BY <1>8, <2>3, TypeParts DEF Resume, GoesTo, IInv, DriversT, DriverOK
      <3>2. "salvage" \in Places \ Inside /\ "salvage" \notin Busy
        BY DEF Places, Inside, Busy
      <3> QED BY <1>1, <1>4, <1>6, <2>1, <3>1, <3>2, Goes
    <2> QED BY <2>2, <2>3
  <1> QED BY <1>7, <1>8

LEMMA RestartSafe ==
  ASSUME IInv, Restart
  PROVE  IInv'
  <1>1. Known(NoRow) /\ NoRow \in Row
    BY NoRowKnown DEF Known, Good
  <1> DEFINE r == IF row.st \in Active THEN Settled(row) ELSE row
  <1>2. Known(r)
    BY SettledKnown DEF IInv
  <1>3. Known(Cancelled(r))
    <2> HIDE DEF r
    <2> QED BY <1>2, CancelledKnown
  <1>4. row' \in {r, Cancelled(r)} /\ waking' \in BOOLEAN
    BY DEF Restart
  <1>5. UNCHANGED <<book, tail, rival>> /\ sweep' = NoRow
    BY DEF Restart
  <1>6. Known(row')
    <2> HIDE DEF r
    <2> QED BY <1>2, <1>3, <1>4
  <1>7. KnownNext(row') /\ KnownNext(sweep')
    BY <1>1, <1>5, <1>6, KnownStill
  <1>8. SharedT'
    BY <1>1, <1>4, <1>5, <1>7, TypeParts, RunAssumption DEF Restart, IInv, SharedT, KnownNext, Good
  <1>9. /\ pc' = [d \in Drivers |-> "idle"] /\ ck' = [d \in Drivers |-> NoRow]
        /\ call' = [d \in Drivers |-> None] /\ result' = [d \in Drivers |-> "none"] /\ auto' = {}
    BY DEF Restart
  <1>10. TypeOK'
    <2>1. DriversT'
      BY <1>1, <1>9 DEF DriversT, Places
    <2>2. BookT'
      BY <1>5, TypeParts DEF IInv, BookT, book
    <2> QED BY <1>8, <2>1, <2>2, TypeParts, PTL
  <1>11. ASSUME NEW d \in Drivers PROVE DriverOK(d)'
    <2>1. Known(ck[d])'
      BY <1>1, <1>5, <1>9 DEF Known, Told, book
    <2> QED BY <1>9, <2>1 DEF DriverOK, Busy, Inside
  <1>12. Alone' /\ (\A c \in Calls : CallOK(c))'
    BY <1>5, <1>9 DEF Alone, Inside, IInv, CallOK, AskedFor, book
  <1>13. Known(row)' /\ Known(sweep)'
    BY <1>7 DEF Known, KnownNext, Told
  <1> QED BY <1>10, <1>11, <1>12, <1>13 DEF IInv

-----------------------------------------------------------------------------
LEMMA InitSafe == Init => IInv
  <1> SUFFICES ASSUME Init PROVE IInv
    OBVIOUS
  <1>1. NoRow \in Row /\ NoRow.ev \in [Calls -> Evidence]
    BY NoRowKnown DEF Known, Good, Row
  <1>2. SharedT
    <2>1. row \in Row /\ sweep \in Row /\ tail \in [Calls -> Evidence]
      BY <1>1 DEF Init
    <2>2. mishaps \in 0..MaxMishaps
      BY RunAssumption DEF Init
    <2>3. waking \in BOOLEAN /\ rival \in BOOLEAN /\ stopper \in {"idle", "asked", "done"}
      BY DEF Init
    <2> QED BY <2>1, <2>2, <2>3 DEF SharedT
  <1>3. BookT /\ DriversT
    BY <1>1 DEF Init, BookT, DriversT, Places
  <1>4. \A d \in Drivers : DriverOK(d)
    BY NoRowKnown DEF Init, DriverOK, Busy, Inside
  <1> QED BY <1>2, <1>3, <1>4, TypeParts, NoRowKnown DEF Init, IInv, CallOK, Alone, Inside

LEMMA StepSafe == IInv /\ [Next]_vars => IInv'
  <1> SUFFICES ASSUME IInv, [Next]_vars PROVE IInv'
    OBVIOUS
  <1>1. ASSUME NEW d \in Drivers, Request(d) PROVE IInv'
    BY <1>1, RequestSafe
  <1>2. ASSUME NEW d \in Drivers, Work(d) PROVE IInv'
    BY <1>2, HaltsSafe, LoopSafe, ModelSafe, PauseSafe, RecordSafe, RefusedSafe, RefuseSafe,
       DenySafe, AskApprovalSafe, MarkApprovalSafe, BeginSafe, EffectSafe, CommitSafe,
       SalvageReadSafe, SalvageWriteSafe
       DEF Work
  <1>3. ASSUME NEW d \in Drivers, Resume(d) \/ Throw(d) \/ CommitFails(d) PROVE IInv'
    BY <1>3, ResumeSafe, ThrowSafe, CommitFailsSafe
  <1>4. CASE Stop \/ StopMarks \/ RivalStarts \/ SweepRead \/ SweepWrite
    BY <1>4, StopSafe, SweepSafe
  <1>5. CASE Restart
    BY <1>5, RestartSafe
  <1>6. CASE UNCHANGED vars
    <2>1. UNCHANGED <<drivers, book>> /\ UNCHANGED store /\ UNCHANGED rest
      BY <1>6 DEF vars
    <2>2. KnownNext(row') /\ KnownNext(sweep')
      BY <2>1, KnownStill DEF store, rest, IInv
    <2>3. SharedT'
      BY <2>1, TypeParts DEF store, rest, IInv, SharedT
    <2> QED BY <2>1, <2>2, <2>3, Written
  <1> QED BY <1>1, <1>2, <1>3, <1>4, <1>5, <1>6 DEF Next

LEMMA Always == Spec => []IInv
  BY InitSafe, StepSafe, PTL DEF Spec

(* Rows, copies, ledger and approvals keep their types.                     *)
THEOREM RunTypes == Spec => []TypeOK
  <1>1. IInv => TypeOK
    BY DEF IInv
  <1> QED BY <1>1, Always, PTL

(* However often a run is recovered, retried or driven twice, and wherever  *)
(* the process dies: the operation of a call runs at most once              *)
(* (_execute_once).                                                         *)
THEOREM RunsAtMostOnce == Spec => []AtMostOnce
  <1>1. IInv => AtMostOnce
    BY DEF IInv, CallOK, AtMostOnce
  <1> QED BY <1>1, Always, PTL

(* A guarded call that has run is approved, and stays so (_mark_approval).  *)
THEOREM RunsOnlyApproved == Spec => []OnlyApproved
  <1>1. IInv => OnlyApproved
    BY RunAssumption DEF IInv, CallOK, AskedFor, OnlyApproved
  <1> QED BY <1>1, Always, PTL

(* A success in the transcript has happened (_recorded_execution).          *)
THEOREM SuccessHappened == Spec => []SuccessIsTrue
  <1>1. IInv => SuccessIsTrue
    BY DEF IInv, CallOK, Known, Told, SuccessIsTrue
  <1> QED BY <1>1, Always, PTL

(* A completed run has an output for every call of its model                *)
(* (_recover_interrupted_completed_calls, reject).                          *)
THEOREM CompletedIsWhole == Spec => []CompletedAnswersAll
  <1>1. IInv => CompletedAnswersAll
    BY DEF IInv, Known, Good, Unanswered, CompletedAnswersAll
  <1> QED BY <1>1, Always, PTL
=============================================================================
