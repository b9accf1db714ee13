-------------------------- MODULE TeamLoopsProofs --------------------------
(***************************************************************************)
(* Proofs about the loops over the task rows: for every work graph, every  *)
(* order of the rows and all statuses from which a loop may start, what    *)
(* the loop has done when a pass changes nothing is what TeamGraph defines *)
(* as a least fixpoint.                                                    *)
(*                                                                         *)
(* Each loop keeps to the fixpoint: what it did so far is part of it.  And *)
(* a row that the current pass has gone by cannot be changed any more as   *)
(* long as the pass changes nothing; so when it ends, the result is closed *)
(* under the rule, and nothing of the fixpoint is missing.                 *)
(***************************************************************************)
EXTENDS TeamLoops, TeamGraphProofs, FiniteSetTheorems

LoopTypes ==
  /\ loop \in {"promote", "stop", "retry"}
  /\ order \in Orders
  /\ start \in [Tasks -> TaskStatus] /\ st \in [Tasks -> TaskStatus]
  /\ named \in SUBSET Tasks /\ chosen \in SUBSET Tasks
  /\ at \in Nat \ {0} /\ grew \in BOOLEAN

-----------------------------------------------------------------------------
(* What a loop may do to a row.                                            *)

MayPromote(s, t) ==
  /\ s[t] = "waiting_dependency"
  /\ \/ /\ t \notin Summarizers
        /\ \E d \in CountedDeps(s, t) : s[d] \in TerminalTask \ {"completed"}
     \/ /\ \A d \in CountedDeps(s, t) : s[d] \in TerminalTask
        /\ t \in Summarizers \/ \A d \in CountedDeps(s, t) : s[d] = "completed"

MayChange(t) ==
  \/ loop = "promote" /\ MayPromote(st, t)
  \/ loop = "stop" /\ t \notin chosen /\ t \in CascadeGrow(st, chosen)
  \/ loop = "retry" /\ t \notin chosen /\ t \in RetryGrow(st, why, chosen)

\* A pass that has changed nothing cannot change a row that it has visited.
PassDone == ~grew => \A i \in 1..LastRow : i < at => ~MayChange(order[i])

\* A row was promoted as it belongs to the final promotion.
InPromotion(t) ==
  \/ st[t] = start[t]
  \/ start[t] = "waiting_dependency" /\ st[t] = "blocked" /\ t \in Doomed(start)
  \/ start[t] = "waiting_dependency" /\ st[t] = "queued" /\ t \in Ready(start, Doomed(start))

KeepsToFixpoint ==
  /\ loop = "promote" => \A t \in Tasks : InPromotion(t)
  /\ loop # "promote" => st = start
  /\ loop = "stop" => named \subseteq chosen /\ chosen \subseteq Cascade(start, named)
  /\ loop = "retry" => /\ RetryRoots(start, named) \subseteq chosen
                       /\ chosen \subseteq RetryRows(start, why, named)

LInv == LoopTypes /\ PassDone /\ KeepsToFixpoint

(* The rows of a query are the tasks of the team, each of them somewhere.   *)
LEMMA RowsAreTasks ==
  ASSUME NEW o \in Orders
  PROVE  /\ Len(o) \in Nat /\ o \in [1..Len(o) -> Tasks]
         /\ \A t \in Tasks : \E i \in 1..Len(o) : o[i] = t
<1> DEFINE n == Cardinality(Tasks)
<1>1. n \in Nat
  BY GraphAssumption, FS_CardinalityType
<1>2. o \in [1..n -> Tasks] /\ {o[i] : i \in 1..n} = Tasks
  BY LoopAssumption
<1>3. Len(o) = n
  BY <1>1, <1>2
<1>4. QED
  BY <1>1, <1>2, <1>3

LEMMA LoopInit ==
  ASSUME Init
  PROVE  LInv
<1>1. start \in [Tasks -> TaskStatus]
  BY DEF Init, Started
<1>2. named \in SUBSET Tasks
  BY DEF Init
<1>3. chosen \in SUBSET Tasks
  BY <1>2 DEF Init, RetryRoots, Failures, InStatus
<1>4. LoopTypes
  <2>1. loop \in {"promote", "stop", "retry"} /\ order \in Orders /\ st = start
        /\ at = 1 /\ grew = FALSE
    BY DEF Init
  <2>2. at \in Nat \ {0}
    BY <2>1
  <2>3. QED
    BY <1>1, <1>2, <1>3, <2>1, <2>2, Zenon DEF LoopTypes
<1>5. PassDone
  <2>1. LastRow \in Nat /\ at = 1
    BY <1>4, RowsAreTasks DEF LoopTypes, LastRow, Init
  <2>2. QED
    BY <2>1 DEF PassDone
<1>6. KeepsToFixpoint
  <2>1. loop = "stop" => named = chosen
    BY DEF Init
  <2>2. named \subseteq Cascade(start, named)
    BY <1>2, StopTargetsLeast
  <2>3. RetryRoots(start, named) \subseteq RetryRows(start, why, named)
    BY RetryRowsLeast
  <2>4. QED
    BY <2>1, <2>2, <2>3 DEF Init, KeepsToFixpoint, InPromotion
<1>7. QED
  BY <1>4, <1>5, <1>6 DEF LInv
(* A visited row that was left alone could not be changed.                  *)
LEMMA RowVisited ==
  ASSUME LInv, at <= LastRow,
         NEW ch, ~ch => ~MayChange(Row),
         ch \/ UNCHANGED <<st, chosen, grew>>, ch => grew' = TRUE,
         at' = at + 1, UNCHANGED <<loop, order, start, why, named>>
  PROVE  PassDone'
<1>1. CASE ch
  BY <1>1 DEF PassDone
<1>2. CASE ~ch
  <2>1. \A i \in 1..LastRow : MayChange(order[i])' = MayChange(order[i])
    BY <1>2 DEF MayChange
  <2>2. LastRow \in Nat /\ LastRow' = LastRow /\ at \in Nat
    BY RowsAreTasks DEF LastRow, LInv, LoopTypes
  <2>3. ~grew => \A i \in 1..LastRow : i < at + 1 => ~MayChange(order[i])
    BY <1>2, <2>2 DEF Row, LInv, PassDone
  <2>4. QED
    BY <1>2, <2>1, <2>2, <2>3 DEF PassDone
<1>3. QED
  BY <1>1, <1>2

(* Of the rows that a promotion looks at, those that the user stopped are   *)
(* the same all along, and so are the dependencies that count.             *)
LEMMA CountedDepsFixed ==
  ASSUME LInv, loop = "promote", NEW t \in Tasks
  PROVE  CountedDeps(st, t) = CountedDeps(start, t) /\ CountedDeps(st, t) \subseteq Tasks
<1>1. \A d \in Tasks : st[d] = "stopped" <=> start[d] = "stopped"
  BY DEF LInv, KeepsToFixpoint, InPromotion
<1>2. Deps[t] \subseteq Tasks
  BY GraphAssumption
<1>3. QED
  BY <1>1, <1>2 DEF CountedDeps

LEMMA PromotedRow ==
  ASSUME LInv, loop = "promote", NEW t \in Tasks, MayPromote(st, t)
  PROVE  IF t \notin Summarizers /\ \E d \in CountedDeps(st, t) : st[d] \in TerminalTask \ {"completed"}
         THEN t \in Doomed(start) ELSE t \in Ready(start, Doomed(start))
<1> DEFINE deps == CountedDeps(start, t)
<1>1. CountedDeps(st, t) = deps /\ deps \subseteq Tasks
  BY CountedDepsFixed
<1>2. start[t] = "waiting_dependency"
  BY DEF LInv, KeepsToFixpoint, InPromotion, MayPromote
<1>3. \A d \in deps : \/ st[d] = start[d]
                      \/ st[d] = "blocked" /\ d \in Doomed(start)
                      \/ st[d] = "queued"
  BY <1>1 DEF LInv, KeepsToFixpoint, InPromotion
<1> HIDE DEF deps
<1>4. CASE t \notin Summarizers /\ \E d \in deps : st[d] \in TerminalTask \ {"completed"}
  <2>1. PICK d \in deps : st[d] \in TerminalTask \ {"completed"}
    BY <1>4
  <2>2. t \in WaitingWork(start)
    BY <1>2, <1>4 DEF WaitingWork
  <2>3. start[d] \in TerminalTask \ {"completed"} \/ d \in Doomed(start)
    BY <1>3, <2>1 DEF TerminalTask
  <2>4. t \in DoomSeed(start) \cup DoomGrow(start, Doomed(start))
    BY <2>2, <2>3 DEF DoomSeed, DoomGrow, deps
  <2>5. QED
    BY <1>1, <1>4, <2>4, DoomedLeast
<1>5. CASE ~ (t \notin Summarizers /\ \E d \in deps : st[d] \in TerminalTask \ {"completed"})
  <2>1. /\ \A d \in deps : st[d] \in TerminalTask
        /\ t \in Summarizers \/ \A d \in deps : st[d] = "completed"
    BY <1>1, <1>5 DEF MayPromote
  <2>2. \A d \in deps : \/ start[d] = "completed"
                        \/ t \in Summarizers /\ (start[d] \in TerminalTask \/ d \in Doomed(start))
    BY <1>3, <2>1 DEF TerminalTask
  <2>3. t \notin Doomed(start)
    <3>1. CASE t \in Summarizers
      BY <3>1, DoomedLeast DEF WaitingWork
    <3>2. CASE t \notin Summarizers
      BY <2>2, <3>2, DeliveredNotDoomed DEF deps
    <3>3. QED
      BY <3>1, <3>2
  <2>4. t \in Ready(start, Doomed(start))
    BY <1>2, <2>2, <2>3 DEF Ready, Summarizers, deps
  <2>5. QED
    BY <1>1, <1>5, <2>4
<1>6. QED
  BY <1>4, <1>5

LEMMA RowType ==
  ASSUME LInv, at <= LastRow
  PROVE  Row \in Tasks /\ at + 1 \in Nat \ {0}
  BY RowsAreTasks DEF LInv, LoopTypes, LastRow, Row

LEMMA PromoteStep ==
  ASSUME LInv, Promote
  PROVE  LInv'
<1> DEFINE deps == CountedDeps(st, Row)
           dead == Row \notin Summarizers /\ \E d \in deps : st[d] \in TerminalTask \ {"completed"}
           ch   == MayPromote(st, Row)
<1>1. Row \in Tasks /\ at + 1 \in Nat \ {0} /\ at <= LastRow /\ loop = "promote"
  BY RowType DEF Promote
<1>2. /\ ch => st' = [st EXCEPT ![Row] = IF dead THEN "blocked" ELSE "queued"] /\ grew' = TRUE
      /\ ~ch => UNCHANGED <<st, grew>>
  BY <1>1 DEF Promote, MayPromote, Eligible, Summarizers
<1>3. at' = at + 1 /\ UNCHANGED <<loop, order, start, why, named, chosen>>
  BY DEF Promote
<1>4. ch => IF dead THEN Row \in Doomed(start) ELSE Row \in Ready(start, Doomed(start))
  BY <1>1, PromotedRow
<1>5. ch => start[Row] = "waiting_dependency"
  BY <1>1 DEF MayPromote, LInv, KeepsToFixpoint, InPromotion
<1>6. ~ch => ~MayChange(Row)
  BY <1>1 DEF MayChange
<1> HIDE DEF ch, dead
<1>7. LoopTypes'
  <2>1. st' \in [Tasks -> TaskStatus]
    BY <1>1, <1>2 DEF LInv, LoopTypes, TaskStatus
  <2>2. grew' \in BOOLEAN
    BY <1>2 DEF LInv, LoopTypes
  <2>3. QED
    BY <1>1, <1>3, <2>1, <2>2 DEF LInv, LoopTypes
<1>8. PassDone'
  BY <1>1, <1>2, <1>3, <1>6, RowVisited
<1>9. KeepsToFixpoint'
  <2>1. ASSUME NEW t \in Tasks
        PROVE  InPromotion(t)'
    <3>1. CASE ch /\ t = Row
      <4>1. st'[t] = IF dead THEN "blocked" ELSE "queued"
        BY <1>1, <1>2, <3>1 DEF LInv, LoopTypes
      <4>2. QED
        BY <1>3, <1>4, <1>5, <3>1, <4>1 DEF InPromotion
    <3>2. CASE ~ (ch /\ t = Row)
      <4>1. st'[t] = st[t]
        BY <1>1, <1>2, <3>2 DEF LInv, LoopTypes
      <4>2. InPromotion(t)
        BY <1>1 DEF LInv, KeepsToFixpoint
      <4>3. QED
        BY <1>3, <4>1, <4>2 DEF InPromotion
    <3>3. QED
      BY <3>1, <3>2
  <2>2. QED
    BY <1>1, <1>3, <2>1 DEF KeepsToFixpoint
<1>10. QED
  BY <1>7, <1>8, <1>9 DEF LInv

LEMMA TargetStep ==
  ASSUME LInv, Target
  PROVE  LInv'
<1> DEFINE ch == Row \notin chosen /\ Row \in CascadeGrow(st, chosen)
<1>1. Row \in Tasks /\ at + 1 \in Nat \ {0} /\ at <= LastRow /\ loop = "stop"
  BY RowType DEF Target
<1>2. /\ ch => chosen' = chosen \cup {Row} /\ grew' = TRUE
      /\ ~ch => UNCHANGED <<chosen, grew>>
  BY <1>1 DEF Target, CascadeGrow, Summarizers
<1>3. at' = at + 1 /\ UNCHANGED <<loop, order, start, why, named, st>>
  BY DEF Target
<1>4. ~ch => ~MayChange(Row)
  BY <1>1 DEF MayChange
<1>5. st = start /\ named \subseteq chosen /\ chosen \subseteq Cascade(start, named)
  BY <1>1 DEF LInv, KeepsToFixpoint
<1>6. ch => Row \in Cascade(start, named)
  BY <1>5, StopTargetsLeast DEF LInv, LoopTypes
<1> HIDE DEF ch
<1>7. LoopTypes'
  BY <1>1, <1>2, <1>3 DEF LInv, LoopTypes
<1>8. PassDone'
  BY <1>1, <1>2, <1>3, <1>4, RowVisited
<1>9. KeepsToFixpoint'
  BY <1>1, <1>2, <1>3, <1>5, <1>6 DEF KeepsToFixpoint
<1>10. QED
  BY <1>7, <1>8, <1>9 DEF LInv

LEMMA SelectStep ==
  ASSUME LInv, Select
  PROVE  LInv'
<1> DEFINE ch == Row \notin chosen /\ Row \in RetryGrow(st, why, chosen)
<1>1. Row \in Tasks /\ at + 1 \in Nat \ {0} /\ at <= LastRow /\ loop = "retry"
  BY RowType DEF Select
<1>2. /\ ch => chosen' = chosen \cup {Row} /\ grew' = TRUE
      /\ ~ch => UNCHANGED <<chosen, grew>>
  BY <1>1 DEF Select, RetryGrow
<1>3. at' = at + 1 /\ UNCHANGED <<loop, order, start, why, named, st>>
  BY DEF Select
<1>4. ~ch => ~MayChange(Row)
  BY <1>1 DEF MayChange
<1>5. st = start /\ RetryRoots(start, named) \subseteq chosen
      /\ chosen \subseteq RetryRows(start, why, named)
  BY <1>1 DEF LInv, KeepsToFixpoint
<1>6. ch => Row \in RetryRows(start, why, named)
  BY <1>5, RetryRowsLeast
<1> HIDE DEF ch
<1>7. LoopTypes'
  BY <1>1, <1>2, <1>3 DEF LInv, LoopTypes
<1>8. PassDone'
  BY <1>1, <1>2, <1>3, <1>4, RowVisited
<1>9. KeepsToFixpoint'
  BY <1>1, <1>2, <1>3, <1>5, <1>6 DEF KeepsToFixpoint
<1>10. QED
  BY <1>7, <1>8, <1>9 DEF LInv

LEMMA LoopStep ==
  ASSUME LInv, [Next]_lvars
  PROVE  LInv'
<1>1. CASE NextPass
  <2>1. LoopTypes' /\ KeepsToFixpoint'
    <3>1. at' = 1 /\ grew' = FALSE /\ UNCHANGED <<loop, order, start, why, named, st, chosen>>
      BY <1>1 DEF NextPass
    <3>2. at' \in Nat \ {0}
      BY <3>1
    <3>3. LoopTypes'
      BY <3>1, <3>2, Zenon DEF LInv, LoopTypes
    <3>4. KeepsToFixpoint'
      BY <3>1 DEF LInv, KeepsToFixpoint, InPromotion
    <3>5. QED
      BY <3>3, <3>4
  <2>2. PassDone'
    <3>1. LastRow' \in Nat
      BY <2>1, RowsAreTasks DEF LoopTypes, LastRow
    <3>2. QED
      BY <1>1, <3>1 DEF NextPass, PassDone
  <2>3. QED
    BY <2>1, <2>2 DEF LInv
<1>2. CASE UNCHANGED lvars
  BY <1>2 DEF lvars, LInv, LoopTypes, KeepsToFixpoint, InPromotion, PassDone, MayChange, LastRow
<1>3. QED
  BY <1>1, <1>2, PromoteStep, TargetStep, SelectStep DEF Next

-----------------------------------------------------------------------------
(* The end of the loops.                                                   *)

LEMMA NothingLeft ==
  ASSUME LInv, Ended
  PROVE  \A t \in Tasks : ~MayChange(t)
<1>1. LastRow \in Nat /\ \A t \in Tasks : \E i \in 1..LastRow : order[i] = t
  BY RowsAreTasks DEF LInv, LoopTypes, LastRow
<1>2. \A i \in 1..LastRow : ~MayChange(order[i])
  BY <1>1 DEF LInv, LoopTypes, PassDone, Ended
<1>3. QED
  BY <1>1, <1>2

LEMMA PromotionEnd ==
  ASSUME LInv
  PROVE  PromotionIsLeast
<1> SUFFICES ASSUME loop = "promote", Ended
             PROVE  st = Promoted(start)
  BY DEF PromotionIsLeast
<1> DEFINE D == Doomed(start)
           S == {t \in WaitingWork(start) : st[t] = "blocked"}
<1>1. \A t \in Tasks : ~MayPromote(st, t)
  BY NothingLeft DEF MayChange
<1>2. \A t \in Tasks : InPromotion(t)
  BY DEF LInv, KeepsToFixpoint
<1>3. \A t \in Tasks : CountedDeps(st, t) = CountedDeps(start, t) /\ CountedDeps(st, t) \subseteq Tasks
  BY CountedDepsFixed
<1>4. \A d \in Tasks : start[d] \in TerminalTask => st[d] = start[d]
  BY <1>2 DEF InPromotion, TerminalTask
<1>5. DoomSeed(start) \cup DoomGrow(start, S) \subseteq S
  <2>1. ASSUME NEW t \in WaitingWork(start),
               \E d \in CountedDeps(start, t) : start[d] \in TerminalTask \ {"completed"} \/ d \in S
        PROVE  t \in S
    <3>1. t \in Tasks \ Summarizers /\ start[t] = "waiting_dependency"
      BY DEF WaitingWork
    <3>2. PICK d \in CountedDeps(start, t) : start[d] \in TerminalTask \ {"completed"} \/ d \in S
      BY <2>1
    <3>3. d \in Tasks /\ d \in CountedDeps(st, t)
      BY <1>3, <3>1, <3>2
    <3>4. st[d] \in TerminalTask \ {"completed"}
      BY <1>4, <3>2, <3>3 DEF TerminalTask
    <3>5. st[t] # "waiting_dependency"
      BY <1>1, <3>1, <3>3, <3>4 DEF MayPromote
    <3>6. start[d] # "completed"
      BY <3>2 DEF WaitingWork
    <3>7. t \notin Ready(start, D)
      BY <3>1, <3>2, <3>6 DEF Ready, Summarizers
    <3>8. st[t] = "blocked"
      BY <1>2, <3>1, <3>5, <3>7 DEF InPromotion
    <3>9. QED
      BY <3>8
  <2>2. QED
    BY <2>1 DEF DoomSeed, DoomGrow
<1>6. D \subseteq S
  <2>1. S \in SUBSET Tasks
    BY DEF WaitingWork
  <2>2. QED
    BY <1>5, <2>1, DoomedLeast
<1>7. \A t \in Ready(start, D) : st[t] = "queued"
  <2> SUFFICES ASSUME NEW t \in Ready(start, D)
               PROVE  st[t] = "queued"
    OBVIOUS
  <2>1. t \in Tasks \ D /\ start[t] = "waiting_dependency"
    BY DEF Ready
  <2>2. \A d \in CountedDeps(st, t) :
          st[d] \in TerminalTask /\ (t \in Summarizers \/ st[d] = "completed")
    <3>1. TAKE d \in CountedDeps(st, t)
    <3>2. d \in Tasks /\ d \in CountedDeps(start, t)
      BY <1>3, <2>1, <3>1
    <3>3. \/ start[d] = "completed"
          \/ t \in Summarizers /\ (start[d] \in TerminalTask \/ d \in D)
      BY <3>2 DEF Ready, Summarizers
    <3>4. QED
      BY <1>4, <1>6, <3>2, <3>3 DEF TerminalTask
  <2>3. st[t] # "waiting_dependency"
    BY <1>1, <2>1, <2>2 DEF MayPromote
  <2>4. QED
    BY <1>2, <2>1, <2>3 DEF InPromotion
<1>8. \A t \in Tasks : st[t] = IF t \in D THEN "blocked"
                               ELSE IF t \in Ready(start, D) THEN "queued" ELSE start[t]
  BY <1>2, <1>6, <1>7 DEF InPromotion
<1>9. QED
  BY <1>8 DEF Promoted, LInv, LoopTypes

LEMMA CascadeEnd ==
  ASSUME LInv, loop = "stop", Ended
  PROVE  {t \in chosen : st[t] \in Unfinished} = StopTargets(start, named)
<1>1. /\ st = start /\ named \in SUBSET Tasks /\ chosen \in SUBSET Tasks
      /\ named \subseteq chosen /\ chosen \subseteq Cascade(start, named)
  BY DEF LInv, LoopTypes, KeepsToFixpoint
<1>2. CascadeGrow(start, chosen) \subseteq chosen
  BY <1>1, NothingLeft DEF MayChange, CascadeGrow
<1>3. chosen = Cascade(start, named)
  BY <1>1, <1>2, StopTargetsLeast
<1>4. QED
  BY <1>1, <1>3, StopTargetsLeast

LEMMA SelectionEnd ==
  ASSUME LInv, loop = "retry", Ended
  PROVE  chosen = RetryRows(start, why, named)
<1>1. /\ st = start /\ chosen \in SUBSET Tasks
      /\ RetryRoots(start, named) \subseteq chosen /\ chosen \subseteq RetryRows(start, why, named)
  BY DEF LInv, LoopTypes, KeepsToFixpoint
<1>2. RetryGrow(start, why, chosen) \subseteq chosen
  BY <1>1, NothingLeft DEF MayChange, RetryGrow
<1>3. QED
  BY <1>1, <1>2, RetryRowsLeast

(* The invariant of the loops of _promote_dependencies, cancel_team_tasks   *)
(* and _select_retry_tasks: each keeps to its fixpoint, and a pass that has *)
(* changed nothing has left nothing to change behind it.                   *)
THEOREM LoopInvariant == Spec => []LInv
<1>1. Init => LInv
  BY LoopInit
<1>2. LInv /\ [Next]_lvars => LInv'
  BY LoopStep
<1>3. QED
  BY <1>1, <1>2, PTL DEF Spec

(* For every graph, order of the rows and statuses: when the loop of        *)
(* _promote_dependencies ends, the rows are as Promoted gives them.        *)
THEOREM PromotionLeast == Spec => []PromotionIsLeast
  BY LoopInvariant, PromotionEnd, PTL

(* The same for the tasks that cancel_team_tasks stops, and for those that  *)
(* _select_retry_tasks starts again.                                       *)
THEOREM ChosenLeast == Spec => []ChosenIsLeast
<1>1. LInv => ChosenIsLeast
  BY CascadeEnd, SelectionEnd DEF ChosenIsLeast
<1>2. QED
  BY <1>1, LoopInvariant, PTL
=============================================================================
