----------------------------- MODULE TaskBoard -----------------------------
(***************************************************************************)
(* What an agent team is to somebody who only watches its tasks: a board   *)
(* that offers tasks, lends each of them to one attempt at a time, at most *)
(* Limit of them at once, and takes them off when they ended.  A closed    *)
(* board offers and lends nothing.  It opens again only for a new round,   *)
(* which puts some of the tasks back on offer; a board that was called off *)
(* stays closed.                                                           *)
(*                                                                         *)
(* Module AgentTeam implements this board (see AgentTeamBoard).            *)
(***************************************************************************)
EXTENDS Naturals, FiniteSets

CONSTANTS Tasks, Limit

VARIABLES board,   \* "open", "closed" or "off" (closed for good)
          round,   \* how often the board was opened again
          work,    \* [Tasks -> "offered", "lent" or "done"]
          loans    \* how often each task was lent

bvars == <<board, round, work, loans>>

Lent == {t \in Tasks : work[t] = "lent"}

\* Tasks leave the board, other than back from "done".
OnlyEnds(except) ==
  \A t \in Tasks \ except : work'[t] = work[t] \/ work'[t] = "done"

\* A board closes when no task is left on it.
MayClose ==
  \/ board' = board
  \/ board' \in {"closed", "off"} /\ \A t \in Tasks : work'[t] = "done"

Init ==
  /\ board = "open" /\ round = 0
  /\ work = [t \in Tasks |-> "offered"]
  /\ loans = [t \in Tasks |-> 0]

\* An attempt takes a task; tasks that can never be done leave the board.
Lend(t) ==
  /\ board = "open" /\ board' = "open"
  /\ work[t] = "offered" /\ Cardinality(Lent) < Limit
  /\ work' \in [Tasks -> {"offered", "lent", "done"}]
  /\ work'[t] = "lent" /\ OnlyEnds({t})
  /\ loans' = [loans EXCEPT ![t] = @ + 1]
  /\ UNCHANGED round

\* An attempt gives its task back: done, or to be offered again.
GiveBack(t) ==
  /\ board = "open" /\ MayClose
  /\ work[t] = "lent"
  /\ work' \in [Tasks -> {"offered", "lent", "done"}]
  /\ work'[t] \in {"offered", "done"} /\ OnlyEnds({t})
  /\ UNCHANGED <<round, loans>>

\* Tasks are taken off, lent or not; this may close the board.
TakeOff ==
  /\ board = "open" /\ MayClose
  /\ work' \in [Tasks -> {"offered", "lent", "done"}]
  /\ OnlyEnds({})
  /\ UNCHANGED <<round, loans>>

\* A new round: tasks that were done are offered again.
Reopen ==
  /\ board # "off" /\ board' = "open"
  /\ round' = round + 1
  /\ work' \in [Tasks -> {"offered", "lent", "done"}]
  /\ \A t \in Tasks : work'[t] = work[t] \/ (work[t] = "done" /\ work'[t] = "offered")
  /\ UNCHANGED loans

Next == (\E t \in Tasks : Lend(t) \/ GiveBack(t)) \/ TakeOff \/ Reopen

Spec == Init /\ [][Next]_bvars
=============================================================================
