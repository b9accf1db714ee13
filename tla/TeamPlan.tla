------------------------------ MODULE TeamPlan ------------------------------
(***************************************************************************)
(* How _create_team judges the work graph of a new team: the plan is first *)
(* completed (_normalize_verification_graph), then its shape is checked,   *)
(* its tasks are put in an order (_topological_order, Kahn's algorithm),   *)
(* the ancestors of each task are collected along that order               *)
(* (_has_parallel_worker_tasks), and the last checks decide.  What passes  *)
(* here is the graph that module TeamGraph assumes.                        *)
(*                                                                         *)
(* A plan gives its tasks to members; of a member only the role matters.   *)
(* Accounts, permissions, task inputs and the queue limit are left out.    *)
(*                                                                         *)
(* A definition whose name ends in M is a mistake that the code could have *)
(* in place of the definition after it; no other definition uses it.       *)
(***************************************************************************)
EXTENDS Naturals, Sequences, SequencesExt, FiniteSets

CONSTANTS Keys,    \* the task keys a plan may use, in the order of its list: a
                   \* plan that uses one of them twice is always refused
          AutoKey \* the key of the summary that the service adds

ASSUME PlanAssumption ==
  /\ Keys \in Seq(STRING) /\ IsInjective(Keys)
  /\ AutoKey \in STRING \ ToSet(Keys)

Roles        == {"worker", "verifier", "summarizer"}
Verification == {"verifier", "summarizer"}

VARIABLES
  rows,      \* the task keys of the plan, in order
  hired,     \* the roles of its members
  full,      \* it has as many members as a plan may have
  role,      \* the role of the member of each task
  deps,      \* depends_on
  limit,     \* effective_max_active_children
  verdict,   \* why it was refused, or "accepted"; "open" before
  phase,     \* the step of _create_team that comes next
  queue, indegree, ordered,   \* the variables of _topological_order
  ancestors                   \* the one of _has_parallel_worker_tasks

payload == <<hired, full, limit>>
graph   == <<rows, role, deps>>
sorting == <<queue, indegree, ordered>>
pvars   == <<payload, graph, sorting, ancestors, verdict, phase>>

Tasks       == ToSet(rows)
Workers     == {t \in Tasks : role[t] = "worker"}
Children(t) == {c \in Tasks : t \in deps[c]}
LeavesM     == {t \in Tasks : deps[t] = {}}   \* the roots
Leaves      == {t \in Tasks : Children(t) = {}}

\* The tasks of S in the order of the plan.
Place(t)   == CHOOSE i \in 1..Len(rows) : rows[i] = t
InOrder(S) ==
  CHOOSE q \in [1..Cardinality(S) -> S] :
    \A i, j \in 1..Cardinality(S) : i < j => Place(q[i]) < Place(q[j])

\* Whatever the request schema lets through; depends_on may name missing tasks.
Init ==
  /\ rows \in {SubSeq(Keys, 1, n) : n \in 1..Len(Keys)}
  /\ hired \in SUBSET Roles \ {{}}
  /\ full \in IF hired = {"worker"} THEN BOOLEAN ELSE {FALSE}
  /\ role \in [Tasks -> hired]
  /\ deps \in [Tasks -> SUBSET ToSet(Keys)]
  /\ limit \in {1, 2}
  /\ verdict = "open" /\ phase = "normalize"
  /\ queue = <<>> /\ indegree = <<>> /\ ordered = <<>> /\ ancestors = <<>>

\* The plan is refused with a reason, or the next step follows.
Judge(reason, refused, next) ==
  IF refused THEN verdict' = reason /\ phase' = "end"
  ELSE verdict' = verdict /\ phase' = next

\* Extend a function to one more argument.
With(f, x, y) == [z \in DOMAIN f \cup {x} |-> IF z = x THEN y ELSE f[z]]

Verifiers == {t \in Tasks : role[t] \in Verification}

\* A plan without a verifying task gets a summary of all its leaves; its member
\* is hired for it if need be.
AddSummary ==
  /\ phase = "normalize" /\ Verifiers = {}
  /\ Judge("too_many_members", hired \cap Verification = {} /\ full, "shape")
  /\ IF verdict' # "open" THEN UNCHANGED <<graph, hired>>
     ELSE /\ rows' = Append(rows, AutoKey)
          /\ hired' = IF hired \cap Verification = {} THEN hired \cup {"summarizer"} ELSE hired
          /\ \E r \in hired' \cap Verification : role' = With(role, AutoKey, r)
          /\ deps' = With(deps, AutoKey, Leaves)
  /\ UNCHANGED <<full, limit, sorting, ancestors>>

\* Otherwise its last verifying task takes in every worker's leaf.
CoverLeaves ==
  /\ phase = "normalize" /\ Verifiers # {}
  /\ deps' = [deps EXCEPT ![Last(InOrder(Verifiers))] = @ \cup (Leaves \cap Workers)]
  /\ phase' = "shape"
  /\ UNCHANGED <<payload, rows, role, verdict, sorting, ancestors>>

\* A plan with several faults is refused for one of them.
CheckShape ==
  /\ phase = "shape"
  /\ LET start == [t \in Tasks |-> Cardinality(deps[t])]
     IN  /\ indegree' = start
         /\ queue' = InOrder({t \in Tasks : start[t] = 0})
  /\ IF Workers = {} THEN Judge("no_worker", TRUE, "end")
     ELSE IF ~(UNION {deps[t] : t \in Tasks} \subseteq Tasks) THEN Judge("missing_dependency", TRUE, "end")
     ELSE Judge("cycle", \E t \in Tasks : t \in deps[t], "sort")
  /\ UNCHANGED <<payload, graph, ordered, ancestors>>

\* A child is queued one parent too late.
SortNextM ==
  /\ phase = "sort" /\ queue # <<>>
  /\ LET t == Head(queue)
     IN  /\ ordered' = Append(ordered, t)
         /\ indegree' = [c \in Tasks |-> IF c \in Children(t) THEN indegree[c] - 1 ELSE indegree[c]]
         /\ queue' = Tail(queue) \o InOrder({c \in Children(t) : indegree[c] = 0})
  /\ UNCHANGED <<payload, graph, ancestors, verdict, phase>>

\* One turn of the while loop of _topological_order.
SortNext ==
  /\ phase = "sort" /\ queue # <<>>
  /\ LET t == Head(queue)
     IN  /\ ordered' = Append(ordered, t)
         /\ indegree' = [c \in Tasks |-> IF c \in Children(t) THEN indegree[c] - 1 ELSE indegree[c]]
         /\ queue' = Tail(queue) \o InOrder({c \in Children(t) : indegree[c] = 1})
  /\ UNCHANGED <<payload, graph, ancestors, verdict, phase>>

SortEnd ==
  /\ phase = "sort" /\ queue = <<>>
  /\ Judge("cycle", Len(ordered) # Len(rows), "trace")
  /\ UNCHANGED <<payload, graph, sorting, ancestors>>

\* Only the direct dependencies are collected.
TraceM ==
  /\ phase = "trace" /\ Cardinality(DOMAIN ancestors) < Len(ordered)
  /\ LET t == ordered[Cardinality(DOMAIN ancestors) + 1]
     IN  ancestors' = With(ancestors, t, deps[t])
  /\ UNCHANGED <<payload, graph, sorting, verdict, phase>>

\* One turn of the first loop of _has_parallel_worker_tasks.
Trace ==
  /\ phase = "trace" /\ Cardinality(DOMAIN ancestors) < Len(ordered)
  /\ LET t == ordered[Cardinality(DOMAIN ancestors) + 1]
     IN  ancestors' = With(ancestors, t, deps[t] \cup UNION {ancestors[d] : d \in deps[t]})
  /\ UNCHANGED <<payload, graph, sorting, verdict, phase>>

Parallel == \E t, u \in Workers : t # u /\ t \notin ancestors[u] /\ u \notin ancestors[t]

\* The checks that follow the order, up to _validate_verification_coverage.
Decide ==
  /\ phase = "trace" /\ Cardinality(DOMAIN ancestors) = Len(ordered)
  /\ verdict' = IF Parallel /\ limit < 2 THEN "limit_too_low"
                ELSE IF Verifiers = {} THEN "no_verification"
                ELSE IF Leaves \cap Workers # {} THEN "uncovered"
                ELSE "accepted"
  /\ phase' = "end"
  /\ UNCHANGED <<payload, graph, sorting, ancestors>>

Next == AddSummary \/ CoverLeaves \/ CheckShape \/ SortNext \/ SortEnd \/ Trace \/ Decide

Spec == Init /\ [][Next]_pvars

-----------------------------------------------------------------------------
(* The tasks can be numbered so that each waits for lower numbers only.    *)
Acyclic ==
  \E rank \in [Tasks -> 1..Cardinality(Tasks)] :
    \A t \in Tasks : \A d \in deps[t] : rank[d] < rank[t]

(* Every task of S waits for another task of S.                            *)
Knot(S) == S # {} /\ \A t \in S : deps[t] \cap S # {}

(* The tasks that wait for t, directly or not.                             *)
Waiting(t) ==
  {u \in Tasks : \A S \in SUBSET Tasks :
     Children(t) \cup UNION {Children(s) : s \in S} \subseteq S => u \in S}

(* An accepted graph has what TeamGraph assumes: work to do, a task that    *)
(* verifies, no task waiting for itself through others or for a missing    *)
(* one, and no worker whose result nobody takes.                           *)
AcceptedIsGraph ==
  verdict = "accepted" =>
    /\ Workers # {}
    /\ \E t \in Tasks : role[t] \in Verification
    /\ \A t \in Tasks : deps[t] \subseteq Tasks
    /\ Acyclic
    /\ \A w \in Workers : Children(w) # {}

(* A graph is refused as cyclic only when some of its tasks wait for each   *)
(* other; the order of Kahn's algorithm leaves nobody out.                 *)
CycleIsReal == verdict = "cycle" => \E S \in SUBSET Tasks : Knot(S)

(* In an accepted plan the result of each worker reaches a verifier or      *)
(* summarizer, by however many other tasks.                                *)
EveryResultReachesVerification ==
  verdict = "accepted" =>
    \A w \in Workers : \E v \in Waiting(w) : role[v] \in Verification

(* With one task at a time allowed, a plan is accepted only if its workers  *)
(* form a chain; it is refused for that only if two could run together.    *)
LimitIsFair ==
  LET free == \E t, u \in Workers : t # u /\ u \notin Waiting(t) /\ t \notin Waiting(u)
  IN  /\ verdict = "accepted" /\ limit < 2 => ~free
      /\ verdict = "limit_too_low" => free
=============================================================================
