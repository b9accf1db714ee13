----------------------------- MODULE ImportQueue -----------------------------
(***************************************************************************)
(* The persistent queue of remote project imports                          *)
(* (project_import_service.py and project_import_dispatcher.py): tasks are *)
(* claimed with a lease by the dispatchers, downloaded, scanned and stored *)
(* as a project; their owner may cancel them at any moment.  The project   *)
(* is a visible row while it is imported: its owner may also rename it,    *)
(* give it another status, put files into it or delete it meanwhile        *)
(* (project_service.py, code_file_service.py, project_source_service.py).  *)
(*                                                                         *)
(* A worker asks for its lease in a session of its own and writes in       *)
(* another: between the question and the commit the owner or a recovery    *)
(* may have taken the task away.  These windows are the steps below.       *)
(* All tasks of the model ask for the same project name, the case in which *)
(* they meet; a project is named after the attempt that made it.           *)
(***************************************************************************)
EXTENDS Naturals, FiniteSets

CONSTANTS
  Tasks,         \* import tasks of one owner for one project name
  Audit,         \* those imported as one quarantined archive (audit_mode)
  MaxAttempts,   \* project_import_max_attempts
  Dispatchers,   \* processes that run the dispatcher
  BatchSize,     \* project_import_max_workers
  OwnerMay,      \* what the owner may do to a project
  MaxEdits,      \* bound: changes of projects by the owner, of different kinds
  MaxCrashes     \* bound: crashes of a dispatcher process

ASSUME ImportAssumption ==
  /\ IsFiniteSet(Tasks) /\ Audit \subseteq Tasks
  /\ MaxAttempts \in Nat \ {0} /\ BatchSize \in Nat \ {0}
  /\ OwnerMay \subseteq {"delete", "rename", "status", "files"} /\ MaxCrashes \in Nat /\ MaxEdits \in Nat

VARIABLES
  status,   \* of each task; "new" before it is created
  attempt,  \* attempt_count
  token,    \* the attempt whose lease_token the row holds, or 0
  lapsed,   \* tasks whose lease_expires_at has passed
  backoff,  \* queued tasks whose next_attempt_at is still ahead
  link,     \* project_id of the row, or NoProject
  project,  \* what became of the project each attempt may have made
  files,    \* how often the contents were stored under that project
  renamed,  \* projects that bear another name than the import asked for
  edits,    \* what their owner did to them (for the properties only)
  batch,    \* the workers each dispatcher waits for
  stage,    \* where dispatch_once of each process is
  seen,     \* rows a recovery has read and not yet updated
  step,     \* what each worker does next
  mine,     \* project_id in the session of the worker
  crashes

rowVars == <<status, attempt, token, lapsed, backoff, link>>
ownerVars == <<renamed, edits>>
projectVars == <<project, files, ownerVars>>
procVars == <<batch, stage, seen, crashes>>
workVars == <<step, mine>>
vars == <<rowVars, projectVars, procVars, workVars>>

Worker == Tasks \X (1..MaxAttempts)
NoProject == <<>>
Link == Worker \cup {NoProject}

Leased == {"downloading", "scanning", "ingesting"}
Ended == {"succeeded", "failed", "cancelled"}
Status == {"new", "queued"} \cup Leased \cup Ended
Visible == {"importing", "active", "archived"}
ProjectStatus == {"none", "deleted"} \cup Visible
Edit == {"deleted", "opened", "renamed", "files"}
Step == {"off", "begin", "download", "scan", "make", "made", "ingest", "finish"}

Init ==
  /\ status = [t \in Tasks |-> "new"]
  /\ attempt = [t \in Tasks |-> 0]
  /\ token = [t \in Tasks |-> 0]
  /\ lapsed = {} /\ backoff = {}
  /\ link = [t \in Tasks |-> NoProject]
  /\ project = [w \in Worker |-> "none"]
  /\ files = [w \in Worker |-> 0]
  /\ renamed = {}
  /\ edits = [w \in Worker |-> {}]
  /\ batch = [d \in Dispatchers |-> {}]
  /\ stage = [d \in Dispatchers |-> "sweep"]
  /\ seen = [d \in Dispatchers |-> {}]
  /\ step = [w \in Worker |-> "off"]
  /\ mine = [w \in Worker |-> NoProject]
  /\ crashes = 0

-----------------------------------------------------------------------------
\* A project of that name which the name check finds, or only the unique key.
NameTaken == \E p \in Worker \ renamed : project[p] \in Visible
NameBurnt == \E p \in Worker \ renamed : project[p] = "deleted"

\* The row is leased to this worker (the question every check asks).
HoldsM(w) == TRUE   \* the lease is not asked for
Holds(w) == status[w[1]] \in Leased /\ token[w[1]] = w[2]

\* What a clean-up sees of a project: one that no longer bears the name in the
\* payload is not the task's own.
Sees(p) ==
  IF p = NoProject THEN "none"
  ELSE IF p \in renamed /\ project[p] # "none" THEN "foreign" ELSE project[p]

\* _cleanup_partial_import_project: p is the project_id of the row as the
\* session has read it, state what it saw of that project.
Cleaned(t, p, state) ==
  /\ link' = IF p # NoProject /\ state \in {"none", "importing"}
               THEN [link EXCEPT ![t] = NoProject] ELSE link
  /\ IF p # NoProject /\ state = "importing"
       THEN /\ project' = [project EXCEPT ![p] = "none"]
            /\ files' = [files EXCEPT ![p] = 0]
       ELSE UNCHANGED <<project, files>>
  /\ UNCHANGED ownerVars

CleanedNowM(t) == UNCHANGED <<link, projectVars>>
CleanedNow(t) == Cleaned(t, link[t], Sees(link[t]))

\* A worker returns to its dispatcher.
Leaves(w) ==
  /\ step' = [step EXCEPT ![w] = "off"]
  /\ mine' = [mine EXCEPT ![w] = NoProject]
  /\ batch' = [d \in Dispatchers |-> batch[d] \ {w}]

GoesTo(w, s) == step' = [step EXCEPT ![w] = s] /\ UNCHANGED <<mine, procVars>>

EndsLease(t) == token' = [token EXCEPT ![t] = 0] /\ lapsed' = lapsed \ {t}

-----------------------------------------------------------------------------
\* The owner.
Create(t) ==
  /\ status[t] = "new" /\ ~NameTaken
  /\ status' = [status EXCEPT ![t] = "queued"]
  /\ UNCHANGED <<attempt, token, lapsed, backoff, link, projectVars, procVars, workVars>>

CancellableM == {"queued", "succeeded"} \cup Leased
Cancellable == {"queued"} \cup Leased

Cancel(t) ==
  /\ status[t] \in Cancellable
  /\ status' = [status EXCEPT ![t] = "cancelled"]
  /\ backoff' = backoff \ {t}
  /\ EndsLease(t) /\ CleanedNow(t)
  /\ UNCHANGED <<attempt, procVars, workVars>>

\* What the owner does to a project that he sees.  Its status matters to no one
\* here: a project that is being imported is as visible as an active one.
Noted(p, what) ==
  /\ what \in edits[p] \/ Cardinality({e \in Worker \X Edit : e[2] \in edits[e[1]]}) < MaxEdits
  /\ edits' = [edits EXCEPT ![p] = @ \cup {what}]

DeleteProject(p) ==
  /\ "delete" \in OwnerMay
  /\ project[p] \in Visible
  /\ project' = [project EXCEPT ![p] = "deleted"]
  /\ Noted(p, "deleted") /\ UNCHANGED <<rowVars, files, renamed, procVars, workVars>>

\* update_project reads the project without a lock: one it found visible may be
\* deleted when the status or the name is written.
UpdateStatus(p) ==
  /\ "status" \in OwnerMay /\ project[p] # "none"
  /\ \E s \in {"active", "archived"} \ {project[p]} : project' = [project EXCEPT ![p] = s]
  /\ IF project[p] \in {"importing", "deleted"} THEN Noted(p, "opened") ELSE UNCHANGED edits
  /\ UNCHANGED <<rowVars, files, renamed, procVars, workVars>>

\* To another name, or back if no row has taken it (the unique key).
Rename(p) ==
  /\ "rename" \in OwnerMay /\ project[p] # "none"
  /\ IF p \notin renamed THEN renamed' = renamed \cup {p}
     ELSE ~NameTaken /\ ~NameBurnt /\ renamed' = renamed \ {p}
  /\ Noted(p, "renamed")
  /\ UNCHANGED <<rowVars, project, files, procVars, workVars>>

\* Files of his own, or none; one archive, if the import is one.
EditFiles(p) ==
  /\ "files" \in OwnerMay /\ project[p] \in Visible
  /\ \E n \in {0, 1} : /\ p[1] \in Audit => n = 1 /\ files[p] = 0
                       /\ files' = [files EXCEPT ![p] = n]
  /\ Noted(p, "files")
  /\ UNCHANGED <<rowVars, project, renamed, procVars, workVars>>

-----------------------------------------------------------------------------
\* The dispatcher: recover, claim a batch, wait for all of it.
DueM == {t \in lapsed : status[t] \in {"downloading", "scanning"}}
Due == {t \in lapsed : status[t] \in Leased}

Sweep(d) ==
  /\ stage[d] = "sweep"
  /\ seen' = [seen EXCEPT ![d] =
       {[task |-> t, token |-> token[t], link |-> link[t],
         state |-> Sees(link[t])] : t \in Due}]
  /\ stage' = [stage EXCEPT ![d] = "recover"]
  /\ UNCHANGED <<rowVars, projectVars, batch, crashes, workVars>>

RecoverableM(r) == TRUE   \* updated by id only
Recoverable(r) ==
  /\ status[r.task] \in Leased /\ r.task \in lapsed
  /\ token[r.task] = r.token

Exhausted(t) == attempt[t] >= MaxAttempts

\* One row of recover_expired_leases, which walks over what it has read.  The
\* rows are committed together; they do not depend on each other.
Recover(d) ==
  /\ stage[d] = "recover"
  /\ \E r \in seen[d] :
       /\ seen' = [seen EXCEPT ![d] = @ \ {r}]
       /\ IF Recoverable(r)
            THEN /\ status' = [status EXCEPT ![r.task] =
                                 IF Exhausted(r.task) THEN "failed" ELSE "queued"]
                 /\ EndsLease(r.task)
                 /\ Cleaned(r.task, r.link, r.state)
            ELSE UNCHANGED <<status, token, lapsed, link, projectVars>>
  /\ UNCHANGED <<attempt, backoff, batch, stage, crashes, workVars>>

Recovered(d) ==
  /\ stage[d] = "recover" /\ seen[d] = {}
  /\ stage' = [stage EXCEPT ![d] = "claim"]
  /\ UNCHANGED <<rowVars, projectVars, batch, seen, crashes, workVars>>

Claimable == {t \in Tasks \ backoff : status[t] = "queued"}

Claim(d, t) ==
  /\ stage[d] = "claim" /\ Cardinality(batch[d]) < BatchSize
  /\ t \in Claimable
  /\ LET w == <<t, attempt[t] + 1>>
     IN  /\ attempt' = [attempt EXCEPT ![t] = w[2]]
         /\ token' = [token EXCEPT ![t] = w[2]]
         /\ batch' = [batch EXCEPT ![d] = @ \cup {w}]
         /\ step' = [step EXCEPT ![w] = "begin"]
  /\ status' = [status EXCEPT ![t] = "downloading"]
  /\ UNCHANGED <<lapsed, backoff, link, projectVars, stage, seen, crashes, mine>>

Claimed(d) ==
  /\ stage[d] = "claim"
  /\ Cardinality(batch[d]) = BatchSize \/ Claimable = {}
  /\ stage' = [stage EXCEPT ![d] = "wait"]
  /\ UNCHANGED <<rowVars, projectVars, batch, seen, crashes, workVars>>

Joined(d) ==
  /\ stage[d] = "wait" /\ batch[d] = {}
  /\ stage' = [stage EXCEPT ![d] = "sweep"]
  /\ UNCHANGED <<rowVars, projectVars, batch, seen, crashes, workVars>>

\* The process ends with all its threads and starts again.
Crash(d) ==
  /\ crashes < MaxCrashes
  /\ batch[d] # {} \/ stage[d] # "sweep"
  /\ crashes' = crashes + 1
  /\ step' = [w \in Worker |-> IF w \in batch[d] THEN "off" ELSE step[w]]
  /\ mine' = [w \in Worker |-> IF w \in batch[d] THEN NoProject ELSE mine[w]]
  /\ batch' = [batch EXCEPT ![d] = {}]
  /\ stage' = [stage EXCEPT ![d] = "sweep"]
  /\ seen' = [seen EXCEPT ![d] = {}]
  /\ UNCHANGED <<rowVars, projectVars>>

-----------------------------------------------------------------------------
\* fail_import_task, when any step of the worker raises.
Fails(w, retryable) ==
  LET t == w[1] IN
  /\ Leaves(w) /\ UNCHANGED <<stage, seen, crashes, attempt>>
  /\ IF Holds(w)
       THEN LET again == retryable /\ ~Exhausted(t)
            IN  /\ status' = [status EXCEPT ![t] = IF again THEN "queued" ELSE "failed"]
                /\ backoff' = IF again THEN backoff \cup {t} ELSE backoff
                /\ EndsLease(t) /\ CleanedNow(t)
       ELSE UNCHANGED <<status, token, lapsed, backoff, link, projectVars>>

\* The lease was lost, the network or a scan failed, the right was revoked.
Break(w, retryable) == step[w] # "off" /\ Fails(w, retryable)

Begin(w) ==
  LET p == link[w[1]] IN
  /\ step[w] = "begin" /\ Holds(w)
  /\ IF p = NoProject
       THEN /\ step' = [step EXCEPT ![w] = "download"]
            /\ UNCHANGED <<rowVars, projectVars, procVars, mine>>
       ELSE IF project[p] \in {"none", "deleted"}
         THEN Fails(w, FALSE)
         ELSE /\ step' = [step EXCEPT ![w] = IF files[p] > 0 THEN "finish" ELSE "download"]
              /\ mine' = [mine EXCEPT ![w] = p]
              /\ UNCHANGED <<rowVars, projectVars, procVars>>

\* The download is complete; touch_import_task finds the lease.
Download(w) ==
  /\ step[w] = "download" /\ Holds(w)
  /\ status' = [status EXCEPT ![w[1]] = "scanning"]
  /\ lapsed' = lapsed \ {w[1]}
  /\ GoesTo(w, "scan")
  /\ UNCHANGED <<attempt, token, backoff, link, projectVars>>

\* The archive is accepted; lease checked, stage stored, lease checked again.
Scan(w) ==
  /\ step[w] = "scan" /\ Holds(w)
  /\ status' = [status EXCEPT ![w[1]] = "ingesting"]
  /\ lapsed' = lapsed \ {w[1]}
  /\ GoesTo(w, IF mine[w] = NoProject THEN "make" ELSE "made")
  /\ UNCHANGED <<attempt, token, backoff, link, projectVars>>

\* The project is committed with project_id of the row, whoever has it now.
Make(w) ==
  /\ step[w] = "make"
  /\ IF NameTaken \/ NameBurnt
       THEN Fails(w, ~NameTaken)   \* ConflictError, or the unique key: SQLAlchemyError
       ELSE /\ project' = [project EXCEPT ![w] = "importing"]
            /\ link' = [link EXCEPT ![w[1]] = w]
            /\ mine' = [mine EXCEPT ![w] = w]
            /\ step' = [step EXCEPT ![w] = "made"]
            /\ UNCHANGED <<status, attempt, token, lapsed, backoff, files, ownerVars, procVars>>

\* Lease checked; contents stored by an earlier attempt are recognised.
MadeM(w) ==    \* an empty project counts as stored
  /\ step[w] = "made" /\ Holds(w)
  /\ GoesTo(w, "finish")
  /\ UNCHANGED <<rowVars, projectVars>>
Made(w) ==
  /\ step[w] = "made" /\ Holds(w)
  /\ GoesTo(w, IF files[mine[w]] > 0 THEN "finish" ELSE "ingest")
  /\ UNCHANGED <<rowVars, projectVars>>

\* The contents are committed; only the audit archive locks its project.
Ingest(w) ==
  LET p == mine[w] IN
  /\ step[w] = "ingest"
  /\ IF w[1] \in Audit /\ (project[p] \in {"none", "deleted"} \/ files[p] > 0)
       THEN Fails(w, FALSE)
       ELSE /\ files' = [files EXCEPT ![p] = IF @ < 2 THEN @ + 1 ELSE @]
            /\ GoesTo(w, "finish")
            /\ UNCHANGED <<rowVars, project, ownerVars>>

\* complete_import_task, under the lock of the row.
Finish(w) ==
  LET t == w[1]  p == link[t] IN
  /\ step[w] = "finish" /\ Holds(w)
  /\ status' = [status EXCEPT ![t] = "succeeded"]
  /\ project' = IF p # NoProject /\ project[p] = "importing"
                  THEN [project EXCEPT ![p] = "active"] ELSE project
  /\ EndsLease(t) /\ Leaves(w)
  /\ UNCHANGED <<attempt, backoff, link, files, ownerVars, stage, seen, crashes>>

\* The heartbeat thread of the worker.
Heartbeat(w) ==
  /\ step[w] # "off" /\ Holds(w) /\ w[1] \in lapsed
  /\ lapsed' = lapsed \ {w[1]}
  /\ UNCHANGED <<status, attempt, token, backoff, link, projectVars, procVars, workVars>>

-----------------------------------------------------------------------------
\* The clock.
LeaseLapses(t) ==
  /\ status[t] \in Leased /\ t \notin lapsed
  /\ lapsed' = lapsed \cup {t}
  /\ UNCHANGED <<status, attempt, token, backoff, link, projectVars, procVars, workVars>>

DelayEnds(t) ==
  /\ t \in backoff /\ backoff' = backoff \ {t}
  /\ UNCHANGED <<status, attempt, token, lapsed, link, projectVars, procVars, workVars>>

WorkerStep(w) ==
  \/ Begin(w) \/ Download(w) \/ Scan(w) \/ Make(w) \/ Made(w) \/ Ingest(w) \/ Finish(w)
  \/ \E retryable \in BOOLEAN : Break(w, retryable)

Dispatch(d) ==
  \/ Sweep(d) \/ Recover(d) \/ Recovered(d) \/ Claimed(d) \/ Joined(d)
  \/ \E t \in Tasks : Claim(d, t)

Next ==
  \/ \E t \in Tasks : Create(t) \/ Cancel(t) \/ LeaseLapses(t) \/ DelayEnds(t)
  \/ \E w \in Worker : WorkerStep(w) \/ Heartbeat(w)
  \/ \E p \in Worker : DeleteProject(p) \/ UpdateStatus(p) \/ Rename(p) \/ EditFiles(p)
  \/ \E d \in Dispatchers : Dispatch(d) \/ Crash(d)

Spec == Init /\ [][Next]_vars
=============================================================================
