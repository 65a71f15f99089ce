--------------------------- MODULE Imports_proofs ---------------------------
(***************************************************************************)
(* Proofs about Imports, for every number of uploads, requests, workers,   *)
(* jobs, retries and faults and for every set of operations.               *)
(***************************************************************************)
EXTENDS Imports, TLAPS

(* The inductive invariant: what a process knows about its import and its  *)
(* job, and what the queue knows about its jobs, between any two awaits.   *)

\* The calls awaited before the process has an entity in memory.
NoEntity == {"idle", "check", "insert", "claim", "load"}

ProcOK(p) ==
    /\ At(p, "idle") => proc[p].ent = NoRow
    /\ ~At(p, "idle") => proc[p].imp \in Imports
    /\ proc[p].pc \notin NoEntity => proc[p].ent \in Row
    /\ proc[p].pc \in {"attach", "reload", "withdraw"} =>
         proc[p].job \in Jobs /\ jobs[proc[p].job].imp = proc[p].imp
    /\ proc[p].ent.job # None => jobs[proc[p].ent.job].imp = proc[p].imp
    /\ proc[p].ent.status \in DoneStatuses \/ At(p, "rowErrors") => commits[proc[p].imp] > 0

JobsOK ==
    \A j \in Jobs :
        /\ jobs[j].state = "free" => jobs[j].imp = None
        /\ jobs[j].state \in {"waiting", "active"} => jobs[j].imp \in Imports

IInv ==
    /\ TypeOK
    /\ \A p \in Procs : ProcOK(p)
    /\ JobsOK
    /\ JobIsOwn
    /\ CompletedHasRows

\* The variables that only have a type.
RestTyped ==
    /\ fresh' \subseteq Imports /\ files' \subseteq Imports
    /\ batch' \subseteq Imports /\ sweeping' \in Imports \cup {None}
    /\ retries' \in Nat /\ faults' \in Nat

\* Jobs stay with their imports and COPY transactions stay committed.
Monotone ==
    /\ jobs' \in [Jobs -> Job]
    /\ \A j \in Jobs : jobs[j].imp # None => jobs'[j].imp = jobs[j].imp
    /\ commits' \in [Imports -> Nat]
    /\ \A i \in Imports : commits'[i] >= commits[i]

\* A step of p alone leaves p, the queue and the commits in a good state.
Settled(p) ==
    /\ Monotone
    /\ JobsOK'
    /\ proc' = [proc EXCEPT ![p] = proc'[p]]
    /\ proc'[p] \in Process
    /\ ProcOK(p)'

CommitsGrow ==
    /\ commits' \in [Imports -> Nat]
    /\ \A i \in Imports : commits'[i] >= commits[i]

USE ConstantsAssumption DEF At, Exists, Cleaner, Bounds, NoEntity

-----------------------------------------------------------------------------
(* A step of a process that leaves the rows alone keeps the invariant when *)
(* the process itself is left in a good state.                             *)

\* A process that does not move stays in a good state: jobs and commits only grow.
LEMMA OthersKeep ==
    ASSUME IInv, Monotone, NEW q \in Procs, proc'[q] = proc[q]
    PROVE  ProcOK(q)'
<1>1. /\ proc[q].imp \in Imports \cup {None}
      /\ proc[q].job \in Jobs \cup {None}
      /\ proc[q].ent.job \in Jobs \cup {None}
      /\ jobs \in [Jobs -> Job]
      /\ commits \in [Imports -> Nat]
  BY DEF IInv, TypeOK, Process, Row, NoRow
<1>2. ProcOK(q)
  BY DEF IInv
<1>3. proc[q].ent.status \in DoneStatuses \/ At(q, "rowErrors") => proc[q].imp \in Imports
  BY <1>2 DEF ProcOK, NoRow, DoneStatuses
<1>4. ~At(q, "idle") \/ proc[q].ent # NoRow => proc[q].imp \in Imports
  BY <1>2 DEF ProcOK
<1>5. proc[q].ent.job # None => jobs'[proc[q].ent.job].imp = proc[q].imp
  BY <1>1, <1>2, <1>4 DEF ProcOK, Monotone, NoRow
<1>6. proc[q].pc \in {"attach", "reload", "withdraw"} => jobs'[proc[q].job].imp = proc[q].imp
  BY <1>1, <1>2, <1>4 DEF ProcOK, Monotone
<1>7. proc[q].ent.status \in DoneStatuses \/ At(q, "rowErrors") => commits'[proc[q].imp] > 0
  BY <1>1, <1>2, <1>3 DEF ProcOK, Monotone
<1> QED
  BY <1>2, <1>5, <1>6, <1>7 DEF ProcOK

\* A step of p keeps the invariant when it leaves p settled and writes to the
\* rows only jobs of their own and statuses that the commits allow.
LEMMA ProcKeeps ==
    ASSUME IInv, RestTyped, NEW p \in Procs, Settled(p),
           rows' \in [Imports -> Row \cup {NoRow}],
           \A i \in Imports : \/ rows'[i].job \in {rows[i].job, None}
                              \/ rows'[i].job \in Jobs /\ jobs'[rows'[i].job].imp = i,
           \A i \in Imports : rows'[i].status \in DoneStatuses =>
                                rows[i].status \in DoneStatuses \/ commits'[i] > 0
    PROVE  IInv'
<1> USE DEF Settled
<1>1. TypeOK'
  BY DEF IInv, TypeOK, Monotone, RestTyped
<1>2. ASSUME NEW q \in Procs PROVE ProcOK(q)'
  <2>1. CASE q # p
    <3>1. proc'[q] = proc[q]
      BY <2>1 DEF IInv, TypeOK
    <3> QED
      BY <3>1, OthersKeep
  <2> QED
    BY <2>1
<1>3. JobIsOwn'
  <2> SUFFICES ASSUME NEW i \in Imports, rows'[i].job # None
               PROVE  jobs'[rows'[i].job].imp = i
    BY DEF JobIsOwn
  <2>1. CASE rows'[i].job = rows[i].job
    <3>1. rows[i].job \in Jobs
      BY <2>1 DEF IInv, TypeOK, Row, NoRow
    <3> QED
      BY <2>1, <3>1 DEF IInv, JobIsOwn, Monotone
  <2> QED
    BY <2>1
<1>4. CompletedHasRows'
  BY DEF IInv, CompletedHasRows, Monotone, TypeOK
<1> QED
  BY <1>1, <1>2, <1>3, <1>4 DEF IInv
-----------------------------------------------------------------------------
(* The ways in which the code after an await ends.                         *)

\* An entity that takes a status is a row again.
LEMMA EntityStatus ==
    ASSUME NEW e \in Row \cup {NoRow}, NEW s \in Status
    PROVE  /\ [e EXCEPT !.status = s] \in Row
           /\ [e EXCEPT !.status = s].job = e.job
           /\ [e EXCEPT !.status = s].status = s
<1>1. CASE e \in Row
  BY <1>1 DEF Row
<1>2. CASE e = NoRow
  BY <1>2 DEF Row, NoRow
<1> QED
  BY <1>1, <1>2

\* A process that goes on to its next call is settled, given what that call expects.
LEMMA GotoKeeps ==
    ASSUME IInv, CommitsGrow, NEW p \in Procs, NEW call \in Calls \ {"idle"}, Goto(p, call), ~At(p, "idle"),
           call \in NoEntity \/ proc[p].pc \notin NoEntity,
           call \in {"attach", "reload", "withdraw"} => proc[p].pc \in {"attach", "reload", "withdraw"},
           call = "rowErrors" => commits'[proc[p].imp] > 0
    PROVE  Settled(p)
<1>1. /\ proc[p] \in Process
      /\ proc'[p] = [proc[p] EXCEPT !.pc = call]
      /\ proc' = [proc EXCEPT ![p] = proc'[p]]
  BY DEF IInv, TypeOK, Goto
<1>2. /\ proc'[p] \in Process
      /\ proc'[p].pc = call /\ proc'[p].imp = proc[p].imp
      /\ proc'[p].job = proc[p].job /\ proc'[p].ent = proc[p].ent
      /\ proc[p].imp \in Imports
  BY <1>1 DEF Process, IInv, ProcOK
<1>3. Monotone /\ JobsOK'
  BY DEF IInv, TypeOK, Goto, Monotone, CommitsGrow, JobsOK
<1>4. proc[p].ent.status \in DoneStatuses => commits'[proc[p].imp] > 0
  BY <1>2 DEF IInv, TypeOK, ProcOK, CommitsGrow
<1>5. ProcOK(p)'
  BY <1>2, <1>4 DEF ProcOK, IInv, Goto
<1> QED
  BY <1>1, <1>2, <1>3, <1>5 DEF Settled

\* A process that is about to save a status is settled; a done status needs a commit.
LEMMA SaveStatusKeeps ==
    ASSUME IInv, CommitsGrow, NEW p \in Procs, NEW s \in Status, SaveStatus(p, s), ~At(p, "idle"),
           s \in DoneStatuses => commits'[proc[p].imp] > 0
    PROVE  Settled(p)
<1>1. /\ proc[p] \in Process
      /\ proc' = [proc EXCEPT ![p] = proc'[p]]
      /\ proc'[p] = [proc[p] EXCEPT !.pc = "save", !.ent = [proc[p].ent EXCEPT !.status = s]]
  BY DEF IInv, TypeOK, SaveStatus
<1>2. PICK e \in Row : /\ e.job = proc[p].ent.job /\ e.status = s
                      /\ proc'[p] = [proc[p] EXCEPT !.pc = "save", !.ent = e]
  <2>1. proc[p].ent \in Row \cup {NoRow}
    BY <1>1 DEF Process
  <2> QED
    BY <1>1, <2>1, EntityStatus
<1>3. /\ proc'[p] \in Process
      /\ proc'[p].pc = "save" /\ proc'[p].imp = proc[p].imp
      /\ proc'[p].ent \in Row
      /\ proc'[p].ent.job = proc[p].ent.job /\ proc'[p].ent.status = s
      /\ proc[p].imp \in Imports
  <2>1. "save" \in Calls
    BY DEF Calls
  <2>2. proc[p].imp \in Imports
    BY DEF IInv, ProcOK
  <2>3. PICK m \in Process : /\ m.imp = proc[p].imp
                            /\ proc'[p] = [m EXCEPT !.pc = "save", !.ent = e]
    BY <1>1, <1>2
  <2>4. /\ proc'[p] \in Process
        /\ proc'[p].pc = "save" /\ proc'[p].imp = proc[p].imp
        /\ proc'[p].ent = e
    BY <2>1, <2>3 DEF Process
  <2> QED
    BY <1>2, <2>2, <2>4
<1>4. Monotone /\ JobsOK'
  BY DEF IInv, TypeOK, SaveStatus, Monotone, CommitsGrow, JobsOK
<1>5. ProcOK(p)'
  BY <1>3 DEF ProcOK, IInv, SaveStatus
<1> QED
  BY <1>1, <1>3, <1>4, <1>5 DEF Settled

\* An idle process is in a good state.
LEMMA IdleIsFine ==
    ASSUME NEW p \in Procs, proc'[p] = Idle
    PROVE  proc'[p] \in Process /\ ProcOK(p)'
BY DEF Idle, Process, Calls, ProcOK, NoRow, DoneStatuses

\* A job that ends keeps its import.
LEMMA JobEnds ==
    ASSUME NEW m \in Job, NEW n, n = m \/ n = [m EXCEPT !.state = "done"]
    PROVE  n \in Job /\ n.imp = m.imp /\ n.state \in {m.state, "done"}
BY DEF Job

\* A handler that ends, and with it the job of a worker, leaves the queue in order.
LEMMA FinishJobs ==
    ASSUME IInv, NEW p \in Procs, Finish(p)
    PROVE  /\ proc' = [proc EXCEPT ![p] = proc'[p]] /\ proc'[p] = Idle
           /\ jobs' \in [Jobs -> Job]
           /\ \A j \in Jobs : jobs'[j].imp = jobs[j].imp
           /\ JobsOK'
<1>1. proc' = [proc EXCEPT ![p] = proc'[p]] /\ proc'[p] = Idle
  BY DEF Finish, IInv, TypeOK
<1>2. jobs \in [Jobs -> Job]
  BY DEF IInv, TypeOK
<1>3. ASSUME NEW j \in Jobs
      PROVE  jobs'[j] = jobs[j] \/ jobs'[j] = [jobs[j] EXCEPT !.state = "done"]
  <2>1. CASE p \in Workers
    <3>1. jobs' = [jobs EXCEPT ![proc[p].job].state = "done"]
      BY <2>1 DEF Finish
    <3>2. CASE j = proc[p].job
      BY <1>2, <3>1, <3>2
    <3>3. CASE j # proc[p].job
      BY <1>2, <3>1, <3>3
    <3> QED
      BY <3>2, <3>3
  <2>2. CASE p \notin Workers
    BY <2>2 DEF Finish
  <2> QED
    BY <2>1, <2>2
<1>4. jobs' \in [Jobs -> Job]
  <2>1. jobs' = [j \in Jobs |-> jobs'[j]]
    BY <1>2 DEF Finish
  <2>2. \A j \in Jobs : jobs'[j] \in Job
    BY <1>2, <1>3, JobEnds
  <2> QED
    BY <2>1, <2>2
<1>5. \A j \in Jobs : jobs'[j].imp = jobs[j].imp /\ jobs'[j].state \in {jobs[j].state, "done"}
  BY <1>2, <1>3, JobEnds
<1> QED
  BY <1>1, <1>4, <1>5 DEF JobsOK, IInv

\* A handler that returns or throws is settled.
LEMMA FinishKeeps ==
    ASSUME IInv, CommitsGrow, NEW p \in Procs, Finish(p)
    PROVE  Settled(p)
<1>1. Monotone
  BY FinishJobs DEF Monotone, CommitsGrow
<1> QED
  BY <1>1, FinishJobs, IdleIsFine DEF Settled

\* ImportsService.fail leaves its process settled, saving FAILED or giving up.
LEMMA FailKeeps ==
    ASSUME IInv, CommitsGrow, NEW p \in Procs, Fail(p), ~At(p, "idle")
    PROVE  Settled(p)
<1>1. SaveStatus(p, "FAILED") \/ Finish(p)
  BY DEF Fail
<1>2. "FAILED" \in Status /\ "FAILED" \notin DoneStatuses
  BY DEF Status, DoneStatuses
<1> QED
  BY <1>1, <1>2, SaveStatusKeeps, FinishKeeps

\* ImportsService.transition leaves its process settled.
LEMMA TransitionKeeps ==
    ASSUME IInv, CommitsGrow, NEW p \in Procs, NEW s \in Status, Transition(p, s), ~At(p, "idle"),
           s \in DoneStatuses => commits'[proc[p].imp] > 0
    PROVE  Settled(p)
BY SaveStatusKeeps, FailKeeps DEF Transition
-----------------------------------------------------------------------------
(* The actions.                                                            *)

\* A step that leaves the rows alone and settles p.
LEMMA RowsUntouched ==
    ASSUME IInv, RestTyped, UNCHANGED rows, NEW p \in Procs, Settled(p)
    PROVE  IInv'
<1>1. /\ rows' \in [Imports -> Row \cup {NoRow}]
      /\ \A i \in Imports : rows'[i] = rows[i]
  BY DEF IInv, TypeOK
<1> QED
  BY <1>1, ProcKeeps

\* The variables a step leaves alone keep their types.
LEMMA Unchanged ==
    ASSUME IInv
    PROVE  /\ UNCHANGED commits => CommitsGrow
           /\ UNCHANGED <<fresh, files, batch, sweeping, retries, faults>> => RestTyped
           /\ UNCHANGED <<fresh, batch, sweeping, retries, faults>> /\ files' \subseteq files => RestTyped
           /\ UNCHANGED <<fresh, files, batch, sweeping, retries>> /\ Fault => RestTyped
BY DEF IInv, TypeOK, CommitsGrow, RestTyped, Fault

\* What the statuses and the done statuses contain.
LEMMA StatusNames ==
    /\ {"UPLOADED", "VALIDATING", "QUEUED", "PROCESSING", "COMPLETED",
        "PARTIALLY_COMPLETED", "FAILED", "CANCELLED"} \subseteq Status
    /\ DoneStatuses \cap {"UPLOADED", "VALIDATING", "QUEUED", "PROCESSING", "FAILED", "CANCELLED"} = {}
BY DEF Status, DoneStatuses

\* The steps that end in the synchronous code above and write no row.
LEMMA QuietSteps ==
    ASSUME IInv, NEW p \in Procs,
           \/ Check(p) \/ UploadAudit(p) \/ SaveRefused(p) \/ Prepare(p) \/ PrepareThrows(p)
           \/ CopyThrows(p) \/ SaveRowErrors(p) \/ CountJobs(p) \/ QueuedAudit(p)
           \/ FileExists(p) \/ DeleteFile(p)
    PROVE  IInv'
<1> USE Unchanged, StatusNames
<1>1. CASE Check(p)
  BY <1>1, GotoKeeps, FinishKeeps, RowsUntouched DEF Check, Calls
<1>2. CASE UploadAudit(p)
  BY <1>2, TransitionKeeps, RowsUntouched DEF UploadAudit
<1>3. CASE SaveRefused(p)
  BY <1>3, FailKeeps, RowsUntouched DEF SaveRefused
<1>4. CASE Prepare(p)
  BY <1>4, GotoKeeps, TransitionKeeps, RowsUntouched DEF Prepare, Calls
<1>5. CASE PrepareThrows(p)
  BY <1>5, FailKeeps, RowsUntouched DEF PrepareThrows
<1>6. CASE CopyThrows(p)
  BY <1>6, FailKeeps, RowsUntouched DEF CopyThrows
<1>7. CASE SaveRowErrors(p)
  BY <1>7, TransitionKeeps, FailKeeps, RowsUntouched DEF SaveRowErrors, IInv, ProcOK
<1>8. CASE CountJobs(p)
  BY <1>8, FailKeeps, GotoKeeps, RowsUntouched DEF CountJobs, Calls
<1>9. CASE QueuedAudit(p)
  BY <1>9, FinishKeeps, RowsUntouched DEF QueuedAudit
<1>10. CASE FileExists(p)
  BY <1>10, GotoKeeps, FinishKeeps, RowsUntouched DEF FileExists, Calls
<1>11. CASE DeleteFile(p)
  BY <1>11, GotoKeeps, RowsUntouched DEF DeleteFile, Calls
<1> QED
  BY <1>1, <1>2, <1>3, <1>4, <1>5, <1>6, <1>7, <1>8, <1>9, <1>10, <1>11

\* A step of p alone that leaves the queue and the commits as they are.
LEMMA QueueUntouched ==
    ASSUME IInv, NEW p \in Procs, UNCHANGED <<jobs, commits>>,
           proc' = [proc EXCEPT ![p] = proc'[p]], proc'[p] \in Process, ProcOK(p)'
    PROVE  Settled(p)
BY DEF Settled, Monotone, JobsOK, IInv, TypeOK

\* The arrival of an upload keeps the invariant.
LEMMA BeginCreateKeeps ==
    ASSUME IInv, NEW p \in Procs, BeginCreate(p)
    PROVE  IInv'
<1>1. PICK i \in Imports :
        /\ fresh' = fresh \ {i} /\ files' = files \cup {i}
        /\ proc' = [proc EXCEPT ![p] = [Idle EXCEPT !.pc = "check", !.op = "create", !.imp = i]]
  BY DEF BeginCreate, IInv, TypeOK
<1>2. /\ proc' = [proc EXCEPT ![p] = proc'[p]]
      /\ proc'[p] = [Idle EXCEPT !.pc = "check", !.op = "create", !.imp = i]
  BY <1>1 DEF IInv, TypeOK
<1>3. /\ proc'[p] \in Process
      /\ proc'[p].pc = "check" /\ proc'[p].imp = i /\ proc'[p].ent = NoRow
  BY <1>2 DEF Idle, Process, Calls
<1>4. ProcOK(p)'
  BY <1>3 DEF ProcOK, NoRow, DoneStatuses
<1>5. Settled(p)
  BY <1>2, <1>3, <1>4, QueueUntouched DEF BeginCreate
<1>6. RestTyped
  BY <1>1 DEF BeginCreate, RestTyped, IInv, TypeOK
<1> QED
  BY <1>5, <1>6, RowsUntouched DEF BeginCreate

\* One row is written; the others are left alone.
LEMMA OneRow ==
    ASSUME IInv, NEW i \in Imports, NEW r \in Row \cup {NoRow}, rows' = [rows EXCEPT ![i] = r]
    PROVE  /\ rows' \in [Imports -> Row \cup {NoRow}]
           /\ rows'[i] = r
           /\ \A k \in Imports \ {i} : rows'[k] = rows[k]
BY DEF IInv, TypeOK

\* What a step may write to the row of one import.
LEMMA WriteKeeps ==
    ASSUME IInv, RestTyped, NEW p \in Procs, Settled(p),
           NEW i \in Imports, NEW r \in Row \cup {NoRow}, rows' = [rows EXCEPT ![i] = r],
           r.job # None => r.job \in Jobs /\ (r.job = rows[i].job \/ jobs'[r.job].imp = i),
           r.status \in DoneStatuses => rows[i].status \in DoneStatuses \/ commits'[i] > 0
    PROVE  IInv'
<1>1. /\ rows' \in [Imports -> Row \cup {NoRow}]
      /\ rows'[i] = r
      /\ \A k \in Imports \ {i} : rows'[k] = rows[k]
  BY OneRow
<1>2. ASSUME NEW k \in Imports
      PROVE  \/ rows'[k].job \in {rows[k].job, None}
             \/ rows'[k].job \in Jobs /\ jobs'[rows'[k].job].imp = k
  <2>1. CASE k = i
    BY <1>1, <2>1
  <2>2. CASE k # i
    BY <1>1, <2>2
  <2> QED
    BY <2>1, <2>2
<1>3. \A k \in Imports : rows'[k].status \in DoneStatuses =>
                           rows[k].status \in DoneStatuses \/ commits'[k] > 0
  BY <1>1
<1> QED
  BY <1>1, <1>2, <1>3, ProcKeeps

\* Inserting the row of an upload keeps the invariant.
LEMMA InsertKeeps ==
    ASSUME IInv, NEW p \in Procs, Insert(p)
    PROVE  IInv'
<1> DEFINE new == [status |-> "UPLOADED", job |-> None, fileDeleted |-> FALSE]
<1>1. new \in Row /\ new.job = None /\ new.status = "UPLOADED"
  BY DEF Row, Status
<1>2. proc[p] \in Process /\ proc[p].imp \in Imports
  BY DEF Insert, IInv, TypeOK, ProcOK
<1>3. /\ rows' = [rows EXCEPT ![proc[p].imp] = new]
      /\ proc' = [proc EXCEPT ![p] = proc'[p]]
      /\ proc'[p] = [proc[p] EXCEPT !.pc = "uploadAudit", !.ent = new]
  BY DEF Insert, IInv, TypeOK
<1> HIDE DEF new
<1>4. /\ proc'[p] \in Process
      /\ proc'[p].pc = "uploadAudit" /\ proc'[p].imp = proc[p].imp /\ proc'[p].ent = new
  <2>1. "uploadAudit" \in Calls
    BY DEF Calls
  <2>2. PICK m \in Process : /\ m.imp = proc[p].imp
                            /\ proc'[p] = [m EXCEPT !.pc = "uploadAudit", !.ent = new]
    BY <1>2, <1>3
  <2> QED
    BY <1>1, <2>1, <2>2 DEF Process
<1>5. ProcOK(p)'
  BY <1>1, <1>2, <1>4 DEF ProcOK, DoneStatuses
<1>6. Settled(p)
  BY <1>3, <1>4, <1>5, QueueUntouched DEF Insert
<1>7. RestTyped
  BY Unchanged DEF Insert
<1> QED
  BY <1>1, <1>2, <1>3, <1>6, <1>7, WriteKeeps, StatusNames

\* What a process holds between two awaits.
LEMMA Held ==
    ASSUME IInv, NEW p \in Procs, ~At(p, "idle")
    PROVE  /\ proc[p] \in Process
           /\ proc[p].imp \in Imports
           /\ proc[p].ent \in Row \cup {NoRow}
           /\ proc[p].pc \notin NoEntity => proc[p].ent \in Row
           /\ proc[p].ent.job \in Jobs \cup {None}
           /\ rows[proc[p].imp] \in Row \cup {NoRow}
           /\ rows[proc[p].imp].job \in Jobs \cup {None}
           /\ rows[proc[p].imp].job # None => jobs[rows[proc[p].imp].job].imp = proc[p].imp
           /\ rows[proc[p].imp].status \in DoneStatuses => commits[proc[p].imp] > 0
BY DEF IInv, TypeOK, ProcOK, Process, Row, NoRow, JobIsOwn, CompletedHasRows

\* Saving the entity in memory over the row keeps the invariant: the entity agrees
\* with the queue and the commits however stale it is.
LEMMA SaveKeeps ==
    ASSUME IInv, NEW p \in Procs, Save(p)
    PROVE  IInv'
<1> DEFINE i == proc[p].imp
           e == proc[p].ent
<1>1. At(p, "save") /\ ~At(p, "idle") /\ rows' = [rows EXCEPT ![i] = e] /\ CommitsGrow /\ RestTyped
  BY Unchanged DEF Save
<1>2. \/ Goto(p, "prepare") \/ Goto(p, "count") \/ Goto(p, "copy") \/ Finish(p)
  BY DEF Save
<1>3. Settled(p)
  BY <1>1, <1>2, GotoKeeps, FinishKeeps DEF Calls
<1>4. i \in Imports /\ e \in Row \cup {NoRow} /\ e.job \in Jobs \cup {None}
  BY <1>1, Held
<1>5. /\ e.job # None => jobs'[e.job].imp = i
      /\ e.status \in DoneStatuses => commits'[i] > 0
  BY <1>1, <1>3, <1>4 DEF Settled, Monotone, CommitsGrow, IInv, TypeOK, ProcOK
<1> HIDE DEF i, e
<1> QED
  BY <1>1, <1>3, <1>4, <1>5, WriteKeeps

\* A COPY that commits keeps the invariant.
LEMMA CopyKeeps ==
    ASSUME IInv, NEW p \in Procs, Copy(p)
    PROVE  IInv'
<1>1. CommitsGrow /\ commits'[proc[p].imp] > 0 /\ RestTyped /\ ~At(p, "idle")
  BY Unchanged DEF Copy, IInv, TypeOK, ProcOK, CommitsGrow
<1>2. Settled(p)
  BY <1>1, GotoKeeps, TransitionKeeps, StatusNames DEF Copy, Calls
<1> QED
  BY <1>1, <1>2, RowsUntouched DEF Copy

\* A process that moves to another call, with an entity, keeps its import.
LEMMA Moves ==
    ASSUME IInv, NEW p \in Procs, ~At(p, "idle"), NEW c \in Calls, NEW e \in Row \cup {NoRow}
    PROVE  proc' = [proc EXCEPT ![p].pc = c, ![p].ent = e] =>
             /\ proc' = [proc EXCEPT ![p] = proc'[p]]
             /\ proc'[p] \in Process
             /\ proc'[p].pc = c /\ proc'[p].imp = proc[p].imp /\ proc'[p].ent = e
<1>1. ASSUME proc' = [proc EXCEPT ![p].pc = c, ![p].ent = e]
      PROVE  /\ proc' = [proc EXCEPT ![p] = proc'[p]]
             /\ proc'[p] = [proc[p] EXCEPT !.pc = c, !.ent = e]
  BY <1>1 DEF IInv, TypeOK
<1>2. ASSUME proc'[p] = [proc[p] EXCEPT !.pc = c, !.ent = e]
      PROVE  /\ proc'[p] \in Process
             /\ proc'[p].pc = c /\ proc'[p].imp = proc[p].imp /\ proc'[p].ent = e
  <2>1. PICK m \in Process : m.imp = proc[p].imp /\ proc'[p] = [m EXCEPT !.pc = c, !.ent = e]
    BY <1>2, Held
  <2> QED
    BY <2>1 DEF Process
<1> QED
  BY <1>1, <1>2

\* An entity that gets a job, or a row that does, keeps its status.
LEMMA EntityJob ==
    ASSUME NEW e \in Row, NEW j \in Jobs \cup {None}
    PROVE  /\ [e EXCEPT !.job = j] \in Row
           /\ [e EXCEPT !.job = j].job = j
           /\ [e EXCEPT !.job = j].status = e.status
BY DEF Row

\* A process whose entity is a row that agrees with the queue and the commits.
LEMMA GoodEntity ==
    ASSUME NEW p \in Procs, NEW i \in Imports, NEW e \in Row,
           proc'[p].imp = i, proc'[p].ent = e,
           proc'[p].pc \notin {"idle", "attach", "reload", "withdraw", "rowErrors"},
           e.job # None => jobs'[e.job].imp = i,
           e.status \in DoneStatuses => commits'[i] > 0
    PROVE  ProcOK(p)'
BY DEF ProcOK

\* Reloading the row after a lost attach keeps the invariant.
LEMMA ReloadKeeps ==
    ASSUME IInv, NEW p \in Procs, Reload(p)
    PROVE  IInv'
<1> DEFINE i == proc[p].imp
<1>1. ~At(p, "idle") /\ CommitsGrow /\ RestTyped /\ UNCHANGED rows /\ UNCHANGED commits
  BY Unchanged DEF Reload
<1>2. CASE Exists(i)
  <2>1. /\ proc' = [proc EXCEPT ![p].pc = "queuedAudit", ![p].ent = rows[i]]
        /\ UNCHANGED jobs
    BY <1>2 DEF Reload
  <2>2. /\ "queuedAudit" \in Calls
        /\ i \in Imports /\ rows[i] \in Row
        /\ rows[i].job # None => jobs[rows[i].job].imp = i
        /\ rows[i].status \in DoneStatuses => commits[i] > 0
    BY <1>1, <1>2, Held DEF Calls
  <2>3. /\ proc' = [proc EXCEPT ![p] = proc'[p]]
        /\ proc'[p] \in Process
        /\ proc'[p].pc = "queuedAudit" /\ proc'[p].imp = i /\ proc'[p].ent = rows[i]
    BY <1>1, <2>1, <2>2, Moves
  <2>4. ProcOK(p)'
    BY <1>1, <2>1, <2>2, <2>3, GoodEntity
  <2> QED
    BY <1>1, <2>1, <2>3, <2>4, QueueUntouched, RowsUntouched
<1>3. CASE ~Exists(i)
  <2>1. Goto(p, "withdraw") /\ At(p, "reload")
    BY <1>3 DEF Reload
  <2> QED
    BY <1>1, <2>1, GotoKeeps, RowsUntouched DEF Calls
<1> QED
  BY <1>2, <1>3

\* Writing the job id to a row that is still QUEUED keeps the invariant.
LEMMA AttachKeeps ==
    ASSUME IInv, NEW p \in Procs, Attach(p)
    PROVE  IInv'
<1> DEFINE i == proc[p].imp
           j == proc[p].job
           e == [proc[p].ent EXCEPT !.job = j]
           r == [rows[i] EXCEPT !.job = j]
<1>1. At(p, "attach") /\ ~At(p, "idle") /\ CommitsGrow /\ RestTyped /\ UNCHANGED commits
  BY Unchanged DEF Attach
<1>2. j \in Jobs /\ jobs[j].imp = i /\ i \in Imports
  BY <1>1 DEF IInv, ProcOK
<1>3. CASE rows[i].status = "QUEUED"
  <2>1. /\ proc' = [proc EXCEPT ![p].pc = "queuedAudit", ![p].ent = e]
        /\ rows' = [rows EXCEPT ![i] = r]
        /\ UNCHANGED jobs
    BY <1>3 DEF Attach
  <2>2. proc[p].ent \in Row /\ rows[i] \in Row
    BY <1>1, <1>3, Held DEF NoEntity, NoRow
  <2>3. /\ r \in Row /\ r.job = j /\ r.status = rows[i].status
        /\ e \in Row /\ e.job = j /\ e.status = proc[p].ent.status
    BY <1>2, <2>2, EntityJob
  <2> HIDE DEF e, r
  <2>4. /\ proc' = [proc EXCEPT ![p] = proc'[p]]
        /\ proc'[p] \in Process
        /\ proc'[p].pc = "queuedAudit" /\ proc'[p].imp = i /\ proc'[p].ent = e
    BY <1>1, <2>1, <2>3, Moves DEF Calls
  <2>5. ProcOK(p)'
    BY <1>1, <1>2, <2>1, <2>3, <2>4 DEF ProcOK, IInv
  <2>6. Settled(p)
    BY <1>1, <2>1, <2>4, <2>5, QueueUntouched
  <2> QED
    BY <1>1, <1>2, <2>1, <2>3, <2>6, WriteKeeps
<1>4. CASE rows[i].status # "QUEUED"
  <2>1. Goto(p, "reload") /\ UNCHANGED rows
    BY <1>4 DEF Attach
  <2> QED
    BY <1>1, <2>1, GotoKeeps, RowsUntouched DEF Calls
<1> QED
  BY <1>3, <1>4

\* A job ends, or none does.
LEMMA JobDone ==
    ASSUME IInv, NEW j,
           jobs' = jobs \/ jobs' = [jobs EXCEPT ![j] = [@ EXCEPT !.state = "done"]]
    PROVE  /\ jobs' \in [Jobs -> Job]
           /\ \A k \in Jobs : jobs'[k].imp = jobs[k].imp
           /\ JobsOK'
<1>1. jobs \in [Jobs -> Job]
  BY DEF IInv, TypeOK
<1>2. ASSUME NEW k \in Jobs
      PROVE  jobs'[k] = jobs[k] \/ jobs'[k] = [jobs[k] EXCEPT !.state = "done"]
  <2>1. CASE k = j
    BY <1>1, <2>1
  <2>2. CASE k # j
    BY <1>1, <2>2
  <2> QED
    BY <2>1, <2>2
<1>3. jobs' = [k \in Jobs |-> jobs'[k]]
  BY <1>1
<1>4. \A k \in Jobs : /\ jobs'[k] \in Job /\ jobs'[k].imp = jobs[k].imp
                      /\ jobs'[k].state \in {jobs[k].state, "done"}
  BY <1>1, <1>2, JobEnds
<1>5. jobs' \in [Jobs -> Job]
  <2> HIDE <1>1
  <2> QED
    BY <1>3, <1>4
<1> QED
  BY <1>4, <1>5 DEF JobsOK, IInv

\* Withdrawing the job of a failed enqueue keeps the invariant.
LEMMA WithdrawKeeps ==
    ASSUME IInv, NEW p \in Procs, Withdraw(p)
    PROVE  IInv'
<1> DEFINE i == proc[p].imp
           e == [proc[p].ent EXCEPT !.status = "FAILED"]
<1>1. /\ At(p, "withdraw") /\ ~At(p, "idle") /\ RestTyped /\ UNCHANGED <<rows, commits>>
      /\ jobs' = jobs \/ jobs' = [jobs EXCEPT ![proc[p].job] = [@ EXCEPT !.state = "done"]]
  BY Unchanged DEF Withdraw
<1>2. /\ jobs' \in [Jobs -> Job]
      /\ \A k \in Jobs : jobs'[k].imp = jobs[k].imp
      /\ JobsOK'
  BY <1>1, JobDone
<1>3. Monotone
  BY <1>1, <1>2 DEF Monotone, IInv, TypeOK
<1>4. i \in Imports /\ proc[p].ent \in Row
  BY <1>1, Held
<1>5. e \in Row /\ e.job = proc[p].ent.job /\ e.status = "FAILED"
  BY <1>4, EntityStatus, StatusNames
<1>6. proc' = [proc EXCEPT ![p].pc = "save", ![p].ent = e]
  BY DEF Withdraw
<1> HIDE DEF e
<1>7. /\ proc' = [proc EXCEPT ![p] = proc'[p]]
      /\ proc'[p] \in Process
      /\ proc'[p].pc = "save" /\ proc'[p].imp = i /\ proc'[p].ent = e
  BY <1>1, <1>5, <1>6, Moves DEF Calls
<1>8. e.job # None => jobs'[e.job].imp = i
  BY <1>1, <1>2, <1>5, Held DEF IInv, ProcOK
<1>9. ProcOK(p)'
  BY <1>4, <1>5, <1>7, <1>8, GoodEntity, StatusNames
<1> QED
  BY <1>1, <1>2, <1>3, <1>7, <1>9, RowsUntouched DEF Settled

\* Adding a job to the queue keeps the invariant.
LEMMA AddJobKeeps ==
    ASSUME IInv, NEW p \in Procs, AddJob(p)
    PROVE  IInv'
<1>1. /\ At(p, "add") /\ ~At(p, "idle") /\ RestTyped /\ UNCHANGED <<rows, commits>>
  BY Unchanged DEF AddJob
<1>2. PICK j \in Jobs :
        /\ jobs[j].state = "free"
        /\ jobs' = [jobs EXCEPT ![j] = [imp |-> proc[p].imp, state |-> "waiting"]]
        /\ proc' = [proc EXCEPT ![p].pc = "attach", ![p].job = j]
  BY DEF AddJob
<1>3. /\ proc[p] \in Process /\ proc[p].imp \in Imports /\ proc[p].ent \in Row
      /\ proc[p].ent.job \in Jobs \cup {None}
      /\ proc[p].ent.job # None => jobs[proc[p].ent.job].imp = proc[p].imp
      /\ proc[p].ent.status \in DoneStatuses => commits[proc[p].imp] > 0
  BY <1>1, Held DEF IInv, ProcOK
<1>4. jobs[j].imp = None
  BY <1>2 DEF IInv, JobsOK
<1>5. /\ jobs' \in [Jobs -> Job]
      /\ jobs'[j].imp = proc[p].imp
      /\ \A k \in Jobs : jobs[k].imp # None => jobs'[k].imp = jobs[k].imp
      /\ JobsOK'
  BY <1>2, <1>3, <1>4 DEF IInv, TypeOK, Job, JobsOK
<1>6. Monotone
  BY <1>1, <1>5 DEF Monotone, IInv, TypeOK
<1>7. /\ proc' = [proc EXCEPT ![p] = proc'[p]]
      /\ proc'[p] = [proc[p] EXCEPT !.pc = "attach", !.job = j]
  BY <1>2 DEF IInv, TypeOK
<1>8. PICK m \in Process : /\ m.imp = proc[p].imp /\ m.ent = proc[p].ent
                          /\ proc'[p] = [m EXCEPT !.pc = "attach", !.job = j]
  BY <1>3, <1>7
<1>9. /\ proc'[p] \in Process /\ proc'[p].pc = "attach" /\ proc'[p].job = j
      /\ proc'[p].imp = proc[p].imp /\ proc'[p].ent = proc[p].ent
  BY <1>8 DEF Process, Calls
<1>10. ProcOK(p)'
  BY <1>1, <1>3, <1>5, <1>9 DEF ProcOK
<1> QED
  BY <1>1, <1>5, <1>6, <1>7, <1>9, <1>10, RowsUntouched DEF Settled

\* A worker that takes a job keeps the invariant.
LEMMA TakeJobKeeps ==
    ASSUME IInv, NEW p \in Procs, TakeJob(p)
    PROVE  IInv'
<1>1. RestTyped /\ UNCHANGED <<rows, commits>>
  BY Unchanged DEF TakeJob
<1>2. PICK j \in Jobs :
        /\ jobs[j].state = "waiting"
        /\ jobs' = [jobs EXCEPT ![j] = [@ EXCEPT !.state = "active"]]
        /\ proc' = [proc EXCEPT ![p] = [Idle EXCEPT !.pc = "claim", !.op = "process",
                                                    !.imp = jobs[j].imp, !.job = j]]
  BY DEF TakeJob
<1>3. jobs[j].imp \in Imports /\ jobs[j] \in Job
  BY <1>2 DEF IInv, JobsOK, TypeOK
<1>4. /\ jobs' \in [Jobs -> Job]
      /\ \A k \in Jobs : jobs'[k].imp = jobs[k].imp
      /\ JobsOK'
  BY <1>2, <1>3 DEF IInv, TypeOK, Job, JobsOK
<1>5. Monotone
  BY <1>1, <1>4 DEF Monotone, IInv, TypeOK
<1>6. /\ proc' = [proc EXCEPT ![p] = proc'[p]]
      /\ proc'[p] = [Idle EXCEPT !.pc = "claim", !.op = "process", !.imp = jobs[j].imp, !.job = j]
  BY <1>2 DEF IInv, TypeOK
<1>7. /\ proc'[p] \in Process
      /\ proc'[p].pc = "claim" /\ proc'[p].imp \in Imports /\ proc'[p].ent = NoRow
  BY <1>3, <1>6 DEF Idle, Process, Calls
<1>8. ProcOK(p)'
  BY <1>7 DEF ProcOK, NoRow, DoneStatuses
<1> QED
  BY <1>1, <1>4, <1>5, <1>6, <1>7, <1>8, RowsUntouched DEF Settled

\* The conditional UPDATE by which a worker claims an import keeps the invariant.
LEMMA ClaimKeeps ==
    ASSUME IInv, NEW p \in Procs, Claim(p)
    PROVE  IInv'
<1> DEFINE i == proc[p].imp
           r == [rows[i] EXCEPT !.status = "PROCESSING"]
<1>1. /\ At(p, "claim") /\ ~At(p, "idle") /\ RestTyped /\ CommitsGrow
  BY Unchanged DEF Claim
<1>2. CASE rows[i].status = "QUEUED"
  <2>1. rows' = [rows EXCEPT ![i] = r] /\ Goto(p, "load")
    BY <1>2 DEF Claim
  <2>2. Settled(p)
    BY <1>1, <2>1, GotoKeeps DEF Calls
  <2>3. i \in Imports /\ rows[i] \in Row \cup {NoRow} /\ rows[i].job \in Jobs \cup {None}
    BY <1>1, Held
  <2>4. r \in Row /\ r.job = rows[i].job /\ r.status = "PROCESSING"
    BY <2>3, EntityStatus, StatusNames
  <2> HIDE DEF r, i
  <2> QED
    BY <1>1, <2>1, <2>2, <2>3, <2>4, WriteKeeps, StatusNames
<1>3. CASE rows[i].status # "QUEUED"
  <2>1. Finish(p) /\ UNCHANGED rows
    BY <1>3 DEF Claim
  <2> QED
    BY <1>1, <2>1, FinishKeeps, RowsUntouched
<1> QED
  BY <1>2, <1>3

\* Loading the claimed row keeps the invariant.
LEMMA LoadKeeps ==
    ASSUME IInv, NEW p \in Procs, Load(p)
    PROVE  IInv'
<1> DEFINE i == proc[p].imp
           e == [rows[i] EXCEPT !.status = "PROCESSING"]
<1>1. /\ At(p, "load") /\ ~At(p, "idle") /\ RestTyped /\ CommitsGrow /\ UNCHANGED <<rows, commits>>
  BY Unchanged DEF Load
<1>2. CASE Exists(i)
  <2>1. UNCHANGED jobs /\ proc' = [proc EXCEPT ![p].pc = "prepare", ![p].ent = e]
    BY <1>2 DEF Load
  <2>2. /\ i \in Imports /\ rows[i] \in Row \cup {NoRow}
        /\ rows[i].job # None => jobs[rows[i].job].imp = i
    BY <1>1, Held
  <2>3. e \in Row /\ e.job = rows[i].job /\ e.status = "PROCESSING"
    BY <2>2, EntityStatus, StatusNames
  <2> HIDE DEF e
  <2>4. /\ proc' = [proc EXCEPT ![p] = proc'[p]]
        /\ proc'[p] \in Process
        /\ proc'[p].pc = "prepare" /\ proc'[p].imp = i /\ proc'[p].ent = e
    BY <1>1, <2>1, <2>3, Moves DEF Calls
  <2>5. ProcOK(p)'
    BY <2>1, <2>2, <2>3, <2>4, GoodEntity, StatusNames
  <2> QED
    BY <1>1, <2>1, <2>4, <2>5, QueueUntouched, RowsUntouched
<1>3. CASE ~Exists(i)
  <2>1. Finish(p)
    BY <1>3 DEF Load
  <2> QED
    BY <1>1, <2>1, FinishKeeps, RowsUntouched
<1> QED
  BY <1>2, <1>3

\* A request enters with the row it has read.
LEMMA BeginOnKeeps ==
    ASSUME IInv, NEW p \in Procs,
           NEW o \in {"retry", "cancel", "remove"}, NEW statuses \in SUBSET Status,
           NEW call \in {"exists", "unqueue", "deleteFile"},
           BeginOn(p, o, statuses, call), retries' \in Nat
    PROVE  IInv'
<1>1. PICK i \in Imports :
        /\ rows[i].status \in statuses
        /\ proc' = [proc EXCEPT ![p] = [Idle EXCEPT !.pc = call, !.op = o, !.imp = i, !.ent = rows[i]]]
  BY DEF BeginOn
<1>2. RestTyped /\ UNCHANGED <<rows, jobs, commits>>
  BY DEF BeginOn, IInv, TypeOK, RestTyped
<1>3. /\ rows[i] \in Row
      /\ rows[i].job # None => jobs[rows[i].job].imp = i
      /\ rows[i].status \in DoneStatuses => commits[i] > 0
  BY <1>1 DEF IInv, TypeOK, NoRow, Status, JobIsOwn, CompletedHasRows
<1>4. /\ proc' = [proc EXCEPT ![p] = proc'[p]]
      /\ proc'[p] = [Idle EXCEPT !.pc = call, !.op = o, !.imp = i, !.ent = rows[i]]
  BY <1>1 DEF IInv, TypeOK
<1>5. PICK e \in Row :
        /\ proc'[p] = [Idle EXCEPT !.pc = call, !.op = o, !.imp = i, !.ent = e]
        /\ e.job # None => jobs'[e.job].imp = i
        /\ e.status \in DoneStatuses => commits'[i] > 0
  BY <1>2, <1>3, <1>4
<1>6. /\ proc'[p] \in Process
      /\ proc'[p].pc = call /\ proc'[p].imp = i /\ proc'[p].ent = e
  BY <1>5 DEF Idle, Process, Calls
<1>7. ProcOK(p)'
  BY <1>5, <1>6, GoodEntity
<1> QED
  BY <1>2, <1>4, <1>6, <1>7, QueueUntouched, RowsUntouched

\* The arrival of any request keeps the invariant.
LEMMA BeginKeeps ==
    ASSUME IInv, NEW p \in Procs, Begin(p)
    PROVE  IInv'
<1>1. retries \in Nat
  BY DEF IInv, TypeOK
<1>2. CASE BeginRetry(p)
  BY <1>1, <1>2, BeginOnKeeps DEF BeginRetry, RetryableStatuses, Status
<1>3. CASE BeginCancel(p)
  BY <1>1, <1>3, BeginOnKeeps DEF BeginCancel, Status
<1>4. CASE BeginRemove(p)
  BY <1>1, <1>4, BeginOnKeeps DEF BeginRemove, RemovableStatuses, Status
<1> QED
  BY <1>2, <1>3, <1>4, BeginCreateKeeps DEF Begin

\* The conditional UPDATE of retry keeps the invariant.
LEMMA RequeueKeeps ==
    ASSUME IInv, NEW p \in Procs, Requeue(p)
    PROVE  IInv'
<1> DEFINE i == proc[p].imp
           r == [rows[i] EXCEPT !.status = "QUEUED"]
           e == [proc[p].ent EXCEPT !.status = "QUEUED"]
<1>1. /\ At(p, "requeue") /\ ~At(p, "idle") /\ RestTyped /\ CommitsGrow /\ UNCHANGED commits
  BY Unchanged DEF Requeue
<1>2. CASE rows[i].status = proc[p].ent.status /\ ~IndexRefuses(i, "QUEUED")
  <2>1. /\ rows' = [rows EXCEPT ![i] = r]
        /\ UNCHANGED jobs /\ proc' = [proc EXCEPT ![p].pc = "count", ![p].ent = e]
    BY <1>2 DEF Requeue
  <2>2. /\ i \in Imports /\ rows[i] \in Row \cup {NoRow} /\ proc[p].ent \in Row
        /\ rows[i].job \in Jobs \cup {None}
        /\ proc[p].ent.job # None => jobs[proc[p].ent.job].imp = i
    BY <1>1, Held DEF IInv, ProcOK
  <2>3. /\ r \in Row /\ r.job = rows[i].job /\ r.status = "QUEUED"
        /\ e \in Row /\ e.job = proc[p].ent.job /\ e.status = "QUEUED"
    BY <2>2, EntityStatus, StatusNames
  <2> HIDE DEF e, r
  <2>4. /\ proc' = [proc EXCEPT ![p] = proc'[p]]
        /\ proc'[p] \in Process
        /\ proc'[p].pc = "count" /\ proc'[p].imp = i /\ proc'[p].ent = e
    BY <1>1, <2>1, <2>3, Moves DEF Calls
  <2>5. ProcOK(p)'
    BY <2>1, <2>2, <2>3, <2>4, GoodEntity, StatusNames
  <2>6. Settled(p)
    BY <1>1, <2>1, <2>4, <2>5, QueueUntouched
  <2> HIDE DEF i
  <2> QED
    BY <1>1, <2>1, <2>2, <2>3, <2>6, WriteKeeps, StatusNames
<1>3. CASE ~(rows[i].status = proc[p].ent.status /\ ~IndexRefuses(i, "QUEUED"))
  <2>1. Finish(p) /\ UNCHANGED rows
    BY <1>3 DEF Requeue
  <2> QED
    BY <1>1, <2>1, FinishKeeps, RowsUntouched
<1> QED
  BY <1>2, <1>3

\* Removing the job of an import that is cancelled keeps the invariant.
LEMMA UnqueueKeeps ==
    ASSUME IInv, NEW p \in Procs, Unqueue(p)
    PROVE  IInv'
<1> DEFINE j == proc[p].ent.job
<1>1. /\ At(p, "unqueue") /\ ~At(p, "idle") /\ RestTyped /\ CommitsGrow /\ UNCHANGED <<rows, commits>>
  BY Unchanged DEF Unqueue
<1>2. CASE Finish(p)
  BY <1>1, <1>2, FinishKeeps, RowsUntouched
<1>3. CASE ~Finish(p)
  <2>1. /\ proc' = [proc EXCEPT ![p].pc = "cancelRow"]
        /\ jobs' = jobs \/ jobs' = [jobs EXCEPT ![j] = [@ EXCEPT !.state = "done"]]
    BY <1>3 DEF Unqueue
  <2>2. /\ jobs' \in [Jobs -> Job]
        /\ \A k \in Jobs : jobs'[k].imp = jobs[k].imp
        /\ JobsOK'
    BY <2>1, JobDone
  <2>3. Monotone
    BY <1>1, <2>2 DEF Monotone, IInv, TypeOK
  <2>4. /\ proc[p] \in Process /\ proc[p].imp \in Imports /\ proc[p].ent \in Row
        /\ j \in Jobs \cup {None}
        /\ j # None => jobs'[j].imp = proc[p].imp
        /\ proc[p].ent.status \in DoneStatuses => commits'[proc[p].imp] > 0
    BY <1>1, <2>2, Held DEF IInv, ProcOK
  <2>5. /\ proc' = [proc EXCEPT ![p] = proc'[p]]
        /\ proc'[p] = [proc[p] EXCEPT !.pc = "cancelRow"]
    BY <2>1 DEF IInv, TypeOK
  <2>6. /\ proc'[p] \in Process /\ proc'[p].pc = "cancelRow"
        /\ proc'[p].imp = proc[p].imp /\ proc'[p].ent = proc[p].ent
    BY <2>4, <2>5 DEF Process, Calls
  <2>7. ProcOK(p)'
    BY <2>4, <2>6, GoodEntity
  <2> QED
    BY <1>1, <2>2, <2>3, <2>5, <2>6, <2>7, RowsUntouched DEF Settled
<1> QED
  BY <1>2, <1>3

\* The conditional UPDATE of cancel keeps the invariant.
LEMMA CancelRowKeeps ==
    ASSUME IInv, NEW p \in Procs, CancelRow(p)
    PROVE  IInv'
<1> DEFINE i == proc[p].imp
           r == [rows[i] EXCEPT !.status = "CANCELLED"]
<1>1. /\ ~At(p, "idle") /\ RestTyped /\ CommitsGrow /\ Finish(p)
  BY Unchanged DEF CancelRow
<1>2. Settled(p)
  BY <1>1, FinishKeeps
<1>3. CASE rows[i].status = "QUEUED"
  <2>1. rows' = [rows EXCEPT ![i] = r]
    BY <1>3 DEF CancelRow
  <2>2. i \in Imports /\ rows[i] \in Row \cup {NoRow} /\ rows[i].job \in Jobs \cup {None}
    BY <1>1, Held
  <2>3. r \in Row /\ r.job = rows[i].job /\ r.status = "CANCELLED"
    BY <2>2, EntityStatus, StatusNames
  <2> HIDE DEF r, i
  <2> QED
    BY <1>1, <1>2, <2>1, <2>2, <2>3, WriteKeeps, StatusNames
<1>4. CASE rows[i].status # "QUEUED"
  BY <1>1, <1>2, <1>4, RowsUntouched DEF CancelRow
<1> QED
  BY <1>3, <1>4

\* Deleting the row of an import keeps the invariant.
LEMMA DeleteRowKeeps ==
    ASSUME IInv, NEW p \in Procs, DeleteRow(p)
    PROVE  IInv'
<1>1. /\ ~At(p, "idle") /\ RestTyped /\ CommitsGrow /\ Finish(p)
      /\ rows' = [rows EXCEPT ![proc[p].imp] = NoRow]
  BY Unchanged DEF DeleteRow
<1>2. Settled(p) /\ proc[p].imp \in Imports
  BY <1>1, FinishKeeps, Held
<1>3. NoRow.job = None /\ NoRow.status \notin DoneStatuses
  BY DEF NoRow, DoneStatuses
<1> QED
  BY <1>1, <1>2, <1>3, WriteKeeps
-----------------------------------------------------------------------------
(* The cleaner and the faults.                                             *)

\* A row whose file is deleted keeps the rest.
LEMMA RowDeleted ==
    ASSUME NEW r \in Row
    PROVE  /\ [r EXCEPT !.fileDeleted = TRUE] \in Row
           /\ [r EXCEPT !.fileDeleted = TRUE].job = r.job
           /\ [r EXCEPT !.fileDeleted = TRUE].status = r.status
BY DEF Row

\* Nobody but the cleaner moves.
LEMMA NobodyMoves ==
    ASSUME IInv, RestTyped, UNCHANGED <<jobs, commits, proc>>,
           rows' \in [Imports -> Row \cup {NoRow}],
           \A i \in Imports : rows'[i].job = rows[i].job /\ rows'[i].status = rows[i].status
    PROVE  IInv'
<1>1. Monotone /\ JobsOK'
  BY DEF Monotone, IInv, TypeOK, JobsOK
<1>2. TypeOK'
  BY DEF IInv, TypeOK, RestTyped
<1>3. \A q \in Procs : ProcOK(q)'
  BY <1>1, OthersKeep
<1>4. JobIsOwn' /\ CompletedHasRows'
  BY DEF IInv, JobIsOwn, CompletedHasRows
<1> QED
  BY <1>1, <1>2, <1>3, <1>4 DEF IInv

\* The steps of the file cleaner keep the invariant.
LEMMA SweepKeeps ==
    ASSUME IInv, Sweep
    PROVE  IInv'
<1>1. CASE StartSweep
  <2>1. RestTyped
    BY <1>1 DEF StartSweep, RestTyped, IInv, TypeOK
  <2> QED
    BY <1>1, <2>1, NobodyMoves DEF StartSweep, IInv, TypeOK
<1>2. CASE SweepFile
  <2>1. RestTyped
    BY <1>2 DEF SweepFile, RestTyped, IInv, TypeOK
  <2> QED
    BY <1>2, <2>1, NobodyMoves DEF SweepFile, IInv, TypeOK
<1>3. CASE SweepRow
  <2> DEFINE r == [rows[sweeping] EXCEPT !.fileDeleted = TRUE]
  <2>1. RestTyped
    BY <1>3 DEF SweepRow, RestTyped, IInv, TypeOK
  <2>2. CASE Exists(sweeping)
    <3>1. sweeping \in Imports /\ rows' = [rows EXCEPT ![sweeping] = r]
      BY <1>3, <2>2 DEF SweepRow, IInv, TypeOK
    <3>2. rows[sweeping] \in Row
      BY <2>2, <3>1 DEF IInv, TypeOK
    <3>3. r \in Row /\ r.job = rows[sweeping].job /\ r.status = rows[sweeping].status
      BY <3>2, RowDeleted
    <3> HIDE DEF r
    <3>4. /\ rows' \in [Imports -> Row \cup {NoRow}]
          /\ rows'[sweeping] = r
          /\ \A k \in Imports \ {sweeping} : rows'[k] = rows[k]
      BY <3>1, <3>3, OneRow
    <3>5. \A i \in Imports : rows'[i].job = rows[i].job /\ rows'[i].status = rows[i].status
      BY <3>3, <3>4
    <3> QED
      BY <1>3, <2>1, <3>4, <3>5, NobodyMoves DEF SweepRow
  <2>3. CASE ~Exists(sweeping)
    BY <1>3, <2>1, <2>3, NobodyMoves DEF SweepRow, IInv, TypeOK
  <2> QED
    BY <2>2, <2>3
<1> QED
  BY <1>1, <1>2, <1>3 DEF Sweep

\* A call that throws, with the handlers that then run, keeps the invariant.
LEMMA CallThrowsKeeps ==
    ASSUME IInv, NEW p \in Procs, CallThrows(p)
    PROVE  IInv'
<1>1. CommitsGrow /\ RestTyped /\ UNCHANGED rows /\ ~At(p, "idle")
  BY Unchanged DEF CallThrows
<1>2. \/ Finish(p) \/ Fail(p)
      \/ proc[p].pc \in {"attach", "reload"} /\ Goto(p, "withdraw")
  BY DEF CallThrows
<1> QED
  BY <1>1, <1>2, FinishKeeps, FailKeeps, GotoKeeps, RowsUntouched DEF Calls

\* A COPY whose acknowledgement is lost keeps the invariant.
LEMMA CommitLostKeeps ==
    ASSUME IInv, NEW p \in Procs, CommitLost(p)
    PROVE  IInv'
<1>1. CommitsGrow /\ RestTyped /\ UNCHANGED rows /\ ~At(p, "idle") /\ Fail(p)
  BY Unchanged DEF CommitLost, IInv, TypeOK, CommitsGrow
<1> QED
  BY <1>1, FailKeeps, RowsUntouched

\* After a crash every process is idle and no job has lost its import.
LEMMA CrashKeeps ==
    ASSUME IInv, Crash
    PROVE  IInv'
<1> PICK stalled \in SUBSET Jobs :
      jobs' = [j \in Jobs |->
                 IF jobs[j].state = "active"
                   THEN [jobs[j] EXCEPT !.state = IF j \in stalled THEN "done" ELSE "waiting"]
                   ELSE jobs[j]]
  BY DEF Crash
<1>1. ASSUME NEW j \in Jobs
      PROVE  /\ jobs'[j] \in Job
             /\ jobs'[j].imp = jobs[j].imp
             /\ \/ jobs'[j].state = jobs[j].state
                \/ jobs[j].state = "active" /\ jobs'[j].state \in {"waiting", "done"}
  BY DEF IInv, TypeOK, Job
<1>2. jobs' \in [Jobs -> Job]
  BY <1>1
<1>3. JobsOK'
  BY <1>1 DEF JobsOK, IInv
<1>4. \A p \in Procs : proc'[p] = Idle
  BY DEF Crash
<1>5. proc' \in [Procs -> Process] /\ \A p \in Procs : ProcOK(p)'
  BY <1>4, IdleIsFine DEF Crash
<1>6. RestTyped /\ UNCHANGED <<rows, commits>>
  BY DEF Crash, Fault, RestTyped, IInv, TypeOK
<1>7. TypeOK'
  BY <1>2, <1>5, <1>6 DEF TypeOK, IInv, RestTyped
<1>8. JobIsOwn' /\ CompletedHasRows'
  BY <1>1, <1>6 DEF IInv, TypeOK, JobIsOwn, CompletedHasRows, Row, NoRow
<1> QED
  BY <1>3, <1>5, <1>7, <1>8 DEF IInv

\* Every fault keeps the invariant.
LEMMA FaultsKeep ==
    ASSUME IInv, Faults
    PROVE  IInv'
<1>1. CASE SweepThrows
  <2>1. RestTyped /\ UNCHANGED <<rows, jobs, commits, proc>>
    BY <1>1 DEF SweepThrows, Fault, RestTyped, IInv, TypeOK
  <2> QED
    BY <2>1, NobodyMoves DEF IInv, TypeOK
<1> QED
  BY <1>1, CallThrowsKeeps, CommitLostKeeps, CrashKeeps DEF Faults
-----------------------------------------------------------------------------
(* The specification keeps the invariant.                                  *)

\* The invariant holds initially.
LEMMA InitHolds == Init => IInv
<1> SUFFICES ASSUME Init PROVE IInv
  OBVIOUS
<1>1. Idle \in Process
  BY DEF Idle, Process, Calls
<1>2. TypeOK
  BY <1>1 DEF Init, TypeOK, NoRow, Job
<1>3. \A p \in Procs : ProcOK(p)
  BY DEF Init, ProcOK, Idle, NoRow, DoneStatuses
<1>4. JobsOK /\ JobIsOwn /\ CompletedHasRows
  BY DEF Init, JobsOK, JobIsOwn, CompletedHasRows, NoRow, DoneStatuses
<1> QED
  BY <1>2, <1>3, <1>4 DEF IInv

\* Every step of a request or a worker keeps the invariant.
LEMMA StepKeeps ==
    ASSUME IInv, NEW p \in Procs, Step(p)
    PROVE  IInv'
BY QuietSteps, InsertKeeps, SaveKeeps, CopyKeeps, AddJobKeeps, AttachKeeps, ReloadKeeps,
   WithdrawKeeps, TakeJobKeeps, ClaimKeeps, LoadKeeps, RequeueKeeps, UnqueueKeeps,
   CancelRowKeeps, DeleteRowKeeps DEF Step

\* The invariant is inductive.
LEMMA NextKeeps == IInv /\ [Next]_vars => IInv'
<1> SUFFICES ASSUME IInv, [Next]_vars PROVE IInv'
  OBVIOUS
<1>1. CASE UNCHANGED vars
  BY <1>1 DEF vars, IInv, TypeOK, ProcOK, JobsOK, JobIsOwn, CompletedHasRows
<1>2. ASSUME NEW p \in Requests, Begin(p) PROVE IInv'
  BY <1>2, BeginKeeps DEF Procs
<1>3. CASE Waiting
  BY <1>1, <1>3 DEF Waiting
<1> QED
  BY <1>1, <1>2, <1>3, StepKeeps, SweepKeeps, FaultsKeep DEF Next

\* The inductive invariant holds in every reachable state.
THEOREM Invariance == Spec => []IInv
<1> QED
  BY InitHolds, NextKeeps, PTL DEF Spec

\* Type correctness.
THEOREM TypeCorrect == Spec => []TypeOK
<1>1. IInv => TypeOK
  BY DEF IInv
<1> QED
  BY <1>1, Invariance, PTL

\* Whatever fails and however requests, workers and the cleaner interleave,
\* no import is shown as completed before a COPY of its file has committed.
THEOREM CompletedIsLoaded == Spec => []CompletedHasRows
<1>1. IInv => CompletedHasRows
  BY DEF IInv
<1> QED
  BY <1>1, Invariance, PTL

\* The job that cancel takes from a row was enqueued for that very import.
THEOREM JobOwnership == Spec => []JobIsOwn
<1>1. IInv => JobIsOwn
  BY DEF IInv
<1> QED
  BY <1>1, Invariance, PTL
-----------------------------------------------------------------------------
(* The unique index.                                                       *)

\* What the index makes of the rows: an assumption about PostgreSQL that holds
\* by IndexRefuses, and that the proofs of ImportsPromise_proofs rest on.
OneActivePerKey ==
    \A i, k \in Imports :
        Key[i] = Key[k] /\ rows[i].status \in IndexedStatuses
                       /\ rows[k].status \in IndexedStatuses => i = k

\* A write that puts no further row in the index, or one the index admits.
LEMMA IndexKeeps ==
    ASSUME IInv, OneActivePerKey, NEW i \in Imports, NEW r \in Row \cup {NoRow},
           rows' = [rows EXCEPT ![i] = r],
           \/ r.status \notin IndexedStatuses
           \/ rows[i].status \in IndexedStatuses
           \/ ~IndexRefuses(i, r.status)
    PROVE  OneActivePerKey'
<1>1. rows'[i] = r /\ \A k \in Imports \ {i} : rows'[k] = rows[k]
  BY OneRow
<1>2. ASSUME NEW k \in Imports \ {i}, Key[k] = Key[i],
             rows'[k].status \in IndexedStatuses, rows'[i].status \in IndexedStatuses
      PROVE  FALSE
  <2>1. rows[k].status \in IndexedStatuses /\ r.status \in IndexedStatuses
    BY <1>1, <1>2
  <2>2. rows[i].status \notin IndexedStatuses
    BY <1>2, <2>1 DEF OneActivePerKey
  <2> QED
    BY <1>2, <2>1, <2>2 DEF IndexRefuses
<1> SUFFICES ASSUME NEW a \in Imports, NEW b \in Imports, Key[a] = Key[b], a # b,
                    rows'[a].status \in IndexedStatuses, rows'[b].status \in IndexedStatuses
             PROVE  FALSE
  BY DEF OneActivePerKey
<1>3. CASE a # i /\ b # i
  BY <1>1, <1>3 DEF OneActivePerKey
<1> QED
  BY <1>2, <1>3

\* Statuses inside and outside the index.
LEMMA IndexNames ==
    /\ {"UPLOADED", "CANCELLED", "NONE"} \cap IndexedStatuses = {}
    /\ {"QUEUED", "PROCESSING"} \subseteq IndexedStatuses
BY DEF IndexedStatuses

\* The steps that write no row.
LEMMA IndexUntouched ==
    ASSUME OneActivePerKey, UNCHANGED rows
    PROVE  OneActivePerKey'
BY DEF OneActivePerKey

\* Every step of a request or a worker keeps one active import per key.
LEMMA StepKeepsIndex ==
    ASSUME IInv, OneActivePerKey, NEW p \in Procs, Step(p)
    PROVE  OneActivePerKey'
<1> DEFINE i == proc[p].imp
<1> USE IndexNames
<1>1. CASE Insert(p)
  <2> DEFINE new == [status |-> "UPLOADED", job |-> None, fileDeleted |-> FALSE]
  <2>1. i \in Imports /\ rows' = [rows EXCEPT ![i] = new]
    BY <1>1, Held DEF Insert
  <2>2. new \in Row /\ new.status = "UPLOADED"
    BY DEF Row, Status
  <2> HIDE DEF new
  <2> QED
    BY <2>1, <2>2, IndexKeeps
<1>2. CASE Save(p)
  <2>1. /\ i \in Imports /\ proc[p].ent \in Row \cup {NoRow}
        /\ rows' = [rows EXCEPT ![i] = proc[p].ent]
        /\ ~IndexRefuses(i, proc[p].ent.status)
    BY <1>2, Held DEF Save
  <2> QED
    BY <2>1, IndexKeeps
<1>3. CASE Attach(p)
  <2> DEFINE r == [rows[i] EXCEPT !.job = proc[p].job]
  <2>1. CASE rows[i].status = "QUEUED"
    <3>1. i \in Imports /\ proc[p].job \in Jobs /\ rows[i] \in Row
      <4>1. At(p, "attach")
        BY <1>3 DEF Attach
      <4>2. proc[p].job \in Jobs
        BY <4>1 DEF IInv, ProcOK
      <4>3. i \in Imports /\ rows[i] \in Row \cup {NoRow}
        BY <4>1, Held
      <4> QED
        BY <2>1, <4>2, <4>3 DEF NoRow
    <3>2. rows' = [rows EXCEPT ![i] = r]
      BY <1>3, <2>1 DEF Attach
    <3>3. r \in Row
      BY <3>1, EntityJob
    <3> HIDE DEF r, i
    <3> QED
      BY <2>1, <3>1, <3>2, <3>3, IndexKeeps
  <2>2. CASE rows[i].status # "QUEUED"
    BY <1>3, <2>2, IndexUntouched DEF Attach
  <2> QED
    BY <2>1, <2>2
<1>4. CASE Claim(p)
  <2> DEFINE r == [rows[i] EXCEPT !.status = "PROCESSING"]
  <2>1. CASE rows[i].status = "QUEUED"
    <3>1. i \in Imports /\ rows[i] \in Row \cup {NoRow} /\ rows' = [rows EXCEPT ![i] = r]
      BY <1>4, <2>1, Held DEF Claim
    <3>2. r \in Row
      BY <3>1, EntityStatus, StatusNames
    <3> HIDE DEF r, i
    <3> QED
      BY <2>1, <3>1, <3>2, IndexKeeps
  <2>2. CASE rows[i].status # "QUEUED"
    BY <1>4, <2>2, IndexUntouched DEF Claim
  <2> QED
    BY <2>1, <2>2
<1>5. CASE Requeue(p)
  <2> DEFINE r == [rows[i] EXCEPT !.status = "QUEUED"]
  <2>1. CASE rows[i].status = proc[p].ent.status /\ ~IndexRefuses(i, "QUEUED")
    <3>1. i \in Imports /\ rows[i] \in Row \cup {NoRow} /\ rows' = [rows EXCEPT ![i] = r]
      BY <1>5, <2>1, Held DEF Requeue
    <3>2. r \in Row /\ r.status = "QUEUED"
      BY <3>1, EntityStatus, StatusNames
    <3> HIDE DEF r
    <3>3. ~IndexRefuses(i, r.status)
      BY <2>1, <3>2
    <3> QED
      BY <3>1, <3>2, <3>3, IndexKeeps
  <2>2. CASE ~(rows[i].status = proc[p].ent.status /\ ~IndexRefuses(i, "QUEUED"))
    BY <1>5, <2>2, IndexUntouched DEF Requeue
  <2> QED
    BY <2>1, <2>2
<1>6. CASE CancelRow(p)
  <2> DEFINE r == [rows[i] EXCEPT !.status = "CANCELLED"]
  <2>1. CASE rows[i].status = "QUEUED"
    <3>1. i \in Imports /\ rows[i] \in Row \cup {NoRow} /\ rows' = [rows EXCEPT ![i] = r]
      BY <1>6, <2>1, Held DEF CancelRow
    <3>2. r \in Row
      BY <3>1, EntityStatus, StatusNames
    <3> HIDE DEF r, i
    <3> QED
      BY <2>1, <3>1, <3>2, IndexKeeps
  <2>2. CASE rows[i].status # "QUEUED"
    BY <1>6, <2>2, IndexUntouched DEF CancelRow
  <2> QED
    BY <2>1, <2>2
<1>7. CASE DeleteRow(p)
  <2>1. i \in Imports /\ rows' = [rows EXCEPT ![i] = NoRow]
    BY <1>7, Held DEF DeleteRow
  <2>2. NoRow.status \notin IndexedStatuses
    BY DEF NoRow
  <2> QED
    BY <2>1, <2>2, IndexKeeps
<1>8. CASE UNCHANGED rows
  BY <1>8, IndexUntouched
<1> QED
  BY <1>1, <1>2, <1>3, <1>4, <1>5, <1>6, <1>7, <1>8
  DEF Step, Check, UploadAudit, SaveRefused, Prepare, PrepareThrows, Copy, CopyThrows,
      SaveRowErrors, CountJobs, AddJob, Reload, Withdraw, QueuedAudit, TakeJob, Load,
      FileExists, Unqueue, DeleteFile

\* With the invariant, one active import per key is inductive.
LEMMA NextKeepsIndex == IInv /\ OneActivePerKey /\ [Next]_vars => OneActivePerKey'
<1> SUFFICES ASSUME IInv, OneActivePerKey, [Next]_vars PROVE OneActivePerKey'
  OBVIOUS
<1>1. ASSUME NEW p \in Procs, Step(p) PROVE OneActivePerKey'
  BY <1>1, StepKeepsIndex
<1>2. CASE SweepRow
  <2>1. CASE Exists(sweeping)
    <3> DEFINE r == [rows[sweeping] EXCEPT !.fileDeleted = TRUE]
    <3>1. sweeping \in Imports /\ rows[sweeping] \in Row /\ rows' = [rows EXCEPT ![sweeping] = r]
      BY <1>2, <2>1 DEF SweepRow, IInv, TypeOK
    <3>2. r \in Row /\ r.status = rows[sweeping].status
      BY <3>1, RowDeleted
    <3> HIDE DEF r
    <3> QED
      BY <3>1, <3>2, IndexKeeps
  <2>2. CASE ~Exists(sweeping)
    BY <1>2, <2>2, IndexUntouched DEF SweepRow
  <2> QED
    BY <2>1, <2>2
<1>3. CASE UNCHANGED rows
  BY <1>3, IndexUntouched
<1> QED
  BY <1>1, <1>2, <1>3
  DEF Next, vars, Waiting, Begin, BeginCreate, BeginRetry, BeginCancel, BeginRemove, BeginOn,
      Sweep, StartSweep, SweepFile, Faults, CallThrows, CommitLost, SweepThrows, Crash
=============================================================================
