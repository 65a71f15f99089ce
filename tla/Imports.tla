------------------------------- MODULE Imports -------------------------------
(***************************************************************************)
(* The life of CSV imports: the HTTP requests of ImportsService (create,   *)
(* retry, cancel, remove), the queue workers that run processQueued and    *)
(* the file cleaner, over the data_imports table, the BullMQ queue, the    *)
(* file store and the target tables.                                       *)
(*                                                                         *)
(* Everything runs in one Node process, so a handler is atomic between two *)
(* awaits and anything may happen at an await.  A process is therefore at  *)
(* the call it awaits (its pc), and one action is the completion of that   *)
(* call with all the synchronous code up to the next await.  Two awaits    *)
(* that nothing can tell apart are one step: reading the row when a        *)
(* request arrives, and the audit records whose failure ends in the same   *)
(* handler and the same state as a failure of the call after them.         *)
(*                                                                         *)
(* repository.save(entity) writes the whole in-memory entity over the row, *)
(* and inserts the row when it is gone; repository.update(where, values)   *)
(* is one conditional UPDATE.  Both are one step here.                     *)
(***************************************************************************)
EXTENDS Naturals, FiniteSets, ImportStatus

CONSTANTS
    Imports,        \* uploads: each has its file, its id and its row
    Keys,           \* (organization, schema, table, file hash) values
    Key,            \* the key of each upload
    Large,          \* the uploads above the queue threshold
    Requests,       \* concurrent HTTP requests
    Workers,        \* BullMQ worker slots
    Jobs,           \* job ids (bounds the jobs ever enqueued)
    Operations,     \* the operations clients use, and "sweep" for the cleaner
    MaxActiveJobs,  \* csvImport.maxActiveJobs
    MaxRetries,     \* bound: retries begun
    MaxFaults,      \* bound: failed calls and crashes
    None            \* no import, no job, no entity

Procs == Requests \cup Workers

ASSUME ConstantsAssumption ==
    /\ Key \in [Imports -> Keys]
    /\ Large \subseteq Imports
    /\ Requests \cap Workers = {}
    /\ Operations \subseteq {"create", "retry", "cancel", "remove", "sweep"}
    /\ MaxActiveJobs \in Nat /\ MaxRetries \in Nat /\ MaxFaults \in Nat
    /\ None \notin Imports \cup Jobs

VARIABLES
    rows,      \* data_imports: the row of each import, or NoRow
    fresh,     \* imports nobody has uploaded yet
    files,     \* imports whose stored file exists
    jobs,      \* the BullMQ queue, in no particular order
    commits,   \* how many COPY transactions of each import committed
    proc,      \* what each request and worker is doing
    batch,     \* the cleaner: expired imports still to handle
    sweeping,  \* the cleaner: the import whose file it just deleted
    retries, faults

vars == <<rows, fresh, files, jobs, commits, proc, batch, sweeping, retries, faults>>

Row == [status : Status, job : Jobs \cup {None}, fileDeleted : BOOLEAN]
NoRow == [status |-> "NONE", job |-> None, fileDeleted |-> FALSE]

Job == [imp : Imports \cup {None}, state : {"free", "waiting", "active", "done"}]

Calls == {"idle", "check", "insert", "uploadAudit", "save", "prepare", "copy",
          "rowErrors", "count", "add", "attach", "reload", "withdraw",
          "queuedAudit", "claim", "load", "exists", "requeue", "unqueue",
          "cancelRow", "deleteFile", "deleteRow"}

Process == [pc : Calls, op : {"none", "create", "retry", "cancel", "remove", "process"},
            imp : Imports \cup {None}, job : Jobs \cup {None}, ent : Row \cup {NoRow}]
Idle == [pc |-> "idle", op |-> "none", imp |-> None, job |-> None, ent |-> NoRow]

TypeOK ==
    /\ rows \in [Imports -> Row \cup {NoRow}]
    /\ fresh \subseteq Imports
    /\ files \subseteq Imports
    /\ jobs \in [Jobs -> Job]
    /\ commits \in [Imports -> Nat]
    /\ proc \in [Procs -> Process]
    /\ batch \subseteq Imports
    /\ sweeping \in Imports \cup {None}
    /\ retries \in Nat
    /\ faults \in Nat

Init ==
    /\ rows = [i \in Imports |-> NoRow]
    /\ fresh = Imports
    /\ files = {}
    /\ jobs = [j \in Jobs |-> [imp |-> None, state |-> "free"]]
    /\ commits = [i \in Imports |-> 0]
    /\ proc = [p \in Procs |-> Idle]
    /\ batch = {}
    /\ sweeping = None
    /\ retries = 0
    /\ faults = 0

Exists(i) == rows[i] # NoRow

\* Mutant: the index covers only the imports that have completed.
IndexRefusesCompleted(i, s) ==
    /\ s \in DoneStatuses
    /\ \E k \in Imports \ {i} : Key[k] = Key[i] /\ rows[k].status \in DoneStatuses

\* The unique index forbids import i to take status s.
IndexRefuses(i, s) ==
    /\ s \in IndexedStatuses
    /\ \E k \in Imports \ {i} : Key[k] = Key[i] /\ rows[k].status \in IndexedStatuses

-----------------------------------------------------------------------------
(* The synchronous code that follows an await.  Each part says where the   *)
(* process goes next and what becomes of the job of a worker.              *)

Goto(p, call) ==
    /\ proc' = [proc EXCEPT ![p].pc = call]
    /\ UNCHANGED jobs

\* The handler returns or throws to its caller; a worker's job is over.
Finish(p) ==
    /\ proc' = [proc EXCEPT ![p] = Idle]
    /\ jobs' = IF p \in Workers
                 THEN [jobs EXCEPT ![proc[p].job] = [@ EXCEPT !.state = "done"]]
                 ELSE jobs

SaveStatus(p, s) ==
    /\ proc' = [proc EXCEPT ![p].pc = "save", ![p].ent = [@ EXCEPT !.status = s]]
    /\ UNCHANGED jobs

\* Mutant: the error is logged and the import is left as it is.
FailQuietly(p) == Finish(p)

\* ImportsService.fail: it gives up when the entity in memory can no longer
\* become FAILED, and otherwise saves the whole entity.
Fail(p) ==
    LET s == proc[p].ent.status IN
    IF s = "FAILED" \/ canTransition(s, "FAILED") THEN SaveStatus(p, "FAILED") ELSE Finish(p)

\* ImportsService.transition: the entity changes before save is awaited.
Transition(p, s) ==
    IF canTransition(proc[p].ent.status, s) THEN SaveStatus(p, s) ELSE Fail(p)

At(p, call) == proc[p].pc = call

\* Shorthands for what a step leaves alone.
Bounds == <<retries, faults>>
Cleaner == <<batch, sweeping>>
-----------------------------------------------------------------------------
(* create                                                                  *)

\* The upload interceptor has stored the file when create is entered.
BeginCreate(p) ==
    /\ At(p, "idle") /\ "create" \in Operations
    /\ \E i \in fresh :
         /\ fresh' = fresh \ {i}
         /\ files' = files \cup {i}
         /\ proc' = [proc EXCEPT ![p] = [Idle EXCEPT !.pc = "check", !.op = "create", !.imp = i]]
    /\ UNCHANGED <<rows, jobs, commits, Cleaner, Bounds>>

\* assertNotDuplicate; a duplicate is refused and leaves its file behind.
Check(p) ==
    /\ At(p, "check")
    /\ IF \E k \in Imports : Key[k] = Key[proc[p].imp] /\ rows[k].status \in ActiveStatuses
         THEN Finish(p)
         ELSE Goto(p, "insert")
    /\ UNCHANGED <<rows, fresh, files, commits, Cleaner, Bounds>>

\* The index does not cover UPLOADED, so the insert cannot collide.
Insert(p) ==
    LET new == [status |-> "UPLOADED", job |-> None, fileDeleted |-> FALSE] IN
    /\ At(p, "insert")
    /\ rows' = [rows EXCEPT ![proc[p].imp] = new]
    /\ proc' = [proc EXCEPT ![p].pc = "uploadAudit", ![p].ent = new]
    /\ UNCHANGED <<fresh, files, jobs, commits, Cleaner, Bounds>>

UploadAudit(p) ==
    /\ At(p, "uploadAudit")
    /\ Transition(p, "VALIDATING")
    /\ UNCHANGED <<rows, fresh, files, commits, Cleaner, Bounds>>

\* repository.save(entity), then what its caller does next.
Save(p) ==
    LET e == proc[p].ent IN
    /\ At(p, "save")
    /\ ~IndexRefuses(proc[p].imp, e.status)
    /\ rows' = [rows EXCEPT ![proc[p].imp] = e]
    /\ CASE e.status = "VALIDATING" -> Goto(p, "prepare")
         [] e.status = "QUEUED"     -> Goto(p, "count")
         [] e.status = "PROCESSING" -> Goto(p, "copy")
         [] OTHER                   -> Finish(p)
    /\ UNCHANGED <<fresh, files, commits, Cleaner, Bounds>>

\* The save violates the unique index.
SaveRefused(p) ==
    /\ At(p, "save")
    /\ IndexRefuses(proc[p].imp, proc[p].ent.status)
    /\ Fail(p)
    /\ UNCHANGED <<rows, fresh, files, commits, Cleaner, Bounds>>
-----------------------------------------------------------------------------
(* prepare and execute, in a request or in a worker                        *)

Prepare(p) ==
    /\ At(p, "prepare")
    /\ proc[p].imp \in files
    /\ IF proc[p].op = "process"
         THEN Goto(p, "copy")
         ELSE Transition(p, IF proc[p].imp \in Large THEN "QUEUED" ELSE "PROCESSING")
    /\ UNCHANGED <<rows, fresh, files, commits, Cleaner, Bounds>>

\* The file is missing, or its header, mapping or target is refused.
PrepareThrows(p) ==
    /\ At(p, "prepare")
    /\ Fail(p)
    /\ UNCHANGED <<rows, fresh, files, commits, Cleaner, Bounds>>

\* COPY commits.  Flexible mode may have skipped invalid rows.
Copy(p) ==
    /\ At(p, "copy")
    /\ proc[p].imp \in files
    /\ commits' = [commits EXCEPT ![proc[p].imp] = @ + 1]
    /\ Goto(p, "rowErrors") \/ Transition(p, "COMPLETED")
    /\ UNCHANGED <<rows, fresh, files, Cleaner, Bounds>>

\* Mutant: flexible mode takes a COPY that was rolled back for skipped rows.
CopyThrowsIgnored(p) ==
    /\ At(p, "copy")
    /\ Transition(p, "PARTIALLY_COMPLETED")
    /\ UNCHANGED <<rows, fresh, files, commits, Cleaner, Bounds>>

\* COPY is rolled back: missing file, strict mode, constraint, timeout.
CopyThrows(p) ==
    /\ At(p, "copy")
    /\ Fail(p)
    /\ UNCHANGED <<rows, fresh, files, commits, Cleaner, Bounds>>

\* The skipped rows are recorded after the COPY transaction; the foreign key
\* needs the import's row.
SaveRowErrors(p) ==
    /\ At(p, "rowErrors")
    /\ IF Exists(proc[p].imp) THEN Transition(p, "PARTIALLY_COMPLETED") ELSE Fail(p)
    /\ UNCHANGED <<rows, fresh, files, commits, Cleaner, Bounds>>
-----------------------------------------------------------------------------
(* enqueue                                                                 *)

Pending == {j \in Jobs : jobs[j].state \in {"waiting", "active"}}

CountJobs(p) ==
    /\ At(p, "count")
    /\ IF Cardinality(Pending) >= MaxActiveJobs THEN Fail(p) ELSE Goto(p, "add")
    /\ UNCHANGED <<rows, fresh, files, commits, Cleaner, Bounds>>

\* Mutant: the id of a finished job is used again.
AddJobAgain(p) ==
    /\ At(p, "add")
    /\ \E j \in Jobs \ Pending :
         /\ jobs' = [jobs EXCEPT ![j] = [imp |-> proc[p].imp, state |-> "waiting"]]
         /\ proc' = [proc EXCEPT ![p].pc = "attach", ![p].job = j]
    /\ UNCHANGED <<rows, fresh, files, commits, Cleaner, Bounds>>

AddJob(p) ==
    /\ At(p, "add")
    /\ \E j \in Jobs :
         /\ jobs[j].state = "free"
         /\ jobs' = [jobs EXCEPT ![j] = [imp |-> proc[p].imp, state |-> "waiting"]]
         /\ proc' = [proc EXCEPT ![p].pc = "attach", ![p].job = j]
    /\ UNCHANGED <<rows, fresh, files, commits, Cleaner, Bounds>>

\* Mutant: a row that is no longer QUEUED is an error.
AttachOrFail(p) ==
    LET i == proc[p].imp IN
    /\ At(p, "attach")
    /\ IF rows[i].status = "QUEUED"
         THEN /\ rows' = [rows EXCEPT ![i] = [@ EXCEPT !.job = proc[p].job]]
              /\ proc' = [proc EXCEPT ![p].pc = "queuedAudit", ![p].ent = [@ EXCEPT !.job = proc[p].job]]
              /\ UNCHANGED jobs
         ELSE Goto(p, "withdraw") /\ UNCHANGED rows
    /\ UNCHANGED <<fresh, files, commits, Cleaner, Bounds>>

\* queueJobId is set only while the row is still QUEUED.
Attach(p) ==
    LET i == proc[p].imp IN
    /\ At(p, "attach")
    /\ IF rows[i].status = "QUEUED"
         THEN /\ rows' = [rows EXCEPT ![i] = [@ EXCEPT !.job = proc[p].job]]
              /\ proc' = [proc EXCEPT ![p].pc = "queuedAudit", ![p].ent = [@ EXCEPT !.job = proc[p].job]]
              /\ UNCHANGED jobs
         ELSE Goto(p, "reload") /\ UNCHANGED rows
    /\ UNCHANGED <<fresh, files, commits, Cleaner, Bounds>>

Reload(p) ==
    LET i == proc[p].imp IN
    /\ At(p, "reload")
    /\ IF Exists(i)
         THEN /\ proc' = [proc EXCEPT ![p].pc = "queuedAudit", ![p].ent = rows[i]]
              /\ UNCHANGED jobs
         ELSE Goto(p, "withdraw")
    /\ UNCHANGED <<rows, fresh, files, commits, Cleaner, Bounds>>

\* The new job is cancelled, if no worker has it, and fail saves the import:
\* the entity of a process that has just queued it is still QUEUED.
Withdraw(p) ==
    LET j == proc[p].job IN
    /\ At(p, "withdraw")
    /\ jobs' = IF jobs[j].state = "waiting" THEN [jobs EXCEPT ![j] = [@ EXCEPT !.state = "done"]] ELSE jobs
    /\ proc' = [proc EXCEPT ![p].pc = "save", ![p].ent = [@ EXCEPT !.status = "FAILED"]]
    /\ UNCHANGED <<rows, fresh, files, commits, Cleaner, Bounds>>

QueuedAudit(p) ==
    /\ At(p, "queuedAudit")
    /\ Finish(p)
    /\ UNCHANGED <<rows, fresh, files, commits, Cleaner, Bounds>>
-----------------------------------------------------------------------------
(* processQueued                                                           *)

TakeJob(p) ==
    /\ p \in Workers /\ At(p, "idle")
    /\ \E j \in Jobs :
         /\ jobs[j].state = "waiting"
         /\ jobs' = [jobs EXCEPT ![j] = [@ EXCEPT !.state = "active"]]
         /\ proc' = [proc EXCEPT ![p] = [Idle EXCEPT !.pc = "claim", !.op = "process",
                                                     !.imp = jobs[j].imp, !.job = j]]
    /\ UNCHANGED <<rows, fresh, files, commits, Cleaner, Bounds>>

\* Mutant: the claim does not look at the status.
ClaimAny(p) ==
    /\ At(p, "claim")
    /\ rows' = [rows EXCEPT ![proc[p].imp] = [@ EXCEPT !.status = "PROCESSING"]]
    /\ Goto(p, "load")
    /\ UNCHANGED <<fresh, files, commits, Cleaner, Bounds>>

Claim(p) ==
    LET i == proc[p].imp IN
    /\ At(p, "claim")
    /\ IF rows[i].status = "QUEUED"
         THEN rows' = [rows EXCEPT ![i] = [@ EXCEPT !.status = "PROCESSING"]] /\ Goto(p, "load")
         ELSE Finish(p) /\ UNCHANGED rows
    /\ UNCHANGED <<fresh, files, commits, Cleaner, Bounds>>

Load(p) ==
    LET i == proc[p].imp IN
    /\ At(p, "load")
    /\ IF Exists(i)
         THEN /\ proc' = [proc EXCEPT ![p].pc = "prepare",
                                      ![p].ent = [rows[i] EXCEPT !.status = "PROCESSING"]]
              /\ UNCHANGED jobs
         ELSE Finish(p)
    /\ UNCHANGED <<rows, fresh, files, commits, Cleaner, Bounds>>
-----------------------------------------------------------------------------
(* retry, cancel, remove: a request that is refused on arrival changes     *)
(* nothing and is not a step.                                              *)

BeginOn(p, o, statuses, call) ==
    /\ p \in Requests /\ At(p, "idle") /\ o \in Operations
    /\ \E i \in Imports :
         /\ rows[i].status \in statuses
         /\ proc' = [proc EXCEPT ![p] = [Idle EXCEPT !.pc = call, !.op = o, !.imp = i, !.ent = rows[i]]]
    /\ UNCHANGED <<rows, fresh, files, jobs, commits, Cleaner, faults>>

BeginRetry(p) ==
    /\ retries < MaxRetries
    /\ retries' = retries + 1
    /\ BeginOn(p, "retry", RetryableStatuses, "exists")

BeginCancel(p) == BeginOn(p, "cancel", {"QUEUED"}, "unqueue") /\ UNCHANGED retries

BeginRemove(p) == BeginOn(p, "remove", RemovableStatuses, "deleteFile") /\ UNCHANGED retries

FileExists(p) ==
    /\ At(p, "exists")
    /\ IF proc[p].imp \in files THEN Goto(p, "requeue") ELSE Finish(p)
    /\ UNCHANGED <<rows, fresh, files, commits, Cleaner, Bounds>>

\* Mutant: the status is not compared with the one retry read.
RequeueAny(p) ==
    LET i == proc[p].imp IN
    /\ At(p, "requeue")
    /\ IF ~IndexRefuses(i, "QUEUED")
         THEN /\ rows' = [rows EXCEPT ![i] = [@ EXCEPT !.status = "QUEUED"]]
              /\ proc' = [proc EXCEPT ![p].pc = "count", ![p].ent = [@ EXCEPT !.status = "QUEUED"]]
              /\ UNCHANGED jobs
         ELSE Finish(p) /\ UNCHANGED rows
    /\ UNCHANGED <<fresh, files, commits, Cleaner, Bounds>>

\* Mutant: an import that has a job is not enqueued again.
RequeueOnce(p) ==
    LET i == proc[p].imp IN
    /\ At(p, "requeue")
    /\ IF rows[i].status = proc[p].ent.status /\ ~IndexRefuses(i, "QUEUED")
         THEN /\ rows' = [rows EXCEPT ![i] = [@ EXCEPT !.status = "QUEUED"]]
              /\ proc' = [proc EXCEPT ![p].pc = IF rows[i].job # None
                                                 THEN "queuedAudit" ELSE "count",
                                      ![p].ent = [@ EXCEPT !.status = "QUEUED"]]
              /\ UNCHANGED jobs
         ELSE Finish(p) /\ UNCHANGED rows
    /\ UNCHANGED <<fresh, files, commits, Cleaner, Bounds>>

\* UPDATE ... WHERE status is the one retry read; the index may refuse it.
Requeue(p) ==
    LET i == proc[p].imp IN
    /\ At(p, "requeue")
    /\ IF rows[i].status = proc[p].ent.status /\ ~IndexRefuses(i, "QUEUED")
         THEN /\ rows' = [rows EXCEPT ![i] = [@ EXCEPT !.status = "QUEUED"]]
              /\ proc' = [proc EXCEPT ![p].pc = "count", ![p].ent = [@ EXCEPT !.status = "QUEUED"]]
              /\ UNCHANGED jobs
         ELSE Finish(p) /\ UNCHANGED rows
    /\ UNCHANGED <<fresh, files, commits, Cleaner, Bounds>>

\* queue.cancel: a job that a worker holds cannot be removed and throws.
Unqueue(p) ==
    LET j == proc[p].ent.job IN
    /\ At(p, "unqueue")
    /\ IF j # None /\ jobs[j].state = "active"
         THEN Finish(p)
         ELSE /\ proc' = [proc EXCEPT ![p].pc = "cancelRow"]
              /\ jobs' = IF j = None THEN jobs ELSE [jobs EXCEPT ![j] = [@ EXCEPT !.state = "done"]]
    /\ UNCHANGED <<rows, fresh, files, commits, Cleaner, Bounds>>

\* Mutant: the row is cancelled whatever its status has become.
CancelAnyRow(p) ==
    /\ At(p, "cancelRow")
    /\ rows' = [rows EXCEPT ![proc[p].imp] = [@ EXCEPT !.status = "CANCELLED"]]
    /\ Finish(p)
    /\ UNCHANGED <<fresh, files, commits, Cleaner, Bounds>>

CancelRow(p) ==
    LET i == proc[p].imp IN
    /\ At(p, "cancelRow")
    /\ rows' = IF rows[i].status = "QUEUED" THEN [rows EXCEPT ![i] = [@ EXCEPT !.status = "CANCELLED"]] ELSE rows
    /\ Finish(p)
    /\ UNCHANGED <<fresh, files, commits, Cleaner, Bounds>>

DeleteFile(p) ==
    /\ At(p, "deleteFile")
    /\ files' = files \ {proc[p].imp}
    /\ Goto(p, "deleteRow")
    /\ UNCHANGED <<rows, fresh, commits, Cleaner, Bounds>>

DeleteRow(p) ==
    /\ At(p, "deleteRow")
    /\ rows' = [rows EXCEPT ![proc[p].imp] = NoRow]
    /\ Finish(p)
    /\ UNCHANGED <<fresh, files, commits, Cleaner, Bounds>>
-----------------------------------------------------------------------------
(* The file cleaner.  Any set of expirable rows may be older than the      *)
(* retention time when it looks.                                           *)

StartSweep ==
    /\ "sweep" \in Operations
    /\ batch = {} /\ sweeping = None
    /\ batch' \in SUBSET {i \in Imports : rows[i].status \in ExpirableStatuses
                                          /\ ~rows[i].fileDeleted} \ {{}}
    /\ UNCHANGED <<rows, fresh, files, jobs, commits, proc, sweeping, Bounds>>

SweepFile ==
    /\ sweeping = None
    /\ \E i \in batch :
         /\ files' = files \ {i}
         /\ sweeping' = i
         /\ batch' = batch \ {i}
    /\ UNCHANGED <<rows, fresh, jobs, commits, proc, Bounds>>

\* Mutant: the row is not checked to be still there.
SweepAnyRow ==
    /\ sweeping # None
    /\ rows' = [rows EXCEPT ![sweeping] = [@ EXCEPT !.fileDeleted = TRUE]]
    /\ sweeping' = None
    /\ UNCHANGED <<fresh, files, jobs, commits, proc, batch, Bounds>>

SweepRow ==
    /\ sweeping # None
    /\ rows' = IF Exists(sweeping) THEN [rows EXCEPT ![sweeping] = [@ EXCEPT !.fileDeleted = TRUE]] ELSE rows
    /\ sweeping' = None
    /\ UNCHANGED <<fresh, files, jobs, commits, proc, batch, Bounds>>
-----------------------------------------------------------------------------
(* Faults: a call fails, the process dies.                                 *)

Fault == faults < MaxFaults /\ faults' = faults + 1

\* The awaited call throws without effect and the code's handlers run.
\* (prepare and copy may throw without any fault, see above.)
CallThrows(p) ==
    /\ Fault
    /\ CASE proc[p].pc \in {"check", "insert", "uploadAudit", "claim", "load", "exists",
                            "requeue", "unqueue", "cancelRow", "deleteFile", "deleteRow"}
              -> Finish(p)
         [] At(p, "save")
              -> IF proc[p].ent.status = "FAILED" THEN Finish(p) ELSE Fail(p)
         [] At(p, "queuedAudit")
              -> IF proc[p].op = "create" THEN Fail(p) ELSE Finish(p)
         [] proc[p].pc \in {"rowErrors", "count", "add", "withdraw"} -> Fail(p)
         [] proc[p].pc \in {"attach", "reload"} -> Goto(p, "withdraw")
         [] OTHER -> FALSE
    /\ UNCHANGED <<rows, fresh, files, commits, Cleaner, retries>>

\* COPY commits but its acknowledgement is lost with the connection.
CommitLost(p) ==
    /\ Fault
    /\ At(p, "copy") /\ proc[p].imp \in files
    /\ commits' = [commits EXCEPT ![proc[p].imp] = @ + 1]
    /\ Fail(p)
    /\ UNCHANGED <<rows, fresh, files, Cleaner, retries>>

SweepThrows ==
    /\ Fault
    /\ batch # {} \/ sweeping # None
    /\ batch' = {} /\ sweeping' = None
    /\ UNCHANGED <<rows, fresh, files, jobs, commits, proc, retries>>

\* The API process dies and restarts; BullMQ gives the jobs that were active
\* back to a worker, or fails one that has stalled before.
Crash ==
    /\ Fault
    /\ proc' = [p \in Procs |-> Idle]
    /\ \E stalled \in SUBSET Jobs :
         jobs' = [j \in Jobs |->
                    IF jobs[j].state = "active"
                      THEN [jobs[j] EXCEPT !.state = IF j \in stalled THEN "done" ELSE "waiting"]
                      ELSE jobs[j]]
    /\ batch' = {} /\ sweeping' = None
    /\ UNCHANGED <<rows, fresh, files, commits, retries>>
-----------------------------------------------------------------------------
Begin(p) == BeginCreate(p) \/ BeginRetry(p) \/ BeginCancel(p) \/ BeginRemove(p)

Step(p) ==
    \/ Check(p) \/ Insert(p) \/ UploadAudit(p) \/ Save(p) \/ SaveRefused(p)
    \/ Prepare(p) \/ PrepareThrows(p) \/ Copy(p) \/ CopyThrows(p) \/ SaveRowErrors(p)
    \/ CountJobs(p) \/ AddJob(p) \/ Attach(p) \/ Reload(p) \/ Withdraw(p) \/ QueuedAudit(p)
    \/ TakeJob(p) \/ Claim(p) \/ Load(p)
    \/ FileExists(p) \/ Requeue(p) \/ Unqueue(p) \/ CancelRow(p)
    \/ DeleteFile(p) \/ DeleteRow(p)

Sweep == StartSweep \/ SweepFile \/ SweepRow

Faults == (\E p \in Procs : CallThrows(p) \/ CommitLost(p)) \/ SweepThrows \/ Crash

\* Nobody is doing anything: the service waits for the next request.
Waiting ==
    /\ \A p \in Procs : At(p, "idle")
    /\ \A j \in Jobs : jobs[j].state # "waiting"
    /\ UNCHANGED vars

Next ==
    \/ \E p \in Requests : Begin(p)
    \/ \E p \in Procs : Step(p)
    \/ Sweep
    \/ Faults
    \/ Waiting

Spec == Init /\ [][Next]_vars

\* Every awaited call returns or throws (statement and connection timeouts)
\* and BullMQ hands a waiting job to an idle worker.  Clients and the cleaner
\* owe nothing.
LiveSpec == Spec /\ \A p \in Procs : WF_vars(Step(p))
-----------------------------------------------------------------------------
(* What holds whatever fails.                                              *)

\* An import is shown as completed, wholly or partly, only when a COPY of its
\* file has committed; stale entities written over the row cannot forge it.
CompletedHasRows ==
    \A i \in Imports : rows[i].status \in DoneStatuses => commits[i] > 0

\* Whatever fails, and however often the queue gives a job back after a crash,
\* an import is loaded at most once for its upload and once for each retry: the
\* claim takes it out of QUEUED, and no stale entity puts it back there.
LoadedOncePerRequest == \A i \in Imports : commits[i] <= 1 + retries

\* The job a row points at was enqueued for that import, so that cancelling
\* an import never removes the job of another one.
JobIsOwn ==
    \A i \in Imports : rows[i].job # None => jobs[rows[i].job].imp = i

\* A process is loading import i: a worker that has claimed it, or the create
\* request that imports a small file by itself.
Loading(p, i) ==
    /\ proc[p].imp = i
    /\ \/ proc[p].op = "process" /\ ~At(p, "claim")
       \/ proc[p].pc \in {"copy", "rowErrors"}
       \/ At(p, "save") /\ proc[p].ent.status \in DoneStatuses
-----------------------------------------------------------------------------
(* What holds while nothing fails, the queue has room and clients create,  *)
(* retry and cancel.                                                       *)

\* One process at a time loads an import: the claim is exclusive.
SingleLoader ==
    \A p, q \in Procs : \A i \in Imports : Loading(p, i) /\ Loading(q, i) => p = q

\* A process loads an import only while its row says PROCESSING: no request
\* writes a stale entity over the claim of a worker.
LoaderOwnsRow ==
    \A p \in Procs, i \in Imports : Loading(p, i) => rows[i].status = "PROCESSING"

\* The rows of an import are committed once it is done, and none of them
\* before: a failed or cancelled import has nothing in the target table.
AllOrNothing ==
    \A i \in Imports :
        /\ commits[i] <= 1
        /\ rows[i].status \in DoneStatuses => commits[i] = 1
        /\ rows[i].status \in Status \ (DoneStatuses \cup {"PROCESSING"}) => commits[i] = 0

\* The same file is never put twice in the same table.
NoDoubleImport ==
    \A i, k \in Imports : Key[i] = Key[k] /\ commits[i] > 0 /\ commits[k] > 0 => i = k

\* A queued import cannot be forgotten: a job of its own waits or is held by
\* a worker, or a request is about to enqueue one or to settle its row.
QueuedIsServed ==
    \A i \in Imports : rows[i].status = "QUEUED" =>
        \/ \E j \in Pending : jobs[j].imp = i
        \/ \E p \in Requests : proc[p].imp = i /\ ~At(p, "idle")

\* A queued import leaves the queue, and one being loaded comes to an end.
QueuedIsSettled == \A i \in Imports : rows[i].status = "QUEUED" ~> rows[i].status # "QUEUED"
ProcessingEnds == \A i \in Imports : rows[i].status = "PROCESSING" ~> rows[i].status # "PROCESSING"

\* The service implements the lifecycle it promises.
Promise == INSTANCE ImportLifecycle WITH
    status <- [i \in Imports |-> rows[i].status],
    loaded <- [i \in Imports |-> commits[i] > 0]

Lifecycle == Promise!Spec
-----------------------------------------------------------------------------
(* What the documents and tests of the repository say and the code does    *)
(* not do.                                                                 *)

\* "Make it impossible to import the same file content twice" by "retry, or a
\* race between two concurrent requests" (duplicate protection plan): a retry
\* that finds the queue full saves FAILED over the claim of a worker, and the
\* next retry imports the file again.
ImportedOnce == \A i \in Imports : commits[i] <= 1
=============================================================================
