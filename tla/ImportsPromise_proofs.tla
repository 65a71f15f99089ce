------------------------ MODULE ImportsPromise_proofs ------------------------
(***************************************************************************)
(* What Imports promises while no call fails and the queue has room: one   *)
(* process at a time loads an import, its rows arrive once or not at all,  *)
(* a queued import is not forgotten, and the service implements            *)
(* ImportLifecycle; for every number of uploads, requests, workers, jobs   *)
(* and retries.                                                            *)
(***************************************************************************)
EXTENDS Imports_proofs

(* Nothing fails and history is not deleted.                               *)
FaultFree == MaxFaults = 0 /\ "remove" \notin Operations

(* An import that is being enqueued finds room in the queue.  A retry that *)
(* does not saves FAILED over whatever a worker has made of its import:    *)
(* the run imports_twice shows what comes of that.                         *)
Room == ~(Cardinality(Pending) >= MaxActiveJobs)

(* The inductive invariant.  A process holds an import while it creates    *)
(* it, up to its queueing, and from the claim of a worker on.  Only the    *)
(* holder knows the status of the row, and only it saves an entity.        *)
Creating(p) ==
    /\ proc[p].op = "create"
    /\ proc[p].pc \in {"check", "insert", "uploadAudit", "save", "prepare", "copy", "rowErrors"}
Claimed(p) == proc[p].op = "process" /\ proc[p].pc # "claim"
Holds(p) == Creating(p) \/ Claimed(p)

Enqueuing == {"count", "add", "attach", "reload", "queuedAudit"}

\* Which calls a handler awaits, and what it knows of its job and its row.
ShapeOK(p) ==
    /\ proc[p].op = "none" <=> proc[p].pc = "idle"
    /\ proc[p].op = "create" => p \in Requests /\ (Creating(p) \/ proc[p].pc \in Enqueuing)
    /\ proc[p].op = "retry" => p \in Requests /\ proc[p].pc \in {"exists", "requeue"} \cup Enqueuing
    /\ proc[p].op = "cancel" => p \in Requests /\ proc[p].pc \in {"unqueue", "cancelRow"}
    /\ proc[p].op = "process" =>
         /\ p \in Workers
         /\ proc[p].pc \in {"claim", "load", "prepare", "copy", "rowErrors", "save"}
         /\ proc[p].job \in Jobs /\ jobs[proc[p].job].imp = proc[p].imp
    /\ proc[p].op \in {"none", "create", "retry", "cancel", "process"}
    /\ proc[p].pc \in {"exists", "requeue"} => proc[p].ent.status \in RetryableStatuses
    /\ proc[p].pc \in Enqueuing => rows[proc[p].imp].status # "NONE"

\* The holder has committed rows only when it is about to say so.
Committed(p) ==
    proc[p].pc = "rowErrors" \/ (proc[p].pc = "save" /\ proc[p].ent.status \in DoneStatuses)

\* What a holder knows of its row.
HeldOK(p) ==
    LET s == rows[proc[p].imp].status
        e == proc[p].ent.status IN
    Holds(p) =>
        /\ proc[p].op = "process" => s = "PROCESSING"
        /\ proc[p].pc \in {"check", "insert"} => s = "NONE"
        /\ proc[p].pc = "uploadAudit" => s = "UPLOADED" /\ e = "UPLOADED"
        /\ proc[p].pc = "prepare" =>
             s = e /\ s = IF proc[p].op = "create" THEN "VALIDATING" ELSE "PROCESSING"
        /\ proc[p].pc \in {"copy", "rowErrors"} => s = "PROCESSING" /\ e = "PROCESSING"
        /\ proc[p].pc = "save" => s \in {"UPLOADED", "VALIDATING", "PROCESSING"} /\ canTransition(s, e)
        /\ commits[proc[p].imp] = IF Committed(p) THEN 1 ELSE 0

OneHolder == \A p, q \in Procs : Holds(p) /\ Holds(q) /\ proc[p].imp = proc[q].imp => p = q

FreshOK == \A i \in fresh : rows[i].status = "NONE" /\ \A p \in Procs : Holds(p) => proc[p].imp # i

CommitsOK(i) ==
    /\ commits[i] <= 1
    /\ rows[i].status \in DoneStatuses => commits[i] = 1
    /\ rows[i].status \notin DoneStatuses \cup {"PROCESSING"} => commits[i] = 0

Alone ==
    /\ \A p \in Procs : ShapeOK(p) /\ HeldOK(p)
    /\ OneHolder
    /\ FreshOK
    /\ \A i \in Imports : CommitsOK(i)

\* A queued import has a job that waits or runs, or a request will give it one
\* or take it out of the queue.
Serves(p, i) == proc[p].imp = i /\ proc[p].pc \in {"count", "add", "cancelRow"}
HasJob(i) == \E j \in Jobs : jobs[j].imp = i /\ jobs[j].state \in {"waiting", "active"}
Served == \A i \in Imports : rows[i].status = "QUEUED" => HasJob(i) \/ \E p \in Requests : Serves(p, i)

PInv == IInv /\ OneActivePerKey /\ Alone /\ Served

USE ConstantsAssumption DEF At, Exists, Cleaner, Bounds, NoEntity
-----------------------------------------------------------------------------
(* The statuses.                                                           *)

\* The transition table, row by row.
LEMMA Transitions ==
    /\ \A t : canTransition("UPLOADED", t) <=> t \in {"VALIDATING", "FAILED"}
    /\ \A t : canTransition("VALIDATING", t) <=> t \in {"QUEUED", "PROCESSING", "FAILED"}
    /\ \A t : canTransition("QUEUED", t) <=> t \in {"PROCESSING", "FAILED", "CANCELLED"}
    /\ \A t : canTransition("PROCESSING", t) <=> t \in {"COMPLETED", "PARTIALLY_COMPLETED", "FAILED"}
    /\ \A t : canTransition("FAILED", t) <=> t = "QUEUED"
    /\ \A t : canTransition("CANCELLED", t) <=> t = "QUEUED"
BY DEF canTransition, allowedTransitions, Status

-----------------------------------------------------------------------------
(* What the synchronous code after an await does to its process.           *)

\* p goes on to another call, or, with its status, to save its entity.
Shifts(p, pc, s) ==
    /\ \A q \in Procs \ {p} : proc'[q] = proc[q]
    /\ jobs' = jobs
    /\ proc'[p].pc = pc /\ proc'[p].ent.status = s
    /\ proc'[p].op = proc[p].op /\ proc'[p].imp = proc[p].imp /\ proc'[p].job = proc[p].job

\* The handler of p is over, and with it the job of a worker.
Ends(p) ==
    /\ \A q \in Procs \ {p} : proc'[q] = proc[q]
    /\ proc'[p].pc = "idle" /\ proc'[p].op = "none"
    /\ \A j \in Jobs : jobs'[j].imp = jobs[j].imp
    /\ \A j \in Jobs : jobs'[j] = jobs[j] \/ (p \in Workers /\ j = proc[p].job)

\* Goto.
LEMMA GotoShifts ==
    ASSUME IInv, NEW p \in Procs, NEW pc, Goto(p, pc)
    PROVE  Shifts(p, pc, proc[p].ent.status)
BY DEF IInv, TypeOK, Process, Goto, Shifts

\* SaveStatus.
LEMMA SaveStatusShifts ==
    ASSUME IInv, NEW p \in Procs, NEW s \in Status, SaveStatus(p, s)
    PROVE  Shifts(p, "save", s)
<1>1. proc[p].ent \in Row \cup {NoRow}
  BY DEF IInv, TypeOK, Process
<1>2. [proc[p].ent EXCEPT !.status = s].status = s
  BY <1>1, EntityStatus
<1>3. proc'[p] = [proc[p] EXCEPT !.pc = "save", !.ent = [proc[p].ent EXCEPT !.status = s]]
  BY DEF IInv, TypeOK, SaveStatus
<1> HIDE DEF Row
<1>4. /\ proc'[p].ent = [proc[p].ent EXCEPT !.status = s] /\ proc'[p].pc = "save"
      /\ proc'[p].op = proc[p].op /\ proc'[p].imp = proc[p].imp /\ proc'[p].job = proc[p].job
  BY <1>3 DEF IInv, TypeOK, Process
<1> QED
  BY <1>2, <1>4 DEF IInv, TypeOK, SaveStatus, Shifts

\* Finish.
LEMMA FinishEnds ==
    ASSUME IInv, NEW p \in Procs, Finish(p)
    PROVE  Ends(p)
<1>1. proc'[p] = Idle /\ \A j \in Jobs : jobs'[j].imp = jobs[j].imp
  BY FinishJobs
<1>2. \A q \in Procs \ {p} : proc'[q] = proc[q]
  BY DEF IInv, TypeOK, Finish
<1>3. \A j \in Jobs : jobs'[j] = jobs[j] \/ (p \in Workers /\ j = proc[p].job)
  BY DEF IInv, TypeOK, Finish
<1> QED
  BY <1>1, <1>2, <1>3 DEF Idle, Ends

\* fail, of an entity that may still fail.
LEMMA FailShifts ==
    ASSUME IInv, NEW p \in Procs, Fail(p), canTransition(proc[p].ent.status, "FAILED")
    PROVE  Shifts(p, "save", "FAILED")
BY SaveStatusShifts, StatusNames DEF Fail

\* transition, of an entity that may take the status.
LEMMA TransitionShifts ==
    ASSUME IInv, NEW p \in Procs, NEW s \in Status, Transition(p, s), canTransition(proc[p].ent.status, s)
    PROVE  Shifts(p, "save", s)
BY SaveStatusShifts DEF Transition
-----------------------------------------------------------------------------
(* Who else may know of a row.                                             *)

\* Nobody but p holds import i.
Free(p, i) == \A q \in Procs \ {p} : Holds(q) => proc[q].imp # i

\* The statuses that no holder sees.
LEMMA FreeByStatus ==
    ASSUME Alone, NEW p \in Procs, NEW i \in Imports,
           rows[i].status \notin {"NONE", "UPLOADED", "VALIDATING", "PROCESSING"}
    PROVE  Free(p, i) /\ (Holds(p) => proc[p].imp # i)
<1> SUFFICES ASSUME NEW q \in Procs, Holds(q), proc[q].imp = i PROVE FALSE
  BY DEF Free
<1>1. ShapeOK(q) /\ HeldOK(q)
  BY DEF Alone
<1> QED
  BY <1>1 DEF ShapeOK, HeldOK, Holds, Creating, Claimed

\* Nobody else holds what p holds.
LEMMA FreeByHolding ==
    ASSUME Alone, NEW p \in Procs, Holds(p)
    PROVE  Free(p, proc[p].imp)
BY DEF Alone, OneHolder, Free

\* What a step leaves in place: the other processes, the imports of the jobs,
\* and that a row is there.
Stays(p) ==
    /\ \A q \in Procs \ {p} : proc'[q] = proc[q]
    /\ \A j \in Jobs : jobs[j].imp # None => jobs'[j].imp = jobs[j].imp
    /\ \A i \in Imports : rows'[i].status = "NONE" => rows[i].status = "NONE"

\* A step of p that touches status and commits of import i at most, when
\* nobody else holds it, leaves the others with what they know.
LEMMA OthersStayAlone ==
    ASSUME IInv, Alone, NEW p \in Procs, NEW i \in Imports, Stays(p),
           \A k \in Imports \ {i} : rows'[k].status = rows[k].status /\ commits'[k] = commits[k],
           Free(p, i) \/ (rows'[i].status = rows[i].status /\ commits'[i] = commits[i]),
           NEW q \in Procs \ {p}
    PROVE  ShapeOK(q)' /\ HeldOK(q)' /\ (Holds(q)' <=> Holds(q)) /\ proc'[q].imp = proc[q].imp
<1>1. ShapeOK(q) /\ HeldOK(q) /\ proc'[q] = proc[q]
  BY DEF Alone, Stays
<1>2. proc[q].pc # "idle" => proc[q].imp \in Imports
  BY DEF IInv, ProcOK
<1>3. ShapeOK(q)'
  BY <1>1, <1>2 DEF ShapeOK, Creating, Stays, Enqueuing
<1>4. Holds(q)' <=> Holds(q)
  BY <1>1 DEF Holds, Creating, Claimed
<1>5. CASE Holds(q)
  <2>1. proc[q].imp \in Imports
    BY <1>1, <1>2, <1>5 DEF Holds, Creating, Claimed, ShapeOK
  <2>2. rows'[proc[q].imp].status = rows[proc[q].imp].status /\ commits'[proc[q].imp] = commits[proc[q].imp]
    BY <1>5, <2>1 DEF Free
  <2>3. HeldOK(q)'
    BY <1>1, <2>2 DEF HeldOK, Holds, Creating, Claimed, Committed
  <2> QED
    BY <1>1, <1>3, <1>4, <2>3
<1>6. CASE ~Holds(q)
  BY <1>1, <1>3, <1>4, <1>6 DEF HeldOK
<1> QED
  BY <1>5, <1>6

\* A step of p that gives it no import and changes no status nor any commits.
LEMMA QuietKeeps ==
    ASSUME IInv, Alone, NEW p \in Procs, Stays(p), fresh' \subseteq fresh,
           \A k \in Imports : rows'[k].status = rows[k].status /\ commits'[k] = commits[k],
           ShapeOK(p)', HeldOK(p)', Holds(p)' => Holds(p) /\ proc'[p].imp = proc[p].imp
    PROVE  Alone'
<1>1. ASSUME NEW q \in Procs \ {p}
      PROVE  ShapeOK(q)' /\ HeldOK(q)' /\ (Holds(q)' <=> Holds(q)) /\ proc'[q].imp = proc[q].imp
  <2>1. CASE Imports # {}
    BY <2>1, OthersStayAlone
  <2>2. CASE Imports = {}
    <3>1. ShapeOK(q) /\ HeldOK(q) /\ proc'[q] = proc[q]
      BY DEF Alone, Stays
    <3>2. proc[q].pc = "idle"
      BY <2>2 DEF IInv, ProcOK
    <3> QED
      BY <3>1, <3>2 DEF ShapeOK, HeldOK, Holds, Creating, Claimed, Enqueuing
  <2> QED
    BY <2>1, <2>2
<1>2. OneHolder'
  BY <1>1 DEF Alone, OneHolder
<1>3. FreshOK'
  <2>1. fresh \subseteq Imports
    BY DEF IInv, TypeOK
  <2> QED
    BY <1>1, <2>1 DEF Alone, FreshOK
<1>4. \A k \in Imports : CommitsOK(k)'
  BY DEF Alone, CommitsOK
<1> QED
  BY <1>1, <1>2, <1>3, <1>4 DEF Alone

\* A step of p that changes import i, which nobody else holds.
LEMMA WriteKeepsAlone ==
    ASSUME IInv, Alone, NEW p \in Procs, NEW i \in Imports, Stays(p), fresh' \subseteq fresh, i \notin fresh',
           \A k \in Imports \ {i} : rows'[k].status = rows[k].status /\ commits'[k] = commits[k],
           Free(p, i), ShapeOK(p)', HeldOK(p)', Holds(p)' => proc'[p].imp = i, CommitsOK(i)'
    PROVE  Alone'
<1>1. ASSUME NEW q \in Procs \ {p}
      PROVE  ShapeOK(q)' /\ HeldOK(q)' /\ (Holds(q)' <=> Holds(q)) /\ proc'[q].imp = proc[q].imp
  BY OthersStayAlone
<1>2. OneHolder'
  BY <1>1 DEF Alone, OneHolder, Free
<1>3. FreshOK'
  <2>1. fresh \subseteq Imports
    BY DEF IInv, TypeOK
  <2> QED
    BY <1>1, <2>1 DEF Alone, FreshOK
<1>4. \A k \in Imports : CommitsOK(k)'
  BY DEF Alone, CommitsOK
<1> QED
  BY <1>1, <1>2, <1>3, <1>4 DEF Alone
-----------------------------------------------------------------------------
(* The steps that write no row, no COPY and no new upload.                 *)

\* What the invariant says of one process.
LEMMA Knows ==
    ASSUME IInv, Alone, NEW p \in Procs
    PROVE  /\ ShapeOK(p) /\ HeldOK(p)
           /\ proc[p].pc # "idle" => proc[p].imp \in Imports /\ CommitsOK(proc[p].imp)
           /\ proc[p].ent \in Row \cup {NoRow}
BY DEF Alone, IInv, ProcOK, TypeOK, Process

\* A handler that goes on without a write.
LEMMA ShiftsQuietly ==
    ASSUME IInv, Alone, NEW p \in Procs, NEW pc, NEW s, Shifts(p, pc, s), UNCHANGED <<rows, fresh, commits>>,
           ShapeOK(p)', HeldOK(p)', Holds(p)' => Holds(p)
    PROVE  Alone'
BY QuietKeeps DEF Shifts, Stays

\* A handler that is over without a write.
LEMMA EndsQuietly ==
    ASSUME IInv, Alone, NEW p \in Procs, Ends(p), UNCHANGED <<rows, fresh, commits>>
    PROVE  Alone'
<1>1. ShapeOK(p)' /\ HeldOK(p)' /\ ~Holds(p)'
  BY DEF Ends, ShapeOK, HeldOK, Holds, Creating, Claimed, Enqueuing
<1> QED
  BY <1>1, QuietKeeps DEF Ends, Stays

\* The calls of a holder that fail or succeed without a write.
LEMMA HolderSteps ==
    ASSUME IInv, Alone, OneActivePerKey, NEW p \in Procs,
           \/ Check(p) \/ UploadAudit(p) \/ SaveRefused(p) \/ Prepare(p) \/ PrepareThrows(p)
           \/ CopyThrows(p) \/ SaveRowErrors(p)
    PROVE  Alone'
<1> USE Knows, Transitions, StatusNames DEF ShapeOK, Holds, Creating, Claimed, Enqueuing
<1>1. CASE Check(p)
  <2>1. CASE Finish(p)
    BY <1>1, <2>1, FinishEnds, EndsQuietly DEF Check
  <2>2. CASE Goto(p, "insert")
    <3>1. Shifts(p, "insert", proc[p].ent.status) /\ UNCHANGED <<rows, fresh, commits>> /\ At(p, "check")
      BY <1>1, <2>2, GotoShifts DEF Check
    <3>2. ShapeOK(p)' /\ HeldOK(p)' /\ Holds(p)
      BY <3>1 DEF Shifts, HeldOK, Committed
    <3> QED
      BY <3>1, <3>2, ShiftsQuietly
  <2> QED
    BY <1>1, <2>1, <2>2 DEF Check
<1>2. CASE UploadAudit(p)
  <2>1. At(p, "uploadAudit") /\ proc[p].ent.status = "UPLOADED" /\ Holds(p)
    BY <1>2 DEF UploadAudit, HeldOK
  <2>2. Shifts(p, "save", "VALIDATING") /\ UNCHANGED <<rows, fresh, commits>>
    BY <1>2, <2>1, TransitionShifts DEF UploadAudit
  <2>3. ShapeOK(p)' /\ HeldOK(p)'
    BY <2>1, <2>2 DEF Shifts, HeldOK, Committed, DoneStatuses
  <2> QED
    BY <2>1, <2>2, <2>3, ShiftsQuietly
<1>3. CASE SaveRefused(p)
  <2>1. At(p, "save") /\ Holds(p) /\ IndexRefuses(proc[p].imp, proc[p].ent.status)
    BY <1>3 DEF SaveRefused
  <2>2. /\ rows[proc[p].imp].status \in {"UPLOADED", "VALIDATING", "PROCESSING"}
        /\ canTransition(rows[proc[p].imp].status, proc[p].ent.status)
    BY <2>1 DEF HeldOK
  <2>3. rows[proc[p].imp].status # "PROCESSING"
    BY <2>1, <2>2 DEF IndexRefuses, OneActivePerKey, IndexedStatuses
  <2>4. proc[p].ent.status \in {"QUEUED", "PROCESSING"} /\ rows[proc[p].imp].status = "VALIDATING"
    BY <2>1, <2>2, <2>3 DEF IndexRefuses, IndexedStatuses
  <2>5. Shifts(p, "save", "FAILED") /\ UNCHANGED <<rows, fresh, commits>>
    BY <1>3, <2>4, FailShifts DEF SaveRefused
  <2>6. ShapeOK(p)' /\ HeldOK(p)'
    BY <2>1, <2>4, <2>5 DEF Shifts, HeldOK, Committed, DoneStatuses
  <2> QED
    BY <2>1, <2>5, <2>6, ShiftsQuietly
<1>4. CASE Prepare(p)
  <2>1. /\ At(p, "prepare") /\ Holds(p) /\ rows[proc[p].imp].status = proc[p].ent.status
        /\ proc[p].ent.status = IF proc[p].op = "create" THEN "VALIDATING" ELSE "PROCESSING"
        /\ UNCHANGED <<rows, fresh, commits>>
    BY <1>4 DEF Prepare, HeldOK
  <2>2. CASE proc[p].op = "process"
    <3>1. Shifts(p, "copy", proc[p].ent.status)
      BY <1>4, <2>2, GotoShifts DEF Prepare
    <3>2. ShapeOK(p)' /\ HeldOK(p)'
      BY <2>1, <2>2, <3>1 DEF Shifts, HeldOK, Committed
    <3> QED
      BY <2>1, <3>1, <3>2, ShiftsQuietly
  <2>3. CASE proc[p].op = "create"
    <3>1. PICK s \in {"QUEUED", "PROCESSING"} : Shifts(p, "save", s)
      BY <1>4, <2>1, <2>3, TransitionShifts DEF Prepare
    <3>2. ShapeOK(p)' /\ HeldOK(p)'
      BY <2>1, <2>3, <3>1 DEF Shifts, HeldOK, Committed, DoneStatuses
    <3> QED
      BY <2>1, <3>1, <3>2, ShiftsQuietly
  <2> QED
    BY <2>1, <2>2, <2>3
<1>5. CASE PrepareThrows(p) \/ CopyThrows(p)
  <2>1. /\ proc[p].pc \in {"prepare", "copy"} /\ Holds(p) /\ rows[proc[p].imp].status = proc[p].ent.status
        /\ proc[p].ent.status \in {"VALIDATING", "PROCESSING"}
        /\ proc[p].op = "process" => proc[p].ent.status = "PROCESSING"
        /\ UNCHANGED <<rows, fresh, commits>>
    BY <1>5 DEF PrepareThrows, CopyThrows, HeldOK
  <2>2. Shifts(p, "save", "FAILED")
    BY <1>5, <2>1, FailShifts DEF PrepareThrows, CopyThrows
  <2>3. ShapeOK(p)' /\ HeldOK(p)'
    BY <2>1, <2>2 DEF Shifts, HeldOK, Committed, DoneStatuses
  <2> QED
    BY <2>1, <2>2, <2>3, ShiftsQuietly
<1>6. CASE SaveRowErrors(p)
  <2>1. /\ At(p, "rowErrors") /\ Holds(p) /\ rows[proc[p].imp].status = "PROCESSING"
        /\ proc[p].ent.status = "PROCESSING" /\ UNCHANGED <<rows, fresh, commits>>
    BY <1>6 DEF SaveRowErrors, HeldOK
  <2>2. Shifts(p, "save", "PARTIALLY_COMPLETED")
    BY <1>6, <2>1, TransitionShifts DEF SaveRowErrors, NoRow
  <2>3. ShapeOK(p)' /\ HeldOK(p)'
    BY <2>1, <2>2 DEF Shifts, HeldOK, Committed, DoneStatuses
  <2> QED
    BY <2>1, <2>2, <2>3, ShiftsQuietly
<1> QED
  BY <1>1, <1>2, <1>3, <1>4, <1>5, <1>6

\* A handler that awaits one of these calls holds no import.
LEMMA EnqueuerSteps ==
    ASSUME Room, IInv, Alone, NEW p \in Procs,
           CountJobs(p) \/ QueuedAudit(p) \/ FileExists(p)
    PROVE  Alone'
<1> USE Knows DEF ShapeOK, Holds, Creating, Claimed, Enqueuing
<1>1. CASE CountJobs(p)
  <2>1. Shifts(p, "add", proc[p].ent.status) /\ UNCHANGED <<rows, fresh, commits>> /\ At(p, "count")
    BY <1>1, GotoShifts DEF CountJobs, Room
  <2>2. ShapeOK(p)' /\ ~Holds(p)'
    BY <2>1 DEF Shifts
  <2> QED
    BY <2>1, <2>2, ShiftsQuietly DEF HeldOK
<1>2. CASE QueuedAudit(p)
  BY <1>2, FinishEnds, EndsQuietly DEF QueuedAudit
<1>3. CASE FileExists(p)
  <2>1. CASE Goto(p, "requeue")
    <3>1. Shifts(p, "requeue", proc[p].ent.status) /\ UNCHANGED <<rows, fresh, commits>> /\ At(p, "exists")
      BY <1>3, <2>1, GotoShifts DEF FileExists
    <3>2. ShapeOK(p)' /\ ~Holds(p)'
      BY <3>1 DEF Shifts
    <3> QED
      BY <3>1, <3>2, ShiftsQuietly DEF HeldOK
  <2>2. CASE Finish(p)
    BY <1>3, <2>2, FinishEnds, EndsQuietly DEF FileExists
  <2> QED
    BY <1>3, <2>1, <2>2 DEF FileExists
<1> QED
  BY <1>1, <1>2, <1>3

\* A job that was free waits for the import.
LEMMA AddJobEffect ==
    ASSUME IInv, NEW p \in Procs, AddJob(p)
    PROVE  \E j \in Jobs :
             /\ jobs[j].state = "free" /\ jobs[j].imp = None
             /\ jobs'[j].imp = proc[p].imp /\ jobs'[j].state = "waiting"
             /\ \A k \in Jobs \ {j} : jobs'[k] = jobs[k]
             /\ \A q \in Procs \ {p} : proc'[q] = proc[q]
             /\ proc'[p].pc = "attach" /\ proc'[p].op = proc[p].op /\ proc'[p].imp = proc[p].imp
BY DEF AddJob, IInv, TypeOK, Process, JobsOK

\* The row takes the job and keeps its status.
LEMMA AttachEffect ==
    ASSUME IInv, NEW p \in Procs, Attach(p)
    PROVE  /\ \A q \in Procs \ {p} : proc'[q] = proc[q]
           /\ jobs' = jobs
           /\ proc'[p].pc \in {"queuedAudit", "reload"} /\ proc'[p].op = proc[p].op /\ proc'[p].imp = proc[p].imp
           /\ \A i \in Imports : rows'[i].status = rows[i].status
<1>1. proc[p].imp \in Imports
  BY DEF Attach, IInv, ProcOK
<1>2. CASE rows[proc[p].imp].status = "QUEUED"
  <2>1. rows' = [rows EXCEPT ![proc[p].imp] = [rows[proc[p].imp] EXCEPT !.job = proc[p].job]]
    BY <1>2 DEF Attach
  <2>2. rows[proc[p].imp] \in Row
    BY <1>1, <1>2 DEF IInv, TypeOK, NoRow
  <2>3. [rows[proc[p].imp] EXCEPT !.job = proc[p].job].status = rows[proc[p].imp].status
    BY <2>2 DEF Row
  <2>4. \A i \in Imports : rows'[i].status = rows[i].status
    BY <1>1, <2>1, <2>3 DEF IInv, TypeOK
  <2>5. proc'[p] = [proc[p] EXCEPT !.pc = "queuedAudit", !.ent = [proc[p].ent EXCEPT !.job = proc[p].job]]
    BY <1>2 DEF Attach, IInv, TypeOK
  <2> QED
    BY <1>2, <2>4, <2>5 DEF Attach, IInv, TypeOK, Process
<1>3. CASE rows[proc[p].imp].status # "QUEUED"
  BY <1>3, GotoShifts DEF Attach, Shifts
<1> QED
  BY <1>2, <1>3

\* The row of an import that is being enqueued is there.
LEMMA ReloadEffect ==
    ASSUME IInv, Alone, NEW p \in Procs, Reload(p)
    PROVE  /\ \A q \in Procs \ {p} : proc'[q] = proc[q]
           /\ jobs' = jobs
           /\ proc'[p].pc = "queuedAudit" /\ proc'[p].op = proc[p].op /\ proc'[p].imp = proc[p].imp
<1>1. rows[proc[p].imp].status # "NONE"
  BY Knows DEF Reload, ShapeOK, Enqueuing
<1> QED
  BY <1>1 DEF Reload, IInv, TypeOK, Process, NoRow

\* A waiting job becomes active, in a worker that was idle.
LEMMA TakeJobEffect ==
    ASSUME IInv, NEW p \in Procs, TakeJob(p)
    PROVE  \E j \in Jobs :
             /\ p \in Workers /\ proc[p].pc = "idle"
             /\ jobs[j].state = "waiting" /\ jobs'[j].state = "active" /\ jobs'[j].imp = jobs[j].imp
             /\ \A k \in Jobs \ {j} : jobs'[k] = jobs[k]
             /\ \A q \in Procs \ {p} : proc'[q] = proc[q]
             /\ proc'[p].pc = "claim" /\ proc'[p].op = "process" /\ proc'[p].imp = jobs[j].imp /\ proc'[p].job = j
<1>1. PICK j \in Jobs :
         /\ jobs[j].state = "waiting"
         /\ jobs' = [jobs EXCEPT ![j] = [@ EXCEPT !.state = "active"]]
         /\ proc' = [proc EXCEPT ![p] = [Idle EXCEPT !.pc = "claim", !.op = "process",
                                                     !.imp = jobs[j].imp, !.job = j]]
  BY DEF TakeJob
<1>2. jobs'[j] = [jobs[j] EXCEPT !.state = "active"] /\ jobs[j] \in Job
  BY <1>1 DEF IInv, TypeOK
<1>3. jobs'[j].imp = jobs[j].imp /\ jobs'[j].state = "active"
  BY <1>2 DEF Job
<1>4. proc'[p] = [Idle EXCEPT !.pc = "claim", !.op = "process", !.imp = jobs[j].imp, !.job = j]
  BY <1>1 DEF IInv, TypeOK
<1> QED
  BY <1>1, <1>3, <1>4 DEF TakeJob, IInv, TypeOK, Idle

\* A claimed import has its row.
LEMMA LoadEffect ==
    ASSUME IInv, Alone, NEW p \in Procs, Load(p)
    PROVE  /\ Holds(p) /\ proc[p].op = "process" /\ rows[proc[p].imp].status = "PROCESSING"
           /\ Shifts(p, "prepare", "PROCESSING")
<1>1. /\ Holds(p) /\ proc[p].op = "process" /\ rows[proc[p].imp].status = "PROCESSING"
      /\ proc[p].imp \in Imports
  BY Knows DEF Load, ShapeOK, HeldOK, Holds, Creating, Claimed, Enqueuing
<1>2. rows[proc[p].imp] \in Row /\ Exists(proc[p].imp)
  BY <1>1 DEF IInv, TypeOK, NoRow
<1>3. [rows[proc[p].imp] EXCEPT !.status = "PROCESSING"].status = "PROCESSING"
  BY <1>2 DEF Row
<1>4. proc'[p] = [proc[p] EXCEPT !.pc = "prepare", !.ent = [rows[proc[p].imp] EXCEPT !.status = "PROCESSING"]]
  BY <1>2 DEF Load, IInv, TypeOK
<1>5. /\ proc'[p].pc = "prepare" /\ proc'[p].ent = [rows[proc[p].imp] EXCEPT !.status = "PROCESSING"]
      /\ proc'[p].op = proc[p].op /\ proc'[p].imp = proc[p].imp /\ proc'[p].job = proc[p].job
  BY <1>4 DEF IInv, TypeOK, Process
<1> QED
  BY <1>1, <1>2, <1>3, <1>5 DEF Load, Shifts, IInv, TypeOK

\* The request is over, or only jobs of its import have left the queue.
LEMMA UnqueueEffect ==
    ASSUME IInv, NEW p \in Procs, Unqueue(p)
    PROVE  /\ \A q \in Procs \ {p} : proc'[q] = proc[q]
           /\ \A k \in Jobs : jobs'[k].imp = jobs[k].imp
           /\ \/ /\ proc'[p].pc = "idle" /\ proc'[p].op = "none"
                 /\ p \in Requests => jobs' = jobs
              \/ /\ proc'[p].pc = "cancelRow" /\ proc'[p].op = proc[p].op /\ proc'[p].imp = proc[p].imp
                 /\ \A k \in Jobs : jobs'[k] = jobs[k] \/ jobs[k].imp = proc[p].imp
<1> DEFINE j == proc[p].ent.job
<1>1. CASE Finish(p)
  BY <1>1, FinishEnds, FinishJobs DEF Ends, Finish
<1>2. CASE ~Finish(p)
  <2>1. /\ proc' = [proc EXCEPT ![p].pc = "cancelRow"]
        /\ jobs' = IF j = None THEN jobs ELSE [jobs EXCEPT ![j] = [@ EXCEPT !.state = "done"]]
    BY <1>2 DEF Unqueue
  <2>2. \A k \in Jobs : jobs'[k].imp = jobs[k].imp
    BY <2>1, JobDone
  <2>3. j # None => jobs[j].imp = proc[p].imp
    BY DEF IInv, ProcOK
  <2>4. \A k \in Jobs : jobs'[k] = jobs[k] \/ jobs[k].imp = proc[p].imp
    BY <2>1, <2>3 DEF IInv, TypeOK
  <2>5. /\ \A q \in Procs \ {p} : proc'[q] = proc[q]
        /\ proc'[p].pc = "cancelRow" /\ proc'[p].op = proc[p].op /\ proc'[p].imp = proc[p].imp
    BY <2>1 DEF IInv, TypeOK, Process
  <2> QED
    BY <2>2, <2>4, <2>5
<1> QED
  BY <1>1, <1>2

\* The steps on the queue, and those that read the row.
LEMMA QueueSteps ==
    ASSUME IInv, Alone, NEW p \in Procs,
           AddJob(p) \/ Attach(p) \/ Reload(p) \/ TakeJob(p) \/ Load(p) \/ Unqueue(p)
    PROVE  Alone'
<1> USE Knows DEF ShapeOK, Holds, Creating, Claimed, Enqueuing
<1>1. CASE AddJob(p)
  <2>1. /\ proc[p].pc = "add" /\ UNCHANGED <<rows, fresh, commits>> /\ Stays(p)
        /\ proc'[p].pc = "attach" /\ proc'[p].op = proc[p].op /\ proc'[p].imp = proc[p].imp
    <3>1. PICK j \in Jobs :
            /\ jobs[j].imp = None /\ \A k \in Jobs \ {j} : jobs'[k] = jobs[k]
            /\ \A q \in Procs \ {p} : proc'[q] = proc[q]
            /\ proc'[p].pc = "attach" /\ proc'[p].op = proc[p].op /\ proc'[p].imp = proc[p].imp
      BY <1>1, AddJobEffect
    <3>2. proc[p].pc = "add" /\ UNCHANGED <<rows, fresh, commits>>
      BY <1>1 DEF AddJob
    <3> QED
      BY <3>1, <3>2 DEF Stays
  <2>2. ShapeOK(p)' /\ ~Holds(p)'
    BY <2>1
  <2> QED
    BY <2>1, <2>2, QuietKeeps DEF HeldOK
<1>2. CASE Attach(p)
  <2>1. proc[p].pc = "attach" /\ UNCHANGED <<fresh, commits>> /\ Stays(p)
    BY <1>2, AttachEffect DEF Attach, Stays
  <2>2. ShapeOK(p)' /\ ~Holds(p)'
    BY <1>2, <2>1, AttachEffect
  <2> QED
    BY <1>2, <2>1, <2>2, AttachEffect, QuietKeeps DEF HeldOK
<1>3. CASE Reload(p)
  <2>1. proc[p].pc = "reload" /\ UNCHANGED <<rows, fresh, commits>> /\ Stays(p)
    BY <1>3, ReloadEffect DEF Reload, Stays
  <2>2. ShapeOK(p)' /\ ~Holds(p)'
    BY <1>3, <2>1, ReloadEffect
  <2> QED
    BY <2>1, <2>2, QuietKeeps DEF HeldOK
<1>4. CASE TakeJob(p)
  <2>1. PICK j \in Jobs :
          /\ p \in Workers /\ jobs'[j].imp = jobs[j].imp
          /\ \A k \in Jobs \ {j} : jobs'[k] = jobs[k]
          /\ \A q \in Procs \ {p} : proc'[q] = proc[q]
          /\ proc'[p].pc = "claim" /\ proc'[p].op = "process" /\ proc'[p].imp = jobs[j].imp /\ proc'[p].job = j
    BY <1>4, TakeJobEffect
  <2>2. UNCHANGED <<rows, fresh, commits>> /\ Stays(p)
    BY <1>4, <2>1 DEF TakeJob, Stays
  <2>3. ShapeOK(p)' /\ ~Holds(p)'
    BY <2>1
  <2> QED
    BY <2>2, <2>3, QuietKeeps DEF HeldOK
<1>5. CASE Load(p)
  <2>1. UNCHANGED <<rows, fresh, commits>> /\ Holds(p) /\ ShapeOK(p) /\ HeldOK(p) /\ proc[p].pc = "load"
    BY <1>5, LoadEffect DEF Load
  <2>2. ShapeOK(p)' /\ HeldOK(p)'
    BY <1>5, <2>1, LoadEffect DEF Shifts, HeldOK, Committed
  <2> QED
    BY <1>5, <2>1, <2>2, LoadEffect, ShiftsQuietly
<1>6. CASE Unqueue(p)
  <2>1. UNCHANGED <<rows, fresh, commits>> /\ proc[p].pc = "unqueue" /\ Stays(p)
    BY <1>6, UnqueueEffect DEF Unqueue, Stays
  <2>2. ShapeOK(p)' /\ ~Holds(p)'
    BY <1>6, <2>1, UnqueueEffect
  <2> QED
    BY <2>1, <2>2, QuietKeeps DEF HeldOK
<1> QED
  BY <1>1, <1>2, <1>3, <1>4, <1>5, <1>6
-----------------------------------------------------------------------------
(* The steps that write a status, commit rows, or begin a request.         *)

\* Import i goes from status s to status t, with its rows committed or not.
Written(i, s, t, n) ==
    /\ i \in Imports /\ rows[i].status = s /\ rows'[i].status = t /\ commits'[i] = n
    /\ \A k \in Imports \ {i} : rows'[k].status = rows[k].status /\ commits'[k] = commits[k]

\* A row that is replaced by one with status t.
LEMMA RowWritten ==
    ASSUME IInv, NEW i \in Imports, NEW r \in Row \cup {NoRow}, rows' = [rows EXCEPT ![i] = r], UNCHANGED commits
    PROVE  Written(i, rows[i].status, r.status, commits[i])
BY OneRow DEF Written

\* The row of a new import.
LEMMA InsertEffect ==
    ASSUME IInv, Alone, NEW p \in Procs, Insert(p)
    PROVE  /\ Written(proc[p].imp, "NONE", "UPLOADED", 0)
           /\ Holds(p) /\ proc[p].op = "create" /\ Shifts(p, "uploadAudit", "UPLOADED")
<1> DEFINE new == [status |-> "UPLOADED", job |-> None, fileDeleted |-> FALSE]
<1>1. /\ Holds(p) /\ proc[p].op = "create" /\ proc[p].imp \in Imports
      /\ rows[proc[p].imp].status = "NONE" /\ commits[proc[p].imp] = 0
  BY Knows DEF Insert, ShapeOK, HeldOK, Holds, Creating, Claimed, Enqueuing, Committed
<1>2. new \in Row /\ new.status = "UPLOADED"
  BY DEF Row, Status
<1>3. /\ rows' = [rows EXCEPT ![proc[p].imp] = new] /\ UNCHANGED <<jobs, commits>>
      /\ proc' = [proc EXCEPT ![p].pc = "uploadAudit", ![p].ent = new]
  BY DEF Insert
<1> HIDE DEF new
<1>4. Written(proc[p].imp, "NONE", "UPLOADED", 0)
  <2>1. Written(proc[p].imp, rows[proc[p].imp].status, new.status, commits[proc[p].imp])
    BY <1>1, <1>2, <1>3, RowWritten
  <2> QED
    BY <1>1, <1>2, <2>1 DEF Written
<1>5. Shifts(p, "uploadAudit", "UPLOADED")
  BY <1>2, <1>3 DEF Shifts, IInv, TypeOK, Process
<1> QED
  BY <1>1, <1>4, <1>5

\* A save takes the import along a transition of the table, and the index agrees.
LEMMA SaveEffect ==
    ASSUME IInv, Alone, NEW p \in Procs, Save(p)
    PROVE  LET s == rows[proc[p].imp].status
               t == proc[p].ent.status IN
           /\ Holds(p) /\ ShapeOK(p) /\ canTransition(s, t)
           /\ Written(proc[p].imp, s, t, commits[proc[p].imp])
           /\ ~IndexRefuses(proc[p].imp, t)
           /\ s \in {"UPLOADED", "VALIDATING", "PROCESSING"}
           /\ commits[proc[p].imp] = IF t \in DoneStatuses THEN 1 ELSE 0
           /\ proc[p].op = "process" => s = "PROCESSING"
           /\ \/ t = "VALIDATING" /\ Shifts(p, "prepare", t)
              \/ t = "QUEUED" /\ Shifts(p, "count", t)
              \/ t = "PROCESSING" /\ Shifts(p, "copy", t)
              \/ t \in DoneStatuses \cup {"FAILED"} /\ Ends(p)
<1> DEFINE s == rows[proc[p].imp].status
           t == proc[p].ent.status
<1>1. /\ Holds(p) /\ ShapeOK(p) /\ canTransition(s, t) /\ s \in {"UPLOADED", "VALIDATING", "PROCESSING"}
      /\ commits[proc[p].imp] = IF t \in DoneStatuses THEN 1 ELSE 0
      /\ proc[p].op = "process" => s = "PROCESSING"
      /\ proc[p].imp \in Imports
  BY Knows DEF Save, ShapeOK, HeldOK, Holds, Creating, Claimed, Enqueuing, Committed
<1>2. Written(proc[p].imp, s, t, commits[proc[p].imp])
  BY <1>1, Knows, RowWritten DEF Save
<1>3. t \in {"VALIDATING", "QUEUED", "PROCESSING", "COMPLETED", "PARTIALLY_COMPLETED", "FAILED"}
  BY <1>1, Transitions
<1>4. \/ t = "VALIDATING" /\ Shifts(p, "prepare", t)
      \/ t = "QUEUED" /\ Shifts(p, "count", t)
      \/ t = "PROCESSING" /\ Shifts(p, "copy", t)
      \/ t \in DoneStatuses \cup {"FAILED"} /\ Ends(p)
  BY <1>3, GotoShifts, FinishEnds DEF Save, DoneStatuses
<1> QED
  BY <1>1, <1>2, <1>4 DEF Save

\* The rows of an import that had none are committed.
LEMMA CopyEffect ==
    ASSUME IInv, Alone, NEW p \in Procs, Copy(p)
    PROVE  /\ Holds(p) /\ ShapeOK(p) /\ proc[p].pc = "copy" /\ commits[proc[p].imp] = 0
           /\ Written(proc[p].imp, "PROCESSING", "PROCESSING", 1)
           /\ Shifts(p, "rowErrors", "PROCESSING") \/ Shifts(p, "save", "COMPLETED")
<1>1. /\ Holds(p) /\ ShapeOK(p) /\ proc[p].pc = "copy" /\ proc[p].ent.status = "PROCESSING"
      /\ rows[proc[p].imp].status = "PROCESSING" /\ commits[proc[p].imp] = 0 /\ proc[p].imp \in Imports
  BY Knows DEF Copy, ShapeOK, HeldOK, Holds, Creating, Claimed, Enqueuing, Committed
<1>2. Written(proc[p].imp, "PROCESSING", "PROCESSING", 1)
  BY <1>1 DEF Copy, Written, IInv, TypeOK
<1>3. Shifts(p, "rowErrors", "PROCESSING") \/ Shifts(p, "save", "COMPLETED")
  BY <1>1, GotoShifts, TransitionShifts, Transitions, StatusNames DEF Copy
<1> QED
  BY <1>1, <1>2, <1>3

\* Only a queued import is claimed.
LEMMA ClaimEffect ==
    ASSUME IInv, NEW p \in Procs, Claim(p)
    PROVE  \/ /\ Written(proc[p].imp, "QUEUED", "PROCESSING", commits[proc[p].imp])
              /\ Shifts(p, "load", proc[p].ent.status)
           \/ rows[proc[p].imp].status # "QUEUED" /\ UNCHANGED rows /\ Ends(p)
<1> DEFINE r == [rows[proc[p].imp] EXCEPT !.status = "PROCESSING"]
<1>1. CASE rows[proc[p].imp].status = "QUEUED"
  <2>1. proc[p].imp \in Imports /\ rows' = [rows EXCEPT ![proc[p].imp] = r] /\ Goto(p, "load") /\ UNCHANGED commits
    BY <1>1, Held DEF Claim
  <2>2. r \in Row /\ r.status = "PROCESSING"
    BY <2>1, EntityStatus, StatusNames DEF IInv, TypeOK
  <2> HIDE DEF r
  <2>3. Written(proc[p].imp, rows[proc[p].imp].status, r.status, commits[proc[p].imp])
    BY <2>1, <2>2, RowWritten
  <2> QED
    BY <1>1, <2>1, <2>2, <2>3, GotoShifts DEF Written
<1>2. CASE rows[proc[p].imp].status # "QUEUED"
  BY <1>2, FinishEnds DEF Claim
<1> QED
  BY <1>1, <1>2

\* Only an import that failed or was cancelled is queued again.
LEMMA RequeueEffect ==
    ASSUME IInv, Alone, NEW p \in Procs, Requeue(p)
    PROVE  \/ /\ rows[proc[p].imp].status \in RetryableStatuses /\ ~IndexRefuses(proc[p].imp, "QUEUED")
              /\ Written(proc[p].imp, rows[proc[p].imp].status, "QUEUED", commits[proc[p].imp])
              /\ Shifts(p, "count", "QUEUED")
           \/ UNCHANGED rows /\ Ends(p)
<1> DEFINE r == [rows[proc[p].imp] EXCEPT !.status = "QUEUED"]
           e == [proc[p].ent EXCEPT !.status = "QUEUED"]
<1>1. CASE rows[proc[p].imp].status = proc[p].ent.status /\ ~IndexRefuses(proc[p].imp, "QUEUED")
  <2>1. /\ proc[p].imp \in Imports /\ rows' = [rows EXCEPT ![proc[p].imp] = r] /\ jobs' = jobs
        /\ proc' = [proc EXCEPT ![p].pc = "count", ![p].ent = e] /\ commits' = commits
        /\ rows[proc[p].imp].status \in RetryableStatuses
    BY <1>1, Held, Knows DEF Requeue, ShapeOK
  <2>2. r \in Row /\ r.status = "QUEUED" /\ e.status = "QUEUED"
    BY <2>1, EntityStatus, StatusNames, Knows DEF IInv, TypeOK
  <2> HIDE DEF r, e
  <2>3. Shifts(p, "count", "QUEUED")
    BY <2>1, <2>2 DEF Shifts, IInv, TypeOK, Process
  <2>4. Written(proc[p].imp, rows[proc[p].imp].status, r.status, commits[proc[p].imp])
    BY <2>1, <2>2, RowWritten
  <2> QED
    BY <1>1, <2>1, <2>2, <2>3, <2>4 DEF Written
<1>2. CASE ~(rows[proc[p].imp].status = proc[p].ent.status /\ ~IndexRefuses(proc[p].imp, "QUEUED"))
  BY <1>2, FinishEnds DEF Requeue
<1> QED
  BY <1>1, <1>2

\* Only a queued import is cancelled, and the request is over.
LEMMA CancelRowEffect ==
    ASSUME IInv, NEW p \in Procs, CancelRow(p)
    PROVE  /\ Ends(p)
           /\ \/ Written(proc[p].imp, "QUEUED", "CANCELLED", commits[proc[p].imp])
              \/ rows[proc[p].imp].status # "QUEUED" /\ UNCHANGED rows
<1> DEFINE r == [rows[proc[p].imp] EXCEPT !.status = "CANCELLED"]
<1>1. CASE rows[proc[p].imp].status = "QUEUED"
  <2>1. proc[p].imp \in Imports /\ rows' = [rows EXCEPT ![proc[p].imp] = r] /\ UNCHANGED commits
    BY <1>1, Held DEF CancelRow
  <2>2. r \in Row /\ r.status = "CANCELLED"
    BY <2>1, EntityStatus, StatusNames DEF IInv, TypeOK
  <2> HIDE DEF r
  <2>3. Written(proc[p].imp, rows[proc[p].imp].status, r.status, commits[proc[p].imp])
    BY <2>1, <2>2, RowWritten
  <2> QED
    BY <1>1, <2>1, <2>2, <2>3, FinishEnds DEF CancelRow, Written
<1>2. CASE rows[proc[p].imp].status # "QUEUED"
  BY <1>2, FinishEnds DEF CancelRow
<1> QED
  BY <1>1, <1>2

\* The status of a row is written by its holder, or when no holder would see it.
LEMMA WrittenKeepsAlone ==
    ASSUME IInv, Alone, NEW p \in Procs, NEW i \in Imports,
           \A k \in Imports \ {i} : rows'[k].status = rows[k].status /\ commits'[k] = commits[k],
           rows'[i].status # "NONE", UNCHANGED fresh, Shifts(p, proc'[p].pc, proc'[p].ent.status) \/ Ends(p),
           \/ Holds(p) /\ proc[p].imp = i
           \/ rows[i].status \notin {"NONE", "UPLOADED", "VALIDATING", "PROCESSING"},
           ShapeOK(p)', HeldOK(p)', Holds(p)' => proc'[p].imp = i, CommitsOK(i)'
    PROVE  Alone'
<1>1. Free(p, i)
  BY FreeByHolding, FreeByStatus
<1>2. i \notin fresh'
  BY DEF Alone, FreshOK
<1>3. Stays(p)
  BY DEF Shifts, Ends, Stays
<1> QED
  BY <1>1, <1>2, <1>3, WriteKeepsAlone

\* A step of p from call to call.
LEMMA ShiftsOn ==
    ASSUME NEW p \in Procs, NEW pc, NEW s, Shifts(p, pc, s)
    PROVE  /\ Shifts(p, proc'[p].pc, proc'[p].ent.status)
           /\ proc'[p].pc = pc /\ proc'[p].ent.status = s
           /\ proc'[p].op = proc[p].op /\ proc'[p].imp = proc[p].imp /\ proc'[p].job = proc[p].job
           /\ jobs' = jobs
BY DEF Shifts

\* A handler that is over holds nothing.
LEMMA EndsFine ==
    ASSUME NEW p \in Procs, Ends(p)
    PROVE  ShapeOK(p)' /\ HeldOK(p)' /\ ~Holds(p)'
BY DEF Ends, ShapeOK, HeldOK, Holds, Creating, Claimed, Enqueuing

\* The steps that write a status or commit rows.
LEMMA WriteSteps ==
    ASSUME IInv, Alone, NEW p \in Procs,
           Insert(p) \/ Save(p) \/ Copy(p) \/ Claim(p) \/ Requeue(p) \/ CancelRow(p)
    PROVE  Alone'
<1>0. /\ ShapeOK(p) /\ HeldOK(p) /\ proc[p].pc # "idle"
      /\ proc[p].imp \in Imports /\ UNCHANGED fresh
  BY Knows DEF Insert, Save, Copy, Claim, Requeue, CancelRow
<1> PICK i \in Imports : proc[p].imp = i
  BY <1>0
<1>a. CommitsOK(i) /\ commits[i] \in Nat
  BY DEF Alone, IInv, TypeOK
<1> USE <1>0, <1>a
<1>1. CASE Insert(p)
  <2>1. /\ \A k \in Imports \ {i} : rows'[k].status = rows[k].status /\ commits'[k] = commits[k]
        /\ rows[i].status = "NONE" /\ rows'[i].status = "UPLOADED" /\ commits'[i] = 0
        /\ Holds(p) /\ proc[p].op = "create" /\ Shifts(p, "uploadAudit", "UPLOADED")
    BY <1>1, InsertEffect DEF Written
  <2>2. CommitsOK(i)'
    BY <2>1 DEF CommitsOK, DoneStatuses
  <2>3. ShapeOK(p)' /\ HeldOK(p)'
    BY <2>1, ShiftsOn DEF ShapeOK, HeldOK, Holds, Creating, Claimed, Enqueuing, Committed, DoneStatuses
  <2> QED
    BY <2>1, <2>2, <2>3, ShiftsOn, WrittenKeepsAlone
<1>2. CASE Save(p)
  <2> DEFINE s == rows[i].status
             t == proc[p].ent.status
  <2>1. /\ \A k \in Imports \ {i} : rows'[k].status = rows[k].status /\ commits'[k] = commits[k]
        /\ rows'[i].status = t /\ commits'[i] = commits[i]
        /\ Holds(p) /\ canTransition(s, t)
        /\ s \in {"UPLOADED", "VALIDATING", "PROCESSING"}
        /\ commits[i] = IF t \in DoneStatuses THEN 1 ELSE 0
        /\ proc[p].op = "process" => s = "PROCESSING"
    BY <1>2, SaveEffect DEF Written
  <2>2. t # "NONE"
    BY <2>1, Transitions
  <2>3. CommitsOK(i)'
    BY <2>1 DEF CommitsOK
  <2>4. CASE Ends(p)
    BY <2>1, <2>2, <2>3, <2>4, EndsFine, WrittenKeepsAlone
  <2>5. CASE \/ t = "VALIDATING" /\ Shifts(p, "prepare", t)
             \/ t = "QUEUED" /\ Shifts(p, "count", t)
             \/ t = "PROCESSING" /\ Shifts(p, "copy", t)
    <3>1. proc[p].op = "create"
      BY <2>1, <2>5, Transitions DEF Holds, Creating, Claimed
    <3>2. ShapeOK(p)' /\ HeldOK(p)' /\ proc'[p].imp = i
      BY <2>1, <2>5, <3>1, ShiftsOn
      DEF ShapeOK, HeldOK, Holds, Creating, Claimed, Enqueuing, Committed, DoneStatuses
    <3>3. Shifts(p, proc'[p].pc, proc'[p].ent.status)
      BY <2>5, ShiftsOn
    <3> QED
      BY <2>1, <2>2, <2>3, <3>2, <3>3, WrittenKeepsAlone
  <2> QED
    BY <1>2, <2>4, <2>5, SaveEffect
<1>3. CASE Copy(p)
  <2>1. /\ \A k \in Imports \ {i} : rows'[k].status = rows[k].status /\ commits'[k] = commits[k]
        /\ rows[i].status = "PROCESSING" /\ rows'[i].status = "PROCESSING" /\ commits'[i] = 1
        /\ Holds(p) /\ proc[p].pc = "copy"
        /\ Shifts(p, "rowErrors", "PROCESSING") \/ Shifts(p, "save", "COMPLETED")
    BY <1>3, CopyEffect DEF Written
  <2>2. CommitsOK(i)'
    BY <2>1 DEF CommitsOK, DoneStatuses
  <2>3. /\ proc'[p].imp = i /\ proc'[p].op = proc[p].op /\ proc'[p].job = proc[p].job /\ jobs' = jobs
        /\ \/ proc'[p].pc = "rowErrors" /\ proc'[p].ent.status = "PROCESSING"
           \/ proc'[p].pc = "save" /\ proc'[p].ent.status = "COMPLETED"
        /\ Shifts(p, proc'[p].pc, proc'[p].ent.status)
    BY <2>1, ShiftsOn
  <2>4. ShapeOK(p)'
    BY <2>1, <2>3 DEF ShapeOK, Holds, Creating, Claimed, Enqueuing
  <2>5. HeldOK(p)'
    BY <2>1, <2>3, Transitions DEF HeldOK, Committed, DoneStatuses
  <2> QED
    BY <2>1, <2>2, <2>3, <2>4, <2>5, WrittenKeepsAlone
<1>4. CASE Claim(p)
  <2>1. CASE Written(proc[p].imp, "QUEUED", "PROCESSING", commits[proc[p].imp]) /\ Shifts(p, "load", proc[p].ent.status)
    <3>1. /\ \A k \in Imports \ {i} : rows'[k].status = rows[k].status /\ commits'[k] = commits[k]
          /\ rows[i].status = "QUEUED" /\ rows'[i].status = "PROCESSING" /\ commits'[i] = commits[i]
      BY <2>1 DEF Written
    <3>2. commits[i] = 0 /\ CommitsOK(i)'
      BY <3>1 DEF CommitsOK, DoneStatuses
    <3>3. proc[p].op = "process"
      BY <1>4 DEF Claim, ShapeOK, Creating, Enqueuing
    <3>4. /\ proc'[p].imp = i /\ proc'[p].op = proc[p].op /\ proc'[p].job = proc[p].job /\ jobs' = jobs
          /\ proc'[p].pc = "load" /\ Shifts(p, proc'[p].pc, proc'[p].ent.status)
      BY <2>1 DEF Shifts
    <3>5. ShapeOK(p)' /\ HeldOK(p)'
      BY <3>1, <3>2, <3>3, <3>4 DEF ShapeOK, HeldOK, Holds, Creating, Claimed, Enqueuing, Committed
    <3> QED
      BY <3>1, <3>2, <3>4, <3>5, WrittenKeepsAlone
  <2>2. CASE UNCHANGED rows /\ Ends(p)
    BY <1>4, <2>2, EndsQuietly DEF Claim
  <2> QED
    BY <1>4, <2>1, <2>2, ClaimEffect
<1>5. CASE Requeue(p)
  <2>1. CASE Ends(p) /\ UNCHANGED rows
    BY <1>5, <2>1, EndsQuietly DEF Requeue
  <2>2. CASE /\ rows[proc[p].imp].status \in RetryableStatuses /\ Shifts(p, "count", "QUEUED")
             /\ Written(proc[p].imp, rows[proc[p].imp].status, "QUEUED", commits[proc[p].imp])
    <3>1. /\ \A k \in Imports \ {i} : rows'[k].status = rows[k].status /\ commits'[k] = commits[k]
          /\ rows[i].status \in {"FAILED", "CANCELLED"} /\ rows'[i].status = "QUEUED" /\ commits'[i] = commits[i]
      BY <2>2 DEF Written, RetryableStatuses
    <3>2. CommitsOK(i)' /\ At(p, "requeue")
      BY <1>5, <3>1 DEF CommitsOK, DoneStatuses, Requeue
    <3>3. ShapeOK(p)' /\ ~Holds(p)'
      BY <2>2, <3>1, <3>2, ShiftsOn DEF ShapeOK, Holds, Creating, Claimed, Enqueuing
    <3>4. HeldOK(p)'
      BY <3>3 DEF HeldOK
    <3> QED
      BY <2>2, <3>1, <3>2, <3>3, <3>4, ShiftsOn, WrittenKeepsAlone
  <2> QED
    BY <1>5, <2>1, <2>2, RequeueEffect
<1>6. CASE CancelRow(p)
  <2>1. Ends(p)
    BY <1>6, CancelRowEffect
  <2>2. CASE Written(proc[p].imp, "QUEUED", "CANCELLED", commits[proc[p].imp])
    <3>1. /\ \A k \in Imports \ {i} : rows'[k].status = rows[k].status /\ commits'[k] = commits[k]
          /\ rows[i].status = "QUEUED" /\ rows'[i].status = "CANCELLED" /\ commits'[i] = commits[i]
      BY <2>2 DEF Written
    <3>2. CommitsOK(i)'
      BY <3>1 DEF CommitsOK, DoneStatuses
    <3> QED
      BY <2>1, <3>1, <3>2, EndsFine, WrittenKeepsAlone
  <2>3. CASE UNCHANGED rows
    BY <1>6, <2>1, <2>3, EndsQuietly DEF CancelRow
  <2> QED
    BY <1>6, <2>2, <2>3, CancelRowEffect
<1> QED
  BY <1>1, <1>2, <1>3, <1>4, <1>5, <1>6

\* An upload takes a fresh import, which nobody holds.
LEMMA BeginCreateStep ==
    ASSUME IInv, Alone, NEW p \in Requests, BeginCreate(p)
    PROVE  Alone'
<1>1. p \in Procs
  BY DEF Procs
<1>2. PICK i \in fresh :
        /\ fresh' = fresh \ {i} /\ At(p, "idle")
        /\ proc' = [proc EXCEPT ![p] = [Idle EXCEPT !.pc = "check", !.op = "create", !.imp = i]]
  BY DEF BeginCreate
<1>3. /\ i \in Imports /\ rows[i].status = "NONE" /\ \A q \in Procs : Holds(q) => proc[q].imp # i
      /\ CommitsOK(i)
  BY <1>2 DEF IInv, TypeOK, Alone, FreshOK
<1>4. /\ \A q \in Procs \ {p} : proc'[q] = proc[q]
      /\ proc'[p] = [Idle EXCEPT !.pc = "check", !.op = "create", !.imp = i]
      /\ UNCHANGED <<rows, jobs, commits>>
  BY <1>1, <1>2 DEF BeginCreate, IInv, TypeOK
<1>5. proc'[p].pc = "check" /\ proc'[p].op = "create" /\ proc'[p].imp = i
  BY <1>4 DEF Idle
<1>6. commits[i] = 0
  BY <1>3 DEF CommitsOK, DoneStatuses
<1>7. ShapeOK(p)' /\ HeldOK(p)'
  BY <1>3, <1>4, <1>5, <1>6 DEF ShapeOK, HeldOK, Holds, Creating, Claimed, Enqueuing, Committed
<1>8. Free(p, i) /\ Stays(p) /\ CommitsOK(i)'
  BY <1>3, <1>4 DEF Free, Stays, CommitsOK
<1> QED
  BY <1>1, <1>2, <1>3, <1>4, <1>5, <1>7, <1>8, WriteKeepsAlone

\* A request on an import holds nothing when it begins.
LEMMA BeginOnStep ==
    ASSUME IInv, Alone, NEW p \in Requests, BeginRetry(p) \/ BeginCancel(p)
    PROVE  Alone'
<1>1. p \in Procs
  BY DEF Procs
<1>2. PICK i \in Imports, o \in {"retry", "cancel"} :
        /\ proc' = [proc EXCEPT ![p] = [Idle EXCEPT !.pc = IF o = "retry" THEN "exists" ELSE "unqueue",
                                                    !.op = o, !.imp = i, !.ent = rows[i]]]
        /\ o = "retry" => rows[i].status \in RetryableStatuses
        /\ UNCHANGED <<rows, jobs, commits, fresh>>
  BY DEF BeginRetry, BeginCancel, BeginOn
<1>3. /\ \A q \in Procs \ {p} : proc'[q] = proc[q]
      /\ proc'[p] = [Idle EXCEPT !.pc = IF o = "retry" THEN "exists" ELSE "unqueue",
                                 !.op = o, !.imp = i, !.ent = rows[i]]
  BY <1>1, <1>2 DEF IInv, TypeOK
<1>4. /\ proc'[p].pc = IF o = "retry" THEN "exists" ELSE "unqueue"
      /\ proc'[p].op = o /\ proc'[p].ent = rows[i]
  BY <1>3 DEF Idle
<1>5. ShapeOK(p)' /\ ~Holds(p)'
  BY <1>2, <1>4 DEF ShapeOK, Holds, Creating, Claimed, Enqueuing
<1>6. Stays(p)
  BY <1>2, <1>3 DEF Stays
<1> QED
  BY <1>1, <1>2, <1>5, <1>6, QuietKeeps DEF HeldOK

\* While nothing fails and nothing is removed, there are no other steps of a process.
LEMMA ImpossibleSteps ==
    ASSUME FaultFree, IInv, Alone, NEW p \in Procs
    PROVE  /\ ~BeginRemove(p) /\ ~Withdraw(p) /\ ~DeleteFile(p) /\ ~DeleteRow(p)
           /\ ~Faults
<1>1. ~BeginRemove(p)
  BY DEF BeginRemove, BeginOn, FaultFree
<1>2. ShapeOK(p)
  BY Knows
<1>3. ~Withdraw(p) /\ ~DeleteFile(p) /\ ~DeleteRow(p)
  BY <1>2 DEF Withdraw, DeleteFile, DeleteRow, ShapeOK, Creating, Enqueuing
<1>4. ~(faults < MaxFaults)
  BY DEF FaultFree, IInv, TypeOK
<1>5. ~Fault
  BY <1>4 DEF Fault
<1> QED
  BY <1>1, <1>3, <1>5 DEF Faults, CallThrows, CommitLost, SweepThrows, Crash

\* The cleaner changes no status.
LEMMA SweepEffect ==
    ASSUME IInv, Sweep
    PROVE  UNCHANGED <<fresh, jobs, commits, proc>> /\ \A i \in Imports : rows'[i].status = rows[i].status
<1>1. CASE SweepRow
  <2> DEFINE r == [rows[sweeping] EXCEPT !.fileDeleted = TRUE]
  <2>1. CASE Exists(sweeping)
    <3>1. sweeping \in Imports /\ rows' = [rows EXCEPT ![sweeping] = r] /\ rows[sweeping] \in Row
      BY <1>1, <2>1 DEF SweepRow, IInv, TypeOK
    <3>2. r \in Row /\ r.status = rows[sweeping].status
      BY <3>1, RowDeleted
    <3> HIDE DEF r
    <3> QED
      BY <1>1, <3>1, <3>2, OneRow DEF SweepRow
  <2> QED
    BY <1>1, <2>1 DEF SweepRow
<1>2. CASE StartSweep \/ SweepFile
  BY <1>2 DEF StartSweep, SweepFile
<1> QED
  BY <1>1, <1>2 DEF Sweep

\* The statuses and everything the processes know stay as they are.
LEMMA StillAlone ==
    ASSUME IInv, Alone, UNCHANGED <<fresh, jobs, commits, proc>>,
           \A i \in Imports : rows'[i].status = rows[i].status
    PROVE  Alone'
<1>1. \A i \in Imports : CommitsOK(i)'
  BY DEF Alone, CommitsOK
<1>2. OneHolder'
  BY DEF Alone, OneHolder, Holds, Creating, Claimed
<1>3. FreshOK'
  BY DEF Alone, FreshOK, Holds, Creating, Claimed, IInv, TypeOK
<1>4. ASSUME NEW p \in Procs PROVE ShapeOK(p)' /\ HeldOK(p)'
  <2>1. ShapeOK(p) /\ HeldOK(p) /\ (proc[p].pc # "idle" => proc[p].imp \in Imports)
    BY DEF Alone, IInv, ProcOK
  <2> QED
    BY <2>1 DEF ShapeOK, HeldOK, Holds, Creating, Claimed, Enqueuing, Committed
<1> QED
  BY <1>1, <1>2, <1>3, <1>4 DEF Alone

\* The part of the invariant about holders is inductive.
LEMMA NextKeepsAlone ==
    ASSUME FaultFree, Room, IInv, OneActivePerKey, Alone, [Next]_vars
    PROVE  Alone'
<1>1. CASE UNCHANGED vars
  BY <1>1, StillAlone DEF vars
<1>2. CASE Sweep
  BY <1>2, StillAlone, SweepEffect
<1>3. ASSUME NEW p \in Requests, Begin(p) PROVE Alone'
  BY <1>3, BeginCreateStep, BeginOnStep, ImpossibleSteps DEF Begin, Procs
<1>4. ASSUME NEW p \in Procs, Step(p) PROVE Alone'
  BY <1>4, HolderSteps, EnqueuerSteps, QueueSteps, WriteSteps, ImpossibleSteps DEF Step
<1>5. CASE Faults
  <2>1. ~(faults < MaxFaults)
    BY DEF FaultFree, IInv, TypeOK
  <2> QED
    BY <1>5, <2>1 DEF Faults, Fault, CallThrows, CommitLost, SweepThrows, Crash
<1> QED
  BY <1>1, <1>2, <1>3, <1>4, <1>5 DEF Next, Waiting
-----------------------------------------------------------------------------
(* A queued import is served.                                              *)

\* A step of p after which every queued import is served anew, or was queued
\* before and has not lost the job or the request that serves it.
LEMMA ServedAfter ==
    ASSUME Served, NEW p \in Procs, \A q \in Procs \ {p} : proc'[q] = proc[q],
           \A i \in Imports : rows'[i].status = "QUEUED" =>
             \/ HasJob(i)'
             \/ p \in Requests /\ Serves(p, i)'
             \/ rows[i].status = "QUEUED" /\ ~Serves(p, i) /\ (HasJob(i) => HasJob(i)')
    PROVE  Served'
<1> SUFFICES ASSUME NEW i \in Imports, rows'[i].status = "QUEUED"
             PROVE  HasJob(i)' \/ \E q \in Requests : Serves(q, i)'
  BY DEF Served
<1>1. CASE rows[i].status = "QUEUED" /\ ~Serves(p, i) /\ (HasJob(i) => HasJob(i)')
  <2>1. HasJob(i) \/ \E q \in Requests \ {p} : Serves(q, i)
    BY <1>1 DEF Served
  <2>2. \A q \in Requests \ {p} : Serves(q, i) => Serves(q, i)'
    BY DEF Serves, Procs
  <2> QED
    BY <1>1, <2>1, <2>2
<1> QED
  BY <1>1

\* A step of p that leaves the queue alone, when p did not serve an import.
LEMMA MovesServed ==
    ASSUME Served, NEW p \in Procs, \A q \in Procs \ {p} : proc'[q] = proc[q], jobs' = jobs,
           proc[p].pc \notin {"count", "add", "cancelRow"},
           \A i \in Imports : rows'[i].status = "QUEUED" =>
             rows[i].status = "QUEUED" \/ (p \in Requests /\ Serves(p, i)')
    PROVE  Served'
<1>1. \A i \in Imports : ~Serves(p, i) /\ (HasJob(i) => HasJob(i)')
  BY DEF Serves, HasJob
<1> QED
  BY <1>1, ServedAfter

\* The end of a handler, and of the job of a worker, whose import is not queued.
LEMMA EndsServed ==
    ASSUME Served, NEW p \in Procs, ShapeOK(p), Ends(p),
           p \in Workers => proc[p].op = "process",
           p \in Workers \/ proc[p].pc \in {"count", "add", "cancelRow"} => rows'[proc[p].imp].status # "QUEUED",
           \A i \in Imports : rows'[i].status = "QUEUED" => rows[i].status = "QUEUED"
    PROVE  Served'
<1>1. ASSUME NEW i \in Imports, rows'[i].status = "QUEUED"
      PROVE  ~Serves(p, i) /\ (HasJob(i) => HasJob(i)')
  <2>1. ~Serves(p, i)
    BY <1>1 DEF Serves
  <2>2. ASSUME NEW j \in Jobs, jobs[j].imp = i PROVE jobs'[j] = jobs[j]
    BY <1>1, <2>2 DEF Ends, ShapeOK
  <2>3. HasJob(i) => HasJob(i)'
    BY <2>2 DEF HasJob
  <2> QED
    BY <2>1, <2>3
<1>2. \A q \in Procs \ {p} : proc'[q] = proc[q]
  BY DEF Ends
<1> QED
  BY <1>1, <1>2, ServedAfter

\* What a call that writes nothing does: the handler goes on, or it is over.
LEMMA GoesOn ==
    ASSUME IInv, NEW p \in Procs, NEW s \in Status, NEW pc, Goto(p, pc) \/ Fail(p) \/ Transition(p, s)
    PROVE  \/ jobs' = jobs /\ \A q \in Procs \ {p} : proc'[q] = proc[q]
           \/ Ends(p)
BY FinishEnds DEF Goto, Fail, Transition, SaveStatus, IInv, TypeOK

\* A worker processes its import; it serves none.
LEMMA WorkerOrRequest ==
    ASSUME IInv, Alone, NEW p \in Procs, proc[p].pc # "idle"
    PROVE  /\ p \in Workers => proc[p].op = "process" /\ proc[p].pc \notin {"count", "add", "cancelRow"}
           /\ p \in Workers /\ proc[p].pc # "claim" => rows[proc[p].imp].status = "PROCESSING"
           /\ proc[p].op # "process" => p \in Requests /\ p \notin Workers
           /\ proc[p].imp \in Imports
BY Knows DEF ShapeOK, HeldOK, Holds, Claimed, Creating, Procs

\* The calls that write nothing.
LEMMA QuietServed ==
    ASSUME IInv, Alone, Served, NEW p \in Procs,
           \/ Check(p) \/ UploadAudit(p) \/ SaveRefused(p) \/ Prepare(p) \/ PrepareThrows(p)
           \/ CopyThrows(p) \/ SaveRowErrors(p) \/ QueuedAudit(p) \/ FileExists(p) \/ Load(p)
    PROVE  Served'
<1>1. /\ UNCHANGED rows
      /\ proc[p].pc \notin {"idle", "count", "add", "cancelRow", "claim"}
  BY DEF Check, UploadAudit, SaveRefused, Prepare, PrepareThrows, CopyThrows, SaveRowErrors, QueuedAudit,
         FileExists, Load
<1>2. \/ jobs' = jobs /\ \A q \in Procs \ {p} : proc'[q] = proc[q]
      \/ Ends(p)
  BY GoesOn, FinishEnds, StatusNames, LoadEffect
  DEF Check, UploadAudit, SaveRefused, Prepare, PrepareThrows, CopyThrows, SaveRowErrors, QueuedAudit,
      FileExists, Shifts
<1>3. CASE Ends(p)
  BY <1>1, <1>3, WorkerOrRequest, EndsServed, Knows
<1>4. CASE jobs' = jobs /\ \A q \in Procs \ {p} : proc'[q] = proc[q]
  BY <1>1, <1>4, MovesServed
<1> QED
  BY <1>2, <1>3, <1>4

\* The steps on the queue.
LEMMA QueueServed ==
    ASSUME Room, IInv, Alone, Served, NEW p \in Procs,
           CountJobs(p) \/ AddJob(p) \/ Attach(p) \/ Reload(p) \/ TakeJob(p) \/ Unqueue(p)
    PROVE  Served'
<1>1. CASE CountJobs(p)
  <2>1. Shifts(p, "add", proc[p].ent.status) /\ UNCHANGED rows /\ At(p, "count")
    BY <1>1, GotoShifts DEF CountJobs, Room
  <2>2. /\ \A q \in Procs \ {p} : proc'[q] = proc[q]
        /\ jobs' = jobs /\ proc'[p].pc = "add" /\ proc'[p].imp = proc[p].imp /\ p \in Requests
    BY <2>1, WorkerOrRequest DEF Shifts, Procs
  <2>3. \A i \in Imports : Serves(p, i) => Serves(p, i)'
    BY <2>2 DEF Serves
  <2>4. \A i \in Imports : HasJob(i) => HasJob(i)'
    BY <2>2 DEF HasJob
  <2> QED
    BY <2>1, <2>2, <2>3, <2>4, ServedAfter
<1>2. CASE AddJob(p)
  <2>1. PICK j \in Jobs :
          /\ jobs[j].state = "free" /\ jobs'[j].imp = proc[p].imp /\ jobs'[j].state = "waiting"
          /\ \A k \in Jobs \ {j} : jobs'[k] = jobs[k]
          /\ \A q \in Procs \ {p} : proc'[q] = proc[q]
    BY <1>2, AddJobEffect
  <2>2. \A i \in Imports : Serves(p, i) => HasJob(i)'
    BY <2>1 DEF Serves, HasJob
  <2>3. \A i \in Imports : HasJob(i) => HasJob(i)'
    BY <2>1 DEF HasJob
  <2> QED
    BY <1>2, <2>1, <2>2, <2>3, ServedAfter DEF AddJob
<1>3. CASE Attach(p)
  <2>1. /\ \A q \in Procs \ {p} : proc'[q] = proc[q]
        /\ jobs' = jobs /\ \A i \in Imports : rows'[i].status = rows[i].status
    BY <1>3, AttachEffect
  <2> QED
    BY <1>3, <2>1, MovesServed DEF Attach
<1>4. CASE Reload(p)
  BY <1>4, ReloadEffect, MovesServed DEF Reload
<1>5. CASE TakeJob(p)
  <2>1. PICK j \in Jobs :
          /\ jobs'[j].state = "active" /\ jobs'[j].imp = jobs[j].imp
          /\ \A k \in Jobs \ {j} : jobs'[k] = jobs[k]
          /\ \A q \in Procs \ {p} : proc'[q] = proc[q]
    BY <1>5, TakeJobEffect
  <2>2. \A i \in Imports : HasJob(i) => HasJob(i)'
    BY <2>1 DEF HasJob
  <2>3. UNCHANGED rows /\ At(p, "idle")
    BY <1>5 DEF TakeJob
  <2> QED
    BY <2>1, <2>2, <2>3, ServedAfter DEF Serves
<1>6. CASE Unqueue(p)
  <2>1. UNCHANGED rows /\ At(p, "unqueue") /\ p \in Requests /\ p \notin Workers
    BY <1>6, WorkerOrRequest, Knows DEF Unqueue, ShapeOK, Procs, Creating, Enqueuing
  <2>2. \A q \in Procs \ {p} : proc'[q] = proc[q]
    BY <1>6, UnqueueEffect
  <2>3. CASE jobs' = jobs
    BY <2>1, <2>2, <2>3, MovesServed
  <2>4. CASE /\ proc'[p].pc = "cancelRow" /\ proc'[p].imp = proc[p].imp
             /\ \A k \in Jobs : jobs'[k] = jobs[k] \/ jobs[k].imp = proc[p].imp
    <3>1. ASSUME NEW i \in Imports PROVE Serves(p, i)' \/ (HasJob(i) => HasJob(i)')
      <4>1. CASE i = proc[p].imp
        BY <2>4, <4>1 DEF Serves
      <4>2. CASE i # proc[p].imp
        BY <2>4, <4>2 DEF HasJob
      <4> QED
        BY <4>1, <4>2
    <3>2. \A i \in Imports : ~Serves(p, i)
      BY <2>1 DEF Serves
    <3> QED
      BY <2>1, <2>2, <3>1, <3>2, ServedAfter
  <2> QED
    BY <1>6, <2>1, <2>3, <2>4, UnqueueEffect
<1> QED
  BY <1>1, <1>2, <1>3, <1>4, <1>5, <1>6

\* The steps that write a status: who queues an import goes on to enqueue it.
LEMMA WriteServed ==
    ASSUME IInv, Alone, Served, NEW p \in Procs,
           Insert(p) \/ Save(p) \/ Copy(p) \/ Claim(p) \/ Requeue(p) \/ CancelRow(p)
    PROVE  Served'
<1>0. /\ ShapeOK(p) /\ proc[p].pc # "idle" /\ proc[p].imp \in Imports
      /\ p \in Workers => proc[p].op = "process"
      /\ proc[p].op # "process" => p \in Requests /\ p \notin Workers
      /\ proc[p].pc \notin {"count", "add"}
  BY Knows, WorkerOrRequest DEF Insert, Save, Copy, Claim, Requeue, CancelRow
<1> USE <1>0
<1>1. CASE Insert(p)
  <2>1. /\ \A k \in Imports \ {proc[p].imp} : rows'[k].status = rows[k].status
        /\ rows'[proc[p].imp].status = "UPLOADED" /\ Shifts(p, "uploadAudit", "UPLOADED") /\ At(p, "insert")
    BY <1>1, InsertEffect DEF Written, Insert
  <2> QED
    BY <2>1, MovesServed DEF Shifts
<1>2. CASE Copy(p)
  <2>1. /\ \A k \in Imports : rows'[k].status = rows[k].status
        /\ jobs' = jobs /\ (\A q \in Procs \ {p} : proc'[q] = proc[q]) /\ At(p, "copy")
    BY <1>2, CopyEffect DEF Written, Shifts, Copy
  <2> QED
    BY <2>1, MovesServed
<1>3. CASE Save(p)
  <2> DEFINE t == proc[p].ent.status
  <2>1. /\ \A k \in Imports \ {proc[p].imp} : rows'[k].status = rows[k].status
        /\ rows'[proc[p].imp].status = t
        /\ rows[proc[p].imp].status \in {"UPLOADED", "VALIDATING", "PROCESSING"}
        /\ proc[p].op = "process" => rows[proc[p].imp].status = "PROCESSING"
        /\ canTransition(rows[proc[p].imp].status, t) /\ At(p, "save")
    BY <1>3, SaveEffect DEF Written, Save
  <2>2. CASE t \in DoneStatuses \cup {"FAILED"} /\ Ends(p)
    BY <2>1, <2>2, EndsServed DEF DoneStatuses
  <2>3. CASE t = "QUEUED" /\ Shifts(p, "count", t)
    <3>1. p \in Requests
      BY <2>1, <2>3, Transitions
    <3>2. \A i \in Imports : i = proc[p].imp => Serves(p, i)'
      BY <2>3 DEF Serves, Shifts
    <3> QED
      BY <2>1, <2>3, <3>1, <3>2, MovesServed DEF Shifts
  <2>4. CASE t \in {"VALIDATING", "PROCESSING"} /\ (Shifts(p, "prepare", t) \/ Shifts(p, "copy", t))
    BY <2>1, <2>4, MovesServed DEF Shifts
  <2> QED
    BY <1>3, <2>2, <2>3, <2>4, SaveEffect
<1>4. CASE Claim(p)
  <2>1. CASE Written(proc[p].imp, "QUEUED", "PROCESSING", commits[proc[p].imp]) /\ Shifts(p, "load", proc[p].ent.status)
    BY <1>4, <2>1, MovesServed DEF Written, Shifts, Claim
  <2>2. CASE rows[proc[p].imp].status # "QUEUED" /\ UNCHANGED rows /\ Ends(p)
    BY <2>2, EndsServed
  <2> QED
    BY <1>4, <2>1, <2>2, ClaimEffect
<1>5. CASE Requeue(p)
  <2>1. CASE UNCHANGED rows /\ Ends(p)
    <3>1. p \notin Workers /\ At(p, "requeue")
      BY <1>5 DEF Requeue, ShapeOK
    <3> QED
      BY <2>1, <3>1, EndsServed
  <2>2. CASE /\ Written(proc[p].imp, rows[proc[p].imp].status, "QUEUED", commits[proc[p].imp])
             /\ Shifts(p, "count", "QUEUED")
    <3>1. p \in Requests /\ At(p, "requeue")
      BY <1>5 DEF Requeue, ShapeOK
    <3>2. \A i \in Imports : i = proc[p].imp => Serves(p, i)'
      BY <2>2 DEF Serves, Shifts
    <3> QED
      BY <2>2, <3>1, <3>2, MovesServed DEF Written, Shifts
  <2> QED
    BY <1>5, <2>1, <2>2, RequeueEffect
<1>6. CASE CancelRow(p)
  <2>1. Ends(p) /\ p \notin Workers
    BY <1>6, CancelRowEffect DEF CancelRow, ShapeOK
  <2>2. /\ rows'[proc[p].imp].status # "QUEUED"
        /\ \A i \in Imports : rows'[i].status = "QUEUED" => rows[i].status = "QUEUED"
    BY <1>6, CancelRowEffect DEF Written
  <2> QED
    BY <2>1, <2>2, EndsServed
<1> QED
  BY <1>1, <1>2, <1>3, <1>4, <1>5, <1>6

\* A request that arrives takes no job away.
LEMMA BeginServed ==
    ASSUME IInv, Served, NEW p \in Requests, Begin(p)
    PROVE  Served'
<1>1. p \in Procs
  BY DEF Procs
<1>2. UNCHANGED <<rows, jobs>> /\ proc[p].pc = "idle" /\ \A q \in Procs \ {p} : proc'[q] = proc[q]
  BY <1>1 DEF Begin, BeginCreate, BeginRetry, BeginCancel, BeginRemove, BeginOn, IInv, TypeOK
<1> QED
  BY <1>1, <1>2, MovesServed

\* The part of the invariant about the queue is inductive.
LEMMA NextKeepsServed ==
    ASSUME FaultFree, Room, IInv, Alone, Served, [Next]_vars
    PROVE  Served'
<1>1. ASSUME UNCHANGED <<jobs, proc>>, \A i \in Imports : rows'[i].status = rows[i].status
      PROVE  Served'
  BY <1>1 DEF Served, HasJob, Serves
<1>2. CASE Sweep
  BY <1>1, <1>2, SweepEffect
<1>3. CASE UNCHANGED vars
  BY <1>1, <1>3 DEF vars
<1>4. ASSUME NEW p \in Procs, Step(p) PROVE Served'
  BY <1>4, QuietServed, QueueServed, WriteServed, ImpossibleSteps DEF Step
<1>5. CASE Faults
  <2>1. ~(faults < MaxFaults)
    BY DEF FaultFree, IInv, TypeOK
  <2> QED
    BY <1>5, <2>1 DEF Faults, Fault, CallThrows, CommitLost, SweepThrows, Crash
<1> QED
  BY <1>2, <1>3, <1>4, <1>5, BeginServed DEF Next, Waiting
-----------------------------------------------------------------------------
(* The invariant, and what follows from it.                                *)

\* The invariant holds initially.
LEMMA PInit == Init => PInv
<1> SUFFICES ASSUME Init PROVE PInv
  OBVIOUS
<1>1. \A p \in Procs : proc[p].pc = "idle" /\ proc[p].op = "none"
  BY DEF Init, Idle
<1>2. \A i \in Imports : rows[i].status = "NONE" /\ commits[i] = 0
  BY DEF Init, NoRow
<1>3. \A p \in Procs : ~Holds(p)
  BY <1>1 DEF Holds, Creating, Claimed
<1>4. Alone
  BY <1>1, <1>2, <1>3 DEF Alone, ShapeOK, HeldOK, OneHolder, FreshOK, CommitsOK, Enqueuing, DoneStatuses, Init
<1>5. Served /\ OneActivePerKey
  BY <1>2 DEF Served, OneActivePerKey, IndexedStatuses
<1> QED
  BY <1>4, <1>5, InitHolds DEF PInv

\* The invariant is inductive while nothing fails and the queue has room.
LEMMA PNext == FaultFree /\ Room /\ PInv /\ [Next]_vars => PInv'
BY NextKeeps, NextKeepsIndex, NextKeepsAlone, NextKeepsServed DEF PInv

\* It holds in every reachable state.
LEMMA PInvariance == FaultFree => (Spec /\ []Room => []PInv)
<1> SUFFICES ASSUME FaultFree PROVE Spec /\ []Room => []PInv
  OBVIOUS
<1>1. Room /\ PInv /\ [Next]_vars => PInv'
  BY PNext
<1> QED
  BY PInit, <1>1, PTL DEF Spec

\* A process that loads an import holds it.
LEMMA LoadersHold ==
    ASSUME IInv, Alone, NEW p \in Procs, NEW i \in Imports, Loading(p, i)
    PROVE  Holds(p) /\ proc[p].imp = i /\ rows[i].status = "PROCESSING"
<1>1. ShapeOK(p) /\ HeldOK(p) /\ proc[p].imp = i
  BY Knows DEF Loading
<1>2. Holds(p)
  BY <1>1 DEF Loading, ShapeOK, Holds, Creating, Claimed, Enqueuing
<1>3. CASE proc[p].op = "process" \/ proc[p].pc \in {"copy", "rowErrors"}
  BY <1>1, <1>2, <1>3 DEF HeldOK
<1>4. CASE At(p, "save") /\ proc[p].ent.status \in DoneStatuses
  BY <1>1, <1>2, <1>4, Transitions DEF HeldOK, DoneStatuses
<1> QED
  BY <1>1, <1>2, <1>3, <1>4 DEF Loading

\* SingleLoader, while no call fails and the queue has room: a worker's claim,
\* or the create request that imports a small file by itself, keeps every other
\* process from loading the import.
THEOREM ExclusiveLoad == FaultFree => (Spec /\ []Room => []SingleLoader)
<1> SUFFICES ASSUME FaultFree PROVE Spec /\ []Room => []SingleLoader
  OBVIOUS
<1>1. PInv => SingleLoader
  BY LoadersHold DEF PInv, SingleLoader, Alone, OneHolder
<1> QED
  BY <1>1, PInvariance, PTL

\* LoaderOwnsRow, while no call fails and the queue has room: no stale entity is
\* saved over the claim of a worker.
THEOREM LoadedIsProcessing == FaultFree => (Spec /\ []Room => []LoaderOwnsRow)
<1> SUFFICES ASSUME FaultFree PROVE Spec /\ []Room => []LoaderOwnsRow
  OBVIOUS
<1>1. PInv => LoaderOwnsRow
  BY LoadersHold DEF PInv, LoaderOwnsRow
<1> QED
  BY <1>1, PInvariance, PTL

\* AllOrNothing, while no call fails and the queue has room: however often an
\* import is cancelled and retried, its rows are in the target table, once, when
\* it is done, and are not there when it is not done and nobody loads it.
THEOREM Atomicity == FaultFree => (Spec /\ []Room => []AllOrNothing)
<1> SUFFICES ASSUME FaultFree PROVE Spec /\ []Room => []AllOrNothing
  OBVIOUS
<1>1. PInv => AllOrNothing
  BY DEF PInv, AllOrNothing, Alone, CommitsOK
<1> QED
  BY <1>1, PInvariance, PTL

\* NoDoubleImport, while no call fails and the queue has room: who has committed
\* rows is PROCESSING or done, and the unique index keeps such an import alone
\* with its key.
THEOREM ImportedFilesDiffer == FaultFree => (Spec /\ []Room => []NoDoubleImport)
<1> SUFFICES ASSUME FaultFree PROVE Spec /\ []Room => []NoDoubleImport
  OBVIOUS
<1>1. ASSUME PInv, NEW i \in Imports, commits[i] > 0
      PROVE  rows[i].status \in IndexedStatuses
  <2>1. CommitsOK(i) /\ commits[i] # 0
    BY <1>1 DEF PInv, Alone
  <2> QED
    BY <2>1 DEF CommitsOK, IndexedStatuses, DoneStatuses
<1>2. PInv => NoDoubleImport
  BY <1>1 DEF PInv, NoDoubleImport, OneActivePerKey
<1> QED
  BY <1>2, PInvariance, PTL

\* QueuedIsServed, while no call fails and the queue has room: whatever cancels,
\* retries and workers do to its jobs, a queued import keeps one or a request
\* that sees to it.
THEOREM NotForgotten == FaultFree => (Spec /\ []Room => []QueuedIsServed)
<1> SUFFICES ASSUME FaultFree PROVE Spec /\ []Room => []QueuedIsServed
  OBVIOUS
<1>1. PInv => QueuedIsServed
  BY DEF PInv, Served, QueuedIsServed, HasJob, Serves, Pending
<1> QED
  BY <1>1, PInvariance, PTL
-----------------------------------------------------------------------------
(* The service implements ImportLifecycle.                                 *)

\* Both modules speak of the same statuses.
LEMMA SameStatuses ==
    /\ Promise!Status = Status /\ Promise!allowedTransitions = allowedTransitions
    /\ Promise!IndexedStatuses = IndexedStatuses /\ Promise!DoneStatuses = DoneStatuses
BY DEF Promise!Status, Status, Promise!allowedTransitions, allowedTransitions,
       Promise!IndexedStatuses, IndexedStatuses, Promise!DoneStatuses, DoneStatuses

\* A step that changes no status and commits nothing is a stuttering step.
LEMMA Stutters ==
    ASSUME \A i \in Imports : rows'[i].status = rows[i].status /\ commits'[i] = commits[i]
    PROVE  /\ UNCHANGED [i \in Imports |-> rows[i].status]
           /\ UNCHANGED [i \in Imports |-> commits[i] > 0]
OBVIOUS

\* What becomes of the status of one import.
LEMMA BecomesStatus ==
    ASSUME NEW i \in Imports, NEW t, rows'[i].status = t,
           \A k \in Imports : commits'[k] = commits[k],
           \A k \in Imports \ {i} : rows'[k].status = rows[k].status,
           t \in IndexedStatuses =>
             \A k \in Imports \ {i} : Key[k] = Key[i] => rows[k].status \notin IndexedStatuses
    PROVE  Promise!Becomes(i, t)
BY SameStatuses DEF Promise!Becomes, Promise!KeyIsFree

\* A transition of the status table.
LEMMA Advances ==
    ASSUME NEW i \in Imports, NEW s \in Status, NEW t, rows[i].status = s, rows'[i].status = t, canTransition(s, t),
           \A k \in Imports : commits'[k] = commits[k],
           \A k \in Imports \ {i} : rows'[k].status = rows[k].status,
           t \in DoneStatuses <=> commits[i] > 0,
           t \in IndexedStatuses =>
             \A k \in Imports \ {i} : Key[k] = Key[i] => rows[k].status \notin IndexedStatuses
    PROVE  Promise!Advance(i)
<1>1. Promise!Becomes(i, t)
  BY BecomesStatus
<1> QED
  BY <1>1, SameStatuses DEF Promise!Advance, canTransition

\* The abstract step of a step of the service, or none.
Abstractly ==
    \/ Promise!Next
    \/ \A i \in Imports : rows'[i].status = rows[i].status /\ commits'[i] = commits[i]

\* Each write of a status is a step of the promise.
LEMMA WritesAreSteps ==
    ASSUME IInv, OneActivePerKey, Alone, NEW p \in Procs,
           Insert(p) \/ Save(p) \/ Copy(p) \/ Claim(p) \/ Requeue(p) \/ CancelRow(p)
    PROVE  Abstractly
<1>0. proc[p].imp \in Imports
  BY Knows DEF Insert, Save, Copy, Claim, Requeue, CancelRow
<1> PICK i \in Imports : proc[p].imp = i
  BY <1>0
<1>a. CommitsOK(i) /\ commits[i] \in Nat
  BY DEF Alone, IInv, TypeOK
<1> SUFFICES \/ Promise!Upload(i) \/ Promise!Advance(i) \/ Promise!LoadRows(i)
             \/ \A k \in Imports : rows'[k].status = rows[k].status /\ commits'[k] = commits[k]
  BY DEF Abstractly, Promise!Next
<1>1. CASE Insert(p)
  <2>1. /\ \A k \in Imports \ {i} : rows'[k].status = rows[k].status
        /\ \A k \in Imports : commits'[k] = commits[k]
        /\ rows[i].status = "NONE" /\ rows'[i].status = "UPLOADED"
    BY <1>1, InsertEffect DEF Written, Insert
  <2>2. Promise!Becomes(i, "UPLOADED")
    BY <2>1, BecomesStatus DEF IndexedStatuses
  <2> QED
    BY <2>1, <2>2 DEF Promise!Upload
<1>2. CASE Save(p)
  <2>1. PICK s \in Status, t \in {proc[p].ent.status} : s = rows[i].status
    <3>1. rows[i].status \in {"UPLOADED", "VALIDATING", "PROCESSING"}
      BY <1>2, SaveEffect
    <3> QED
      BY <3>1, StatusNames
  <2>2. /\ \A k \in Imports \ {i} : rows'[k].status = rows[k].status
        /\ \A k \in Imports : commits'[k] = commits[k]
        /\ rows'[i].status = t /\ canTransition(s, t)
        /\ ~IndexRefuses(proc[p].imp, proc[p].ent.status)
        /\ t \in DoneStatuses <=> commits[i] > 0
    <3>1. UNCHANGED commits
      BY <1>2 DEF Save
    <3>2. /\ Written(proc[p].imp, rows[proc[p].imp].status, proc[p].ent.status, commits[proc[p].imp])
          /\ canTransition(rows[proc[p].imp].status, proc[p].ent.status)
          /\ ~IndexRefuses(proc[p].imp, proc[p].ent.status)
          /\ commits[proc[p].imp] = IF proc[p].ent.status \in DoneStatuses THEN 1 ELSE 0
      BY <1>2, SaveEffect
    <3> QED
      BY <2>1, <3>1, <3>2 DEF Written
  <2>3. t \in IndexedStatuses =>
          \A k \in Imports \ {i} : Key[k] = Key[i] => rows[k].status \notin IndexedStatuses
    BY <2>1, <2>2 DEF IndexRefuses
  <2> QED
    BY <2>1, <2>2, <2>3, Advances
<1>3. CASE Copy(p)
  <2>1. /\ \A k \in Imports \ {i} : commits'[k] = commits[k]
        /\ \A k \in Imports : rows'[k].status = rows[k].status
        /\ rows[i].status = "PROCESSING" /\ commits[i] = 0 /\ commits'[i] = 1
    BY <1>3, CopyEffect DEF Written
  <2> QED
    <3>1. UNCHANGED [k \in Imports |-> rows[k].status]
      BY <2>1
    <3>2. (commits'[i] > 0) /\ ~(commits[i] > 0) /\ \A k \in Imports \ {i} : commits'[k] = commits[k]
      BY <2>1
    <3>3. [k \in Imports |-> commits[k] > 0]' = [[k \in Imports |-> commits[k] > 0] EXCEPT ![i] = TRUE]
      BY <3>2, Zenon
    <3> QED
      BY <2>1, <3>1, <3>2, <3>3 DEF Promise!LoadRows
<1>4. CASE Claim(p)
  <2>1. CASE Written(proc[p].imp, "QUEUED", "PROCESSING", commits[proc[p].imp])
    <3>1. /\ \A k \in Imports \ {i} : rows'[k].status = rows[k].status
          /\ \A k \in Imports : commits'[k] = commits[k]
          /\ rows[i].status = "QUEUED" /\ rows'[i].status = "PROCESSING"
      BY <2>1 DEF Written
    <3>2. \A k \in Imports \ {i} : Key[k] = Key[i] => rows[k].status \notin IndexedStatuses
      BY <3>1 DEF OneActivePerKey, IndexedStatuses
    <3>3. "PROCESSING" \in DoneStatuses <=> commits[i] > 0
      BY <3>1, <1>a DEF CommitsOK, DoneStatuses
    <3> QED
      BY <3>1, <3>2, <3>3, Advances, Transitions, StatusNames
  <2>2. CASE UNCHANGED rows
    BY <1>4, <2>2 DEF Claim
  <2> QED
    BY <1>4, <2>1, <2>2, ClaimEffect
<1>5. CASE Requeue(p)
  <2>1. CASE UNCHANGED rows
    BY <1>5, <2>1 DEF Requeue
  <2>2. CASE /\ rows[proc[p].imp].status \in RetryableStatuses /\ ~IndexRefuses(proc[p].imp, "QUEUED")
             /\ Written(proc[p].imp, rows[proc[p].imp].status, "QUEUED", commits[proc[p].imp])
    <3>1. PICK s \in {"FAILED", "CANCELLED"} : s = rows[i].status
      BY <2>2 DEF RetryableStatuses
    <3>2. /\ \A k \in Imports \ {i} : rows'[k].status = rows[k].status
          /\ \A k \in Imports : commits'[k] = commits[k]
          /\ rows'[i].status = "QUEUED"
      BY <2>2 DEF Written
    <3>3. \A k \in Imports \ {i} : Key[k] = Key[i] => rows[k].status \notin IndexedStatuses
      BY <2>2 DEF IndexRefuses, IndexedStatuses
    <3>4. "QUEUED" \in DoneStatuses <=> commits[i] > 0
      BY <3>1, <1>a DEF CommitsOK, DoneStatuses
    <3>5. s \in Status /\ canTransition(s, "QUEUED")
      BY Transitions, StatusNames
    <3> QED
      BY <3>1, <3>2, <3>3, <3>4, <3>5, Advances
  <2> QED
    BY <1>5, <2>1, <2>2, RequeueEffect
<1>6. CASE CancelRow(p)
  <2>1. CASE Written(proc[p].imp, "QUEUED", "CANCELLED", commits[proc[p].imp])
    <3>1. /\ \A k \in Imports \ {i} : rows'[k].status = rows[k].status
          /\ \A k \in Imports : commits'[k] = commits[k]
          /\ rows[i].status = "QUEUED" /\ rows'[i].status = "CANCELLED"
      BY <2>1 DEF Written
    <3>2. "CANCELLED" \in DoneStatuses <=> commits[i] > 0
      BY <3>1, <1>a DEF CommitsOK, DoneStatuses
    <3>3. "CANCELLED" \notin IndexedStatuses
      BY DEF IndexedStatuses
    <3> QED
      BY <3>1, <3>2, <3>3, Advances, Transitions, StatusNames
  <2>2. CASE UNCHANGED rows
    BY <1>6, <2>2 DEF CancelRow
  <2> QED
    BY <1>6, <2>1, <2>2, CancelRowEffect
<1> QED
  BY <1>1, <1>2, <1>3, <1>4, <1>5, <1>6

\* Every step of the service is a step of the promise or none.
LEMMA NextAbstractly ==
    ASSUME FaultFree, PInv, [Next]_vars
    PROVE  Abstractly
<1> USE DEF PInv
<1>1. ASSUME UNCHANGED <<rows, commits>> PROVE Abstractly
  BY <1>1 DEF Abstractly
<1>2. CASE Sweep
  BY <1>2, SweepEffect DEF Abstractly
<1>3. CASE UNCHANGED vars
  BY <1>1, <1>3 DEF vars
<1>4. ASSUME NEW p \in Procs, Step(p) PROVE Abstractly
  <2>1. CASE Insert(p) \/ Save(p) \/ Copy(p) \/ Claim(p) \/ Requeue(p) \/ CancelRow(p)
    BY <2>1, WritesAreSteps
  <2>2. CASE Attach(p)
    BY <2>2, AttachEffect DEF Attach, Abstractly
  <2>3. CASE \/ Check(p) \/ UploadAudit(p) \/ SaveRefused(p) \/ Prepare(p) \/ PrepareThrows(p)
             \/ CopyThrows(p) \/ SaveRowErrors(p) \/ CountJobs(p) \/ AddJob(p) \/ Reload(p)
             \/ QueuedAudit(p) \/ TakeJob(p) \/ Load(p) \/ FileExists(p) \/ Unqueue(p)
    BY <1>1, <2>3
    DEF Check, UploadAudit, SaveRefused, Prepare, PrepareThrows, CopyThrows, SaveRowErrors, CountJobs,
        AddJob, Reload, QueuedAudit, TakeJob, Load, FileExists, Unqueue
  <2> QED
    BY <1>4, <2>1, <2>2, <2>3, ImpossibleSteps DEF Step
<1>5. ASSUME NEW p \in Requests, Begin(p) PROVE Abstractly
  BY <1>1, <1>5 DEF Begin, BeginCreate, BeginRetry, BeginCancel, BeginRemove, BeginOn
<1>6. CASE Faults
  <2>1. ~(faults < MaxFaults)
    BY DEF FaultFree, IInv, TypeOK
  <2> QED
    BY <1>6, <2>1 DEF Faults, Fault, CallThrows, CommitLost, SweepThrows, Crash
<1> QED
  BY <1>2, <1>3, <1>4, <1>5, <1>6 DEF Next, Waiting

\* Lifecycle, while no call fails and the queue has room: the service implements
\* ImportLifecycle, where an import has a status and its rows are loaded or not.
\* Saving, claiming, requeueing and cancelling are its Advance, COPY its
\* LoadRows, and all the calls between them are not seen.
THEOREM Refinement == FaultFree => (Spec /\ []Room => Lifecycle)
<1> SUFFICES ASSUME FaultFree PROVE Spec /\ []Room => Lifecycle
  OBVIOUS
<1>1. Init => Promise!Init
  <2> SUFFICES ASSUME Init PROVE Promise!Init
    OBVIOUS
  <2>1. \A i \in Imports : rows[i].status = "NONE" /\ ~(commits[i] > 0)
    BY DEF Init, NoRow
  <2>2. [i \in Imports |-> commits[i] > 0] = [i \in Imports |-> FALSE]
    <3> DEFINE L(i) == commits[i] > 0
    <3>1. \A i \in Imports : L(i) = FALSE
      BY <2>1
    <3> HIDE DEF L
    <3>2. [i \in Imports |-> L(i)] = [i \in Imports |-> FALSE]
      BY <3>1, Zenon
    <3> QED
      BY <3>2 DEF L
  <2> QED
    BY <2>1, <2>2 DEF Promise!Init
<1>2. PInv /\ [Next]_vars =>
        [Promise!Next]_<<[i \in Imports |-> rows[i].status], [i \in Imports |-> commits[i] > 0]>>
  BY NextAbstractly, Stutters DEF Abstractly
<1> QED
  BY <1>1, <1>2, PInvariance, PTL DEF Spec, Lifecycle, Promise!Spec
=============================================================================
