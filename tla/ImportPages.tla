------------------------------ MODULE ImportPages ------------------------------
(***************************************************************************)
(* The pages of the web application: the wizard, the list of imports and   *)
(* the page of one import, over the query cache that serves the last two,  *)
(* and over a server that moves the imports on.  The query cache is        *)
(* TanStack Query, as far as the application uses it: a query fetches when *)
(* its page is opened, when it polls and when a mutation invalidates it.   *)
(***************************************************************************)
EXTENDS ImportWizard, ImportStatus

CONSTANTS
    Imports,
    MaxServerSteps,  \* bound: the version up to which the server moves an import on
    Mutations,       \* the calls that buttons send (a bound of their number)
    MaxFailures      \* bound: calls whose answer is lost

VARIABLES
    server,     \* the imports: their status, "NONE" yet or "GONE", and a version (history)
    loading,    \* how many workers load each of them
    where,      \* the page that is open
    queries,    \* the query cache: one query per import, and the list's
    calls,      \* the mutations that buttons have sent
    failures,
    known,      \* history: the version of each import this user knows to have made
    excused,    \* history: what this user cannot see has happened
    undone      \* history: a status that is not to change has been saved over

pages == <<server, loading, where, queries, calls, failures, known, excused, undone>>
vars == <<wizard, pages>>

ASSUME PagesAssumption ==
    /\ {MaxServerSteps, MaxFailures} \subseteq Nat
    /\ Imports \cap {"wizard", "list", "refused", "duplicate", Null} = {}

Keys == Imports \cup {"list"}

\* data: what is shown; fetch: which attempt is under way; read: its answer
NoData == [i \in {} |-> Null]
NewQuery == [data |-> NoData, fetch |-> "none", read |-> NoData, isError |-> FALSE]
Send(query) == [query EXCEPT !.fetch = "first", !.read = NoData]

\* A mutation: how far the server is with it ("queueing" while a retry puts its
\* job in the queue), the version it has made, and whether its button is shown.
NoCall == [op |-> Null, imp |-> Null, version |-> 0, stage |-> "unused", here |-> FALSE]
Over == [NoCall EXCEPT !.stage = "over"]
Pending(m) == calls[m].stage \notin {"unused", "over"}

OfKey(key) == IF key = "list" THEN Imports ELSE {key}

HasData(query) == query.data # NoData
StatusShown(i) == queries[i].data[i].status

Init ==
    /\ WizardInit
    /\ where \in {"wizard", "list"}
    /\ server \in [Imports -> {[status |-> s, version |-> 0] :
                               s \in IF where = "wizard" THEN {"NONE"} ELSE Status}]
    /\ queries = [q \in Keys |-> IF q = where THEN Send(NewQuery) ELSE NewQuery]
    /\ loading = [i \in Imports |-> IF server[i].status = "PROCESSING" THEN 1 ELSE 0]
    /\ calls = [m \in Mutations |-> NoCall]
    /\ failures = 0
    /\ known = [i \in Imports |-> 0]
    /\ excused = FALSE /\ undone = FALSE

NON_TERMINAL_STATUSES == {"UPLOADED", "VALIDATING", "QUEUED", "PROCESSING"}

-----------------------------------------------------------------------------
(* Queries                                                                 *)

\* Opening a page: its query is fetched, unless a fetch is still under way.
Mounted(qs, key) == IF qs[key].fetch = "none" THEN [qs EXCEPT ![key] = Send(@)] ELSE qs

\* Leaving it: the fetch of one import has its signal and is aborted.
Unmounted(qs, key) == IF key \in Imports THEN [qs EXCEPT ![key].fetch = "none", ![key].read = NoData] ELSE qs

\* Another page is shown; nothing of the wizard's state is kept, nor which
\* buttons wait for an answer.
Opens(to) ==
    /\ where' = to
    /\ calls' = [m \in Mutations |-> [calls[m] EXCEPT !.here = FALSE]]
    /\ Leaves
    /\ crossed' = (crossed /\ upload' # Null)

\* The list, or an import it shows.  A session begins with the wizard, if it
\* has one; an upload goes on when its page is left.
Visit(to) ==
    /\ to # where
    /\ \/ to = "list"
       \/ where = "list" /\ HasData(queries["list"]) /\ queries["list"].data[to].status \in Status
    /\ UNCHANGED upload /\ Opens(to)
    /\ queries' = Mounted(Unmounted(queries, where), to)
    /\ excused' = (excused \/ upload # Null \/ queries["list"].fetch # "none" \/ \E m \in Mutations : Pending(m))
    /\ UNCHANGED <<server, loading, failures, known, undone>>

ServerReads(key) ==
    /\ queries[key].fetch # "none" /\ queries[key].read = NoData
    /\ key # "list" => server[key].status \in Status
    /\ queries' = [queries EXCEPT ![key].read = [i \in OfKey(key) |-> server[i]]]
    /\ UNCHANGED <<wizard, server, loading, where, calls, failures, known, excused, undone>>

Answered(key) ==
    /\ queries[key].read # NoData
    /\ queries' = [queries EXCEPT ![key] = [NewQuery EXCEPT !.data = queries[key].read]]
    /\ UNCHANGED <<wizard, server, loading, where, calls, failures, known, excused, undone>>

\* Lost, or not found; tried once again.  Nothing polls an import that is over.
FetchFails(key) ==
    LET found == key = "list" \/ server[key].status \in Status
        query == queries[key] IN
    /\ query.fetch # "none" /\ (found => failures < MaxFailures)
    /\ failures' = IF found THEN failures + 1 ELSE failures
    /\ queries' = [queries EXCEPT ![key] =
                      IF query.fetch = "first" THEN [query EXCEPT !.fetch = "second", !.read = NoData]
                      ELSE [NewQuery EXCEPT !.data = query.data, !.isError = TRUE]]
    /\ excused' = (excused \/ query.fetch = "second")
    /\ UNCHANGED <<wizard, server, loading, where, calls, known, undone>>

\* Mutant: an import that is being created is not polled.
PollsOnceQueued(query) ==
    ~HasData(query) \/ \E i \in DOMAIN query.data : query.data[i].status \in {"QUEUED", "PROCESSING"}

\* refetchInterval
Polls(query) == ~HasData(query) \/ \E i \in DOMAIN query.data : query.data[i].status \in NON_TERMINAL_STATUSES

Poll(i) ==
    /\ where = i /\ queries[i].fetch = "none" /\ Polls(queries[i])
    /\ queries' = [queries EXCEPT ![i] = Send(@)]
    /\ UNCHANGED <<wizard, server, loading, where, calls, failures, known, excused, undone>>

\* Mutant: a fetch that is under way is trusted to bring the news.
InvalidateIdle(qs, open) ==
    [q \in Keys |-> IF q = open /\ qs[q].fetch = "none" THEN Send(qs[q]) ELSE qs[q]]

\* invalidateQueries(['imports']): the open page fetches again, and what its
\* query was reading is dropped, unless it has no data yet.
Invalidated(qs, open) ==
    [q \in Keys |-> IF q = open /\ (qs[q].fetch = "none" \/ HasData(qs[q])) THEN Send(qs[q]) ELSE qs[q]]
-----------------------------------------------------------------------------
(* Buttons                                                                 *)

\* The statuses for which the page of an import, and the list, offer a button
Offered(op) == CASE op = "retry" -> {"FAILED"}
                 [] op = "cancel" -> {"QUEUED"}
                 [] OTHER -> RemovableStatuses
OfferedBy(op, i) ==
    \/ where = i /\ op # "remove" /\ ~queries[i].isError /\ HasData(queries[i])
       /\ StatusShown(i) \in Offered(op)
    \/ where = "list" /\ i \in DOMAIN queries["list"].data
       /\ queries["list"].data[i].status \in Offered(op)

\* A button is disabled while the mutation it has sent is pending, but for those
\* behind a dialog: cancelling on the page of an import, and deleting.
Disabled(op) ==
    /\ op = "retry" \/ (op = "cancel" /\ where = "list")
    /\ \E m \in Mutations : Pending(m) /\ calls[m].op = op /\ calls[m].here

Press(op, i, m) ==
    /\ OfferedBy(op, i) /\ ~Disabled(op)
    /\ calls[m].stage = "unused"
    /\ calls' = [calls EXCEPT ![m] = [op |-> op, imp |-> i, version |-> 0, stage |-> "sent", here |-> TRUE]]
    /\ UNCHANGED <<wizard, server, loading, where, queries, failures, known, excused, undone>>

Steps(i) == server[i].version < MaxServerSteps
Becomes(i, status) == server' = [server EXCEPT ![i] = [status |-> status, version |-> @.version + 1]]

\* What the services allow (retry, cancel, remove)
Allowed(op) == CASE op = "retry" -> RetryableStatuses
                 [] op = "cancel" -> {"QUEUED"}
                 [] OTHER -> RemovableStatuses
Result(op) == CASE op = "retry" -> "QUEUED" [] op = "cancel" -> "CANCELLED" [] OTHER -> "GONE"

\* A retry has still to put its job in the queue.
ServeCall(m) ==
    LET asked == calls[m] IN
    /\ asked.stage = "sent" /\ server[asked.imp].status \in Allowed(asked.op)
    /\ Becomes(asked.imp, Result(asked.op))
    /\ calls' = [calls EXCEPT ![m] = [asked EXCEPT !.version = server'[asked.imp].version,
                                       !.stage = IF asked.op = "retry" THEN "queueing" ELSE "served"]]
    /\ UNCHANGED <<wizard, loading, where, queries, failures, known, excused, undone>>

Enqueued(m) ==
    /\ calls[m].stage = "queueing"
    /\ calls' = [calls EXCEPT ![m].stage = "served"]
    /\ UNCHANGED <<wizard, server, loading, where, queries, failures, known, excused, undone>>

\* The queue refuses it: the import is saved as failed, whatever has become of
\* it since the retry queued it, and the answer is an error.
EnqueueFails(m) ==
    /\ calls[m].stage = "queueing"
    /\ Becomes(calls[m].imp, "FAILED")
    /\ calls' = [calls EXCEPT ![m].stage = "refused"]
    /\ undone' = TRUE
    /\ UNCHANGED <<wizard, loading, where, queries, failures, known, excused>>

\* onSuccess
CallAnswered(m) ==
    LET done == calls[m] IN
    /\ done.stage = "served"
    /\ known' = [known EXCEPT ![done.imp] = IF @ < done.version THEN done.version ELSE @]
    /\ queries' = Invalidated(queries, where)
    /\ calls' = [calls EXCEPT ![m] = Over]
    /\ UNCHANGED <<wizard, server, loading, where, failures, excused, undone>>

\* The call is refused, or its answer is lost; nothing is invalidated then.
CallFails(m) ==
    /\ Pending(m)
    /\ \/ \/ calls[m].stage = "refused"
          \/ calls[m].stage = "sent" /\ server[calls[m].imp].status \notin Allowed(calls[m].op)
          /\ UNCHANGED <<failures, excused>>
       \/ failures < MaxFailures /\ failures' = failures + 1
          /\ excused' = (excused \/ calls[m].stage # "sent")
    /\ calls' = [calls EXCEPT ![m] = Over]
    /\ UNCHANGED <<wizard, server, loading, where, queries, known, undone>>
-----------------------------------------------------------------------------
(* The upload, and the server                                              *)

\* create: the import is queued, or done; or it is refused, with or without a
\* row that says so, which a worker may have claimed before it was failed.
ServeUpload(i) ==
    /\ upload # Null /\ upload.outcome = Null
    /\ server[i].status = "NONE"
    /\ \/ \E status \in {"QUEUED"} \cup DoneStatuses :
            Becomes(i, status) /\ upload' = [upload EXCEPT !.outcome = i] /\ UNCHANGED loading
       \/ /\ Becomes(i, "FAILED") /\ upload' = [upload EXCEPT !.outcome = "refused"]
          /\ \E claimed \in {0, 1} : loading' = [loading EXCEPT ![i] = @ + claimed]
       \/ \E answer \in {"refused", "duplicate"} :
            upload' = [upload EXCEPT !.outcome = answer] /\ UNCHANGED <<server, loading>>
    /\ UNCHANGED <<page, reading, details, edits, crossed, where, queries, calls, failures, known, excused, undone>>

\* onSuccess, and then the page of the import is opened.
UploadAnswered ==
    /\ upload # Null /\ upload.outcome \in Imports
    /\ upload' = Null /\ Opens(upload.outcome)
    /\ known' = [known EXCEPT ![upload.outcome] = 1]
    /\ queries' = Mounted(IF where = upload.outcome THEN Invalidated(queries, where)
                          ELSE Unmounted(Invalidated(queries, where), where), upload.outcome)
    /\ UNCHANGED <<server, loading, failures, excused, undone>>

UploadFails ==
    /\ upload # Null
    /\ \/ upload.outcome \in {"refused", "duplicate"} /\ UploadRejected(upload.outcome)
          /\ UNCHANGED failures
       \/ failures < MaxFailures /\ UploadRejected("refused")
          /\ failures' = failures + 1
    /\ UNCHANGED <<server, loading, where, queries, calls, known, excused, undone>>

Wizard == where = "wizard" /\ WizardEvent /\ UNCHANGED pages

\* The requests and the workers of this server move an import on.
Advance(i) ==
    /\ Steps(i) /\ server[i].status \in NON_TERMINAL_STATUSES \ {"PROCESSING"}
    /\ \E status \in allowedTransitions[server[i].status] :
        /\ Becomes(i, status)
        /\ loading' = IF status = "PROCESSING" THEN [loading EXCEPT ![i] = @ + 1] ELSE loading
    /\ UNCHANGED <<wizard, where, queries, calls, failures, known, excused, undone>>

\* A worker saves what it has made of the import, over whatever it is now.
Finishes(i) ==
    /\ Steps(i) /\ loading[i] > 0
    /\ loading' = [loading EXCEPT ![i] = @ - 1]
    /\ \E status \in allowedTransitions["PROCESSING"] : Becomes(i, status)
    /\ undone' = (undone \/ server[i].status # "PROCESSING")
    /\ UNCHANGED <<wizard, where, queries, calls, failures, known, excused>>

\* Another user retries it, which may fail later, or deletes it.
ByAnother(i) ==
    /\ Steps(i)
    /\ \/ \E op \in {"retry", "remove"} : server[i].status \in Allowed(op) /\ Becomes(i, Result(op))
       \/ server[i].status # "NONE" /\ Becomes(i, "FAILED")
    /\ excused' = TRUE
    /\ UNCHANGED <<wizard, loading, where, queries, calls, failures, known, undone>>

Next ==
    \/ Wizard
    \/ \E to \in Keys : Visit(to)
    \/ \E key \in Keys : ServerReads(key) \/ Answered(key) \/ FetchFails(key)
    \/ \E i \in Imports :
         \/ Poll(i) \/ ServeUpload(i) \/ Advance(i) \/ Finishes(i) \/ ByAnother(i)
         \/ \E op \in {"retry", "cancel", "remove"}, m \in Mutations : Press(op, i, m)
    \/ \E m \in Mutations : ServeCall(m) \/ Enqueued(m) \/ EnqueueFails(m) \/ CallAnswered(m) \/ CallFails(m)
    \/ UploadAnswered \/ UploadFails

\* Polling goes on, and requests are served and answered, or fail.
Fairness ==
    /\ \A key \in Keys : WF_vars(ServerReads(key) \/ Answered(key) \/ FetchFails(key))
    /\ \A i \in Imports : WF_vars(Poll(i))
    /\ \A m \in Mutations :
         WF_vars(ServeCall(m) \/ Enqueued(m) \/ EnqueueFails(m) \/ CallAnswered(m) \/ CallFails(m))

Spec == Init /\ [][Next]_vars /\ Fairness
-----------------------------------------------------------------------------
(* Properties                                                              *)

Open(i) == where = i /\ HasData(queries[i]) /\ ~queries[i].isError

\* A page that has nothing to fetch shows its user at least what his own
\* uploads, retries and cancellations have made of the import, however their
\* answers cross the page's polling; unless he left the page before an answer
\* came, or answers were lost.
ReadYourWrites ==
    ~excused =>
        \A i \in Imports :
            Open(i) /\ queries[i].fetch = "none" => queries[i].data[i].version >= known[i]

\* The page of an import comes to show what the import has become and keeps
\* doing so, though polling stops at a status that is not final for ever: as
\* long as only this page retries it and its answers come, no retry is refused
\* once it has queued the import, and no worker saves over a later status.
\* (Of such a change nothing tells the page: what it shows stays as it is.)
PageCatchesUp ==
    []~(excused \/ undone) => \A i \in Imports : []<>(Open(i) => queries[i].data[i] = server[i])
=============================================================================
