-------------------------- MODULE ConnectionManager --------------------------
(***************************************************************************)
(* DatabaseConnectionManager: the registry of the customers' database      *)
(* connections, shared by all requests of the API process.                 *)
(*                                                                         *)
(* An entry is a DataSource with its SSH tunnel, if it has one.  A user is *)
(* a call of getOrCreateDataSource or withDataSource, an invalidator a     *)
(* call of DatasourcesService.update, which saves the datasource and then  *)
(* invalidates its entry.                                                  *)
(*                                                                         *)
(* The code is atomic from one await of I/O or of a timer to the next: the *)
(* promise reactions of one completed call all run before the next call    *)
(* completes.  So the step that ends an initialization also leases the     *)
(* entry to everybody who waits for it and resumes the invalidations that  *)
(* wait for it.                                                            *)
(***************************************************************************)
EXTENDS Naturals, FiniteSets

CONSTANTS
    Datasources,
    Tunnelled,             \* the datasources reached through an SSH tunnel
    Users,
    Foreign,               \* users of another organization than the datasource's
    Invalidators,
    Entries,               \* ids of connection entries, reused when forgotten
    MaxActiveDatasources,  \* mysql.maxActiveDatasources
    Operations,            \* what happens besides the users' calls
    MaxUpdates,            \* bound: updates of datasources
    None

ASSUME ConstantsAssumption ==
    /\ Tunnelled \subseteq Datasources
    /\ Foreign \subseteq Users
    /\ IsFiniteSet(Users)
    /\ Operations \subseteq {"cleanup", "update", "break", "shutdown"}
    /\ MaxActiveDatasources \in Nat \ {0} /\ MaxUpdates \in Nat
    /\ None \notin Entries \cup Datasources

VARIABLES
    registry,      \* the entry of each datasource, or None
    inFlight,      \* the datasources being initialized
    ahead,         \* for each of them, those that inFlight lists before it
    blocked,       \* the datasources being invalidated
    stage,         \* "accepting", "draining" (closeAll waits for inFlight) or "closed"
    entries,
    users,
    invalidators,
    closing,       \* the entries cleanupIdleDataSources and closeAll close
    version,       \* the version of each datasource's saved configuration
    updates

vars == <<registry, inFlight, ahead, blocked, stage, entries, users, invalidators,
          closing, version, updates>>

Entry == [open : BOOLEAN, healthy : BOOLEAN, version : Nat, active : Nat]
NoEntry == [open |-> FALSE, healthy |-> TRUE, version |-> 0, active |-> 0]

\* refresh, evict: closing the entry ent; resolve, secrets, connect: the other
\* awaits of initialize; waiting: for the initialization of another user.
User == [pc : {"idle", "refresh", "resolve", "secrets", "evict", "connect", "waiting", "using"},
         ds : Datasources \cup {None}, ent : Entries \cup {None}, version : Nat]
IdleUser == [pc |-> "idle", ds |-> None, ent |-> None, version |-> 0]

\* saved: the transaction of the update has committed.
Invalidator == [pc : {"idle", "saved", "awaitInit", "waitIdle", "close"},
                ds : Datasources \cup {None}, ent : Entries \cup {None}]
IdleInvalidator == [pc |-> "idle", ds |-> None, ent |-> None]

TypeOK ==
    /\ registry \in [Datasources -> Entries \cup {None}]
    /\ inFlight \subseteq Datasources
    /\ ahead \in [Datasources -> SUBSET Datasources]
    /\ blocked \subseteq Datasources
    /\ stage \in {"accepting", "draining", "closed"}
    /\ entries \in [Entries -> Entry]
    /\ users \in [Users -> User]
    /\ invalidators \in [Invalidators -> Invalidator]
    /\ closing \subseteq Entries
    /\ version \in [Datasources -> Nat]
    /\ updates \in Nat

Init ==
    /\ registry = [d \in Datasources |-> None]
    /\ inFlight = {}
    /\ ahead = [d \in Datasources |-> {}]
    /\ blocked = {}
    /\ stage = "accepting"
    /\ entries = [e \in Entries |-> NoEntry]
    /\ users = [u \in Users |-> IdleUser]
    /\ invalidators = [v \in Invalidators |-> IdleInvalidator]
    /\ closing = {}
    /\ version = [d \in Datasources |-> 0]
    /\ updates = 0

At(u, call) == users[u].pc = call

Registered == {d \in Datasources : registry[d] # None}

\* Nobody holds entry e any more.
Forgotten(e) ==
    /\ ~entries[e].open /\ entries[e].active = 0 /\ e \notin closing
    /\ \A u \in Users : users[u].ent # e
    /\ \A v \in Invalidators : invalidators[v].ent # e

\* closeEntry has destroyed the DataSource and closed the tunnel.
Closed(e) == entries' = [entries EXCEPT ![e] = [NoEntry EXCEPT !.active = entries[e].active]]
-----------------------------------------------------------------------------
(* acquire                                                                 *)

\* inFlight.set
StartInit(u, d, call, e) ==
    /\ inFlight' = inFlight \cup {d}
    /\ ahead' = [ahead EXCEPT ![d] = inFlight]
    /\ users' = [users EXCEPT ![u] = [pc |-> call, ds |-> d, ent |-> e, version |-> 0]]

Lease(u, d) ==
    LET e == registry[d] IN
    /\ e # None /\ u \notin Foreign
    /\ entries[e].healthy
    /\ entries' = [entries EXCEPT ![e].active = @ + 1]
    /\ users' = [users EXCEPT ![u] = [IdleUser EXCEPT !.pc = "using", !.ds = d, !.ent = e]]
    /\ UNCHANGED <<registry, inFlight, ahead>>

\* Mutant: the entry is replaced without a marker in inFlight.
RefreshUnmarked(u, d) ==
    LET e == registry[d] IN
    /\ e # None /\ u \notin Foreign
    /\ ~entries[e].healthy
    /\ registry' = [registry EXCEPT ![d] = None]
    /\ users' = [users EXCEPT ![u] = [pc |-> "refresh", ds |-> d, ent |-> e, version |-> 0]]
    /\ UNCHANGED <<entries, inFlight, ahead>>

\* The tunnel of the entry is down: the entry is closed, whoever uses it.
Refresh(u, d) ==
    LET e == registry[d] IN
    /\ e # None /\ u \notin Foreign
    /\ ~entries[e].healthy
    /\ registry' = [registry EXCEPT ![d] = None]
    /\ StartInit(u, d, "refresh", e)
    /\ UNCHANGED entries

Join(u, d) ==
    /\ registry[d] = None /\ d \in inFlight
    /\ users' = [users EXCEPT ![u] = [IdleUser EXCEPT !.pc = "waiting", !.ds = d]]
    /\ UNCHANGED <<registry, inFlight, ahead, entries>>

Create(u, d) ==
    /\ registry[d] = None /\ d \notin inFlight
    /\ StartInit(u, d, "resolve", None)
    /\ UNCHANGED <<registry, entries>>

Acquire(u) ==
    /\ At(u, "idle") /\ stage = "accepting"
    /\ \E d \in Datasources \ blocked : Lease(u, d) \/ Refresh(u, d) \/ Join(u, d) \/ Create(u, d)
    /\ UNCHANGED <<blocked, stage, invalidators, closing, version, updates>>

\* The operation ends; getOrCreateDataSource gives its lease back at once.
FinishOperation(u) ==
    LET e == users[u].ent IN
    /\ At(u, "using")
    /\ entries' = [entries EXCEPT ![e].active = @ - 1]
    /\ users' = [users EXCEPT ![u] = IdleUser]
    /\ UNCHANGED <<registry, inFlight, ahead, blocked, stage, invalidators, closing, version, updates>>
-----------------------------------------------------------------------------
(* initialize                                                              *)

Refreshed(u) ==
    /\ At(u, "refresh")
    /\ Closed(users[u].ent)
    /\ users' = [users EXCEPT ![u] = [@ EXCEPT !.pc = "resolve", !.ent = None]]
    /\ UNCHANGED <<registry, inFlight, ahead, blocked, stage, invalidators, closing, version, updates>>

HasCapacity(d) == Cardinality(Registered) + Cardinality(ahead[d]) < MaxActiveDatasources

\* The resolver reads the datasource; it does not find one of another
\* organization.
ReadDatasource(u) ==
    /\ At(u, "resolve") /\ u \notin Foreign
    /\ users' = [users EXCEPT ![u] = [@ EXCEPT !.pc = "secrets", !.version = version[users[u].ds]]]
    /\ UNCHANGED <<registry, inFlight, ahead, blocked, stage, entries, invalidators, closing, version, updates>>

\* The secrets are decrypted and the host is validated; ensureCapacity finds
\* room, or evicts an entry without operations (the least recently used one:
\* any of them here).
EnsureCapacity(u) ==
    LET d == users[u].ds IN
    /\ At(u, "secrets")
    /\ \/ /\ HasCapacity(d)
          /\ users' = [users EXCEPT ![u] = [@ EXCEPT !.pc = "connect"]]
          /\ UNCHANGED registry
       \/ /\ ~HasCapacity(d)
          /\ \E c \in Registered :
               /\ entries[registry[c]].active = 0
               /\ registry' = [registry EXCEPT ![c] = None]
               /\ users' = [users EXCEPT ![u] = [@ EXCEPT !.pc = "evict", !.ent = registry[c]]]
    /\ UNCHANGED <<inFlight, ahead, blocked, stage, entries, invalidators, closing, version, updates>>

Evicted(u) ==
    /\ At(u, "evict")
    /\ Closed(users[u].ent)
    /\ users' = [users EXCEPT ![u] = [@ EXCEPT !.pc = "connect", !.ent = None]]
    /\ UNCHANGED <<registry, inFlight, ahead, blocked, stage, invalidators, closing, version, updates>>

\* inFlight.delete
EndInit(d) ==
    /\ inFlight' = inFlight \ {d}
    /\ ahead' = [c \in Datasources |-> IF c = d THEN {} ELSE ahead[c] \ {d}]

WaitingFor(d) == {w \in Users : At(w, "waiting") /\ users[w].ds = d}

AwaitingInit(d) == {v \in Invalidators : invalidators[v].pc = "awaitInit" /\ invalidators[v].ds = d}

\* Register entry e for the datasource of u, with its leases.
Register(u, e, leased, active) ==
    LET d == users[u].ds IN
    /\ registry' = [registry EXCEPT ![d] = e]
    /\ entries' = [entries EXCEPT ![e] =
                     [open |-> TRUE, healthy |-> TRUE, version |-> users[u].version, active |-> active]]
    /\ users' = [w \in Users |->
                   IF w \in leased THEN [IdleUser EXCEPT !.pc = "using", !.ds = d, !.ent = e]
                   ELSE IF w \in WaitingFor(d) THEN IdleUser ELSE users[w]]
    /\ invalidators' = [v \in Invalidators |->
                          IF v \in AwaitingInit(d)
                            THEN [invalidators[v] EXCEPT !.pc = "waitIdle", !.ent = e]
                            ELSE invalidators[v]]
    /\ EndInit(d)
    /\ UNCHANGED <<blocked, stage, closing, version, updates>>

\* Mutant: only the user that initialized the entry counts as an operation.
ConnectedForOne(u) ==
    /\ At(u, "connect")
    /\ \E e \in Entries :
         Forgotten(e) /\ Register(u, e, {u} \cup (WaitingFor(users[u].ds) \ Foreign), 1)

\* Mutant: those who waited are not asked for their organization.
ConnectedForAll(u) ==
    LET leased == {u} \cup WaitingFor(users[u].ds) IN
    /\ At(u, "connect")
    /\ \E e \in Entries : Forgotten(e) /\ Register(u, e, leased, Cardinality(leased))

\* Tunnel and DataSource are up: the user and those who waited lease the entry.
Connected(u) ==
    LET leased == {u} \cup (WaitingFor(users[u].ds) \ Foreign) IN
    /\ At(u, "connect")
    /\ \E e \in Entries : Forgotten(e) /\ Register(u, e, leased, Cardinality(leased))

\* Mutant: those who wait are not told.
FailsAlone(u) ==
    LET d == users[u].ds IN
    /\ users[u].pc \in {"refresh", "resolve", "secrets", "evict", "connect"}
    /\ IF users[u].ent = None THEN UNCHANGED entries ELSE Closed(users[u].ent)
    /\ users' = [users EXCEPT ![u] = IdleUser]
    /\ invalidators' = [v \in Invalidators |->
                          IF v \in AwaitingInit(d) THEN IdleInvalidator ELSE invalidators[v]]
    /\ blocked' = IF AwaitingInit(d) # {} THEN blocked \ {d} ELSE blocked
    /\ EndInit(d)
    /\ UNCHANGED <<registry, stage, closing, version, updates>>

\* Closing the old entry, reading the configuration (or a disabled one),
\* finding room or connecting fails: the user and those who wait get the
\* error, and invalidations find nothing to close.
InitFails(u) ==
    LET d == users[u].ds IN
    /\ users[u].pc \in {"refresh", "resolve", "secrets", "evict", "connect"}
    /\ IF users[u].ent = None THEN UNCHANGED entries ELSE Closed(users[u].ent)
    /\ users' = [w \in Users |-> IF w \in {u} \cup WaitingFor(d) THEN IdleUser ELSE users[w]]
    /\ invalidators' = [v \in Invalidators |->
                          IF v \in AwaitingInit(d) THEN IdleInvalidator ELSE invalidators[v]]
    /\ blocked' = IF AwaitingInit(d) # {} THEN blocked \ {d} ELSE blocked
    /\ EndInit(d)
    /\ UNCHANGED <<registry, stage, closing, version, updates>>
-----------------------------------------------------------------------------
(* The tunnel of an entry goes down; the idle cleanup.                     *)

TunnelBreaks ==
    /\ "break" \in Operations
    /\ \E d \in Registered \cap Tunnelled :
         /\ entries[registry[d]].healthy
         /\ entries' = [entries EXCEPT ![registry[d]] = [@ EXCEPT !.healthy = FALSE]]
    /\ UNCHANGED <<registry, inFlight, ahead, blocked, stage, users, invalidators, closing, version, updates>>

\* Any set of unused entries may have been idle for longer than the timeout.
\* closeAll stops the timer.
Cleanup ==
    /\ "cleanup" \in Operations /\ stage = "accepting"
    /\ \E idle \in SUBSET {d \in Registered : entries[registry[d]].active = 0} \ {{}} :
         /\ registry' = [d \in Datasources |-> IF d \in idle THEN None ELSE registry[d]]
         /\ closing' = closing \cup {registry[d] : d \in idle}
    /\ UNCHANGED <<inFlight, ahead, blocked, stage, entries, users, invalidators, version, updates>>

\* A close of cleanupIdleDataSources or closeAll ends.  closeAll has waited
\* until the entry was idle or connectTimeoutMs had passed.
Close ==
    /\ \E e \in closing : Closed(e) /\ closing' = closing \ {e}
    /\ UNCHANGED <<registry, inFlight, ahead, blocked, stage, users, invalidators, version, updates>>
-----------------------------------------------------------------------------
(* DatasourcesService.update and invalidateDatasource                      *)

Update(v) ==
    /\ "update" \in Operations /\ updates < MaxUpdates
    /\ invalidators[v].pc = "idle"
    /\ \E d \in Datasources :
         /\ version' = [version EXCEPT ![d] = @ + 1]
         /\ invalidators' = [invalidators EXCEPT ![v] = [IdleInvalidator EXCEPT !.pc = "saved", !.ds = d]]
    /\ updates' = updates + 1
    /\ UNCHANGED <<registry, inFlight, ahead, blocked, stage, entries, users, closing>>

InvalidatorAt(v, call) == invalidators[v].pc = call

\* Mutant: an initialization under way is taken for nothing to close.
SkipInitialization(v, d) ==
    /\ d \in inFlight
    /\ invalidators' = [invalidators EXCEPT ![v] = IdleInvalidator]
    /\ blocked' = blocked \ {d}
    /\ UNCHANGED registry

AwaitInitialization(v, d) ==
    /\ d \in inFlight
    /\ invalidators' = [invalidators EXCEPT ![v] = [@ EXCEPT !.pc = "awaitInit"]]
    /\ blocked' = blocked \cup {d}
    /\ UNCHANGED registry

\* Mutant: the block is only lifted after a close.
NothingToCloseBlocked(v, d) ==
    /\ d \notin inFlight /\ registry[d] = None
    /\ invalidators' = [invalidators EXCEPT ![v] = IdleInvalidator]
    /\ blocked' = blocked \cup {d}
    /\ UNCHANGED registry

NothingToClose(v, d) ==
    /\ d \notin inFlight /\ registry[d] = None
    /\ invalidators' = [invalidators EXCEPT ![v] = IdleInvalidator]
    /\ blocked' = blocked \ {d}
    /\ UNCHANGED registry

\* An idle entry leaves the registry at once, one in use after a wait.
CloseEntry(v, d) ==
    LET e == registry[d]
        Then(call) == [invalidators EXCEPT ![v] = [@ EXCEPT !.pc = call, !.ent = e]] IN
    /\ d \notin inFlight /\ e # None
    /\ blocked' = blocked \cup {d}
    /\ IF entries[e].active > 0
         THEN invalidators' = Then("waitIdle") /\ UNCHANGED registry
         ELSE invalidators' = Then("close") /\ registry' = [registry EXCEPT ![d] = None]

Invalidate(v) ==
    LET d == invalidators[v].ds IN
    /\ InvalidatorAt(v, "saved")
    /\ AwaitInitialization(v, d) \/ NothingToClose(v, d) \/ CloseEntry(v, d)
    /\ UNCHANGED <<inFlight, ahead, stage, entries, users, closing, version, updates>>

\* waitForIdle has seen the entry idle, or connectTimeoutMs has passed; the
\* registry forgets whatever entry the datasource has by now.
StopWaiting(v) ==
    /\ InvalidatorAt(v, "waitIdle")
    /\ registry' = [registry EXCEPT ![invalidators[v].ds] = None]
    /\ invalidators' = [invalidators EXCEPT ![v] = [@ EXCEPT !.pc = "close"]]
    /\ UNCHANGED <<inFlight, ahead, blocked, stage, entries, users, closing, version, updates>>

\* closeEntry has ended, or thrown.
Invalidated(v) ==
    /\ InvalidatorAt(v, "close")
    /\ Closed(invalidators[v].ent)
    /\ invalidators' = [invalidators EXCEPT ![v] = IdleInvalidator]
    /\ blocked' = blocked \ {invalidators[v].ds}
    /\ UNCHANGED <<registry, inFlight, ahead, stage, users, closing, version, updates>>
-----------------------------------------------------------------------------
(* closeAll                                                                *)

Shutdown ==
    /\ "shutdown" \in Operations /\ stage = "accepting"
    /\ stage' = "draining"
    /\ UNCHANGED <<registry, inFlight, ahead, blocked, entries, users, invalidators, closing, version, updates>>

\* Mutant: what is being initialized is not awaited.
CollectAtOnce ==
    /\ stage = "draining"
    /\ stage' = "closed"
    /\ closing' = closing \cup {registry[d] : d \in Registered}
    /\ registry' = [d \in Datasources |-> None]
    /\ UNCHANGED <<inFlight, ahead, blocked, entries, users, invalidators, version, updates>>

Collect ==
    /\ stage = "draining" /\ inFlight = {}
    /\ stage' = "closed"
    /\ closing' = closing \cup {registry[d] : d \in Registered}
    /\ registry' = [d \in Datasources |-> None]
    /\ UNCHANGED <<inFlight, ahead, blocked, entries, users, invalidators, version, updates>>
-----------------------------------------------------------------------------
Initialize(u) ==
    \/ Refreshed(u) \/ ReadDatasource(u) \/ EnsureCapacity(u) \/ Evicted(u) \/ Connected(u)
    \/ InitFails(u)

InvalidateStep(v) == Invalidate(v) \/ StopWaiting(v) \/ Invalidated(v)

Next ==
    \/ \E u \in Users : Acquire(u) \/ FinishOperation(u) \/ Initialize(u)
    \/ \E v \in Invalidators : Update(v) \/ InvalidateStep(v)
    \/ TunnelBreaks \/ Cleanup \/ Close \/ Shutdown \/ Collect

Spec == Init /\ [][Next]_vars

\* Every awaited call ends: the resolver, closing, and connecting, which
\* connectTimeoutMs bounds.  waitForIdle has a deadline.  An operation of a
\* user need not end.
LiveSpec ==
    /\ Spec
    /\ \A u \in Users : WF_vars(Initialize(u))
    /\ \A v \in Invalidators : WF_vars(InvalidateStep(v))
    /\ WF_vars(Close) /\ WF_vars(Collect)
-----------------------------------------------------------------------------
Initializing(u) == users[u].pc \in {"refresh", "resolve", "secrets", "evict", "connect"}

\* activeOperations counts the users of an entry, those of an entry closed
\* under them included: no path of acquire forgets or repeats a lease.
LeaseCount ==
    \A e \in Entries :
        entries[e].active = Cardinality({u \in Users : At(u, "using") /\ users[u].ent = e})

\* Simultaneous requests create one DataSource: a datasource is initialized
\* by one user, and only while it has no registered entry to overwrite.
OneInitialization ==
    \A u \in Users : Initializing(u) =>
        /\ registry[users[u].ds] = None
        /\ \A w \in Users : Initializing(w) /\ users[w].ds = users[u].ds => w = u

\* Neither eviction nor the idle cleanup closes an entry somebody uses, also
\* when its user got it after waiting for another one.
InUseIsKept ==
    \A u \in Users : At(u, "using") /\ stage # "closed" =>
        /\ users[u].ent \notin closing
        /\ \A w \in Users : At(w, "evict") => users[w].ent # users[u].ent

\* Users only get entries of their own organization.
OwnOrganization == \A u \in Foreign : ~At(u, "using")

\* An entry on an outdated configuration, registered or under way, is always
\* about to be invalidated: an update is not lost to an initialization that
\* read the datasource before it.
StaleIsPending ==
    \A d \in Datasources :
        \/ registry[d] # None /\ entries[registry[d]].version < version[d]
        \/ \E u \in Users : users[u].ds = d /\ users[u].pc \in {"secrets", "evict", "connect"}
                            /\ users[u].version < version[d]
        => \E v \in Invalidators :
             invalidators[v].ds = d /\ invalidators[v].pc \in {"saved", "awaitInit", "waitIdle"}

\* Somebody is closing entry e.
BeingClosed(e) ==
    \/ e \in closing
    \/ \E u \in Users : users[u].pc \in {"refresh", "evict"} /\ users[u].ent = e
    \/ \E v \in Invalidators : invalidators[v].ent = e

\* "Every customer DataSource and SSH tunnel is destroyed on idle timeout,
\* invalidation, deletion, or OnApplicationShutdown; nothing is left open"
\* (SECURITY.md): an open entry is registered or being closed.  So it is
\* while a datasource is invalidated once at a time; of two overlapping
\* invalidations, the second drops the entry made after the first.
NothingLeaks ==
    \A e \in Entries : entries[e].open =>
        (\E d \in Datasources : registry[d] = e) \/ BeingClosed(e)

\* A caller that joins an initialization is answered.
WaiterIsAnswered == \A u \in Users : At(u, "waiting") ~> ~At(u, "waiting")

\* An invalidation ends and lifts its block.
BlockIsLifted == \A d \in Datasources : d \in blocked ~> d \notin blocked

\* After a shutdown every entry gets closed and none is opened.
ShutdownCloses == stage = "draining" ~> [](\A e \in Entries : ~entries[e].open)
=============================================================================
