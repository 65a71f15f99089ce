---------------------- MODULE ConnectionManager_proofs -----------------------
(***************************************************************************)
(* Proofs about ConnectionManager, for every number of datasources, users, *)
(* invalidations and entries.  The inductive invariant has one part for    *)
(* each question: leases, initializations, the registry, entries that are  *)
(* being closed, organizations, stale configurations.  A lemma shows that  *)
(* every step keeps a part, given the parts it needs.                      *)
(***************************************************************************)
EXTENDS ConnectionManagerEffects

-----------------------------------------------------------------------------
(* Leases                                                                  *)

\* LeaseCount survives a step that changes no lease and no user of an entry.
LEMMA SameUsing ==
    ASSUME LeaseCount, \A e \in Entries : entries'[e].active = entries[e].active,
           \A e \in Entries : Using(e)' = Using(e)
    PROVE  LeaseCount'
<1>1. \A e \in Entries : entries'[e].active = Cardinality(Using(e)')
  BY DEF LeaseCount, Using
<1> QED BY <1>1 DEF LeaseCount, Using

\* The users of the entries stay while one who uses none does not start to.
LEMMA NotUsing ==
    ASSUME NEW u \in Users, ~At(u, "using"), users'[u].pc # "using", OthersStay(u)
    PROVE  \A e \in Entries : Using(e)' = Using(e)
BY DEF Using, At, OthersStay

\* A lease that acquire takes is counted.
LEMMA AcquireLeases ==
    ASSUME TypeOK, ShapeOK, LeaseCount, NEW u \in Users, Acquire(u)
    PROVE  LeaseCount'
<1>1. PICK d \in Datasources : Lease(u, d) \/ Refresh(u, d) \/ Join(u, d) \/ Create(u, d)
  BY DEF Acquire
<1>2. CASE Lease(u, d)
  <2>1. PICK e \in Entries :
          /\ UserAt(u, "idle", None, None) /\ Becomes(u, "using", d, e) /\ OthersStay(u)
          /\ \A x \in Entries : entries'[x].active = IF x = e THEN entries[x].active + 1 ELSE entries[x].active
    BY <1>2, LeaseEffect
  <2>2. Using(e)' = Using(e) \cup {u} /\ u \notin Using(e)
    BY <2>1 DEF Using, At, UserAt, Becomes, OthersStay
  <2>3. \A x \in Entries \ {e} : Using(x)' = Using(x)
    BY <2>1 DEF Using, At, UserAt, Becomes, OthersStay
  <2>4. Cardinality(Using(e)') = Cardinality(Using(e)) + 1
    BY <2>2, UsingFinite, FS_AddElement
  <2>5. \A x \in Entries : entries[x].active = Cardinality(Using(x))
    BY DEF LeaseCount, Using
  <2>6. \A x \in Entries : entries'[x].active = Cardinality(Using(x)')
    BY <2>1, <2>3, <2>4, <2>5
  <2> QED BY <2>6 DEF LeaseCount, Using
<1>3. CASE Refresh(u, d) \/ Join(u, d) \/ Create(u, d)
  <2>1. ~At(u, "using") /\ users'[u].pc # "using" /\ OthersStay(u)
    BY <1>3, RefreshEffect, JoinEffect, CreateEffect DEF UserAt, Becomes, At
  <2>2. UNCHANGED entries
    BY <1>3 DEF Refresh, Join, Create
  <2> QED BY <2>1, <2>2, NotUsing, SameUsing
<1> QED BY <1>1, <1>2, <1>3

\* A lease that is given back is counted.
LEMMA FinishLeases ==
    ASSUME TypeOK, ShapeOK, LeaseCount, NEW u \in Users, FinishOperation(u)
    PROVE  LeaseCount'
<1>1. PICK e \in Entries :
        /\ At(u, "using") /\ users[u].ent = e /\ Becomes(u, "idle", None, None) /\ OthersStay(u)
        /\ \A x \in Entries : entries'[x].active = IF x = e THEN entries[x].active - 1 ELSE entries[x].active
  BY FinishEffect
<1>2. Using(e)' = Using(e) \ {u} /\ u \in Using(e)
  BY <1>1 DEF Using, At, Becomes, OthersStay
<1>3. \A x \in Entries \ {e} : Using(x)' = Using(x)
  BY <1>1 DEF Using, At, Becomes, OthersStay
<1>4. Cardinality(Using(e)') = Cardinality(Using(e)) - 1
  BY <1>2, UsingFinite, FS_RemoveElement
<1>5. \A x \in Entries : entries[x].active = Cardinality(Using(x))
  BY DEF LeaseCount, Using
<1>6. \A x \in Entries : entries'[x].active = Cardinality(Using(x)')
  BY <1>1, <1>3, <1>4, <1>5
<1> QED BY <1>6 DEF LeaseCount, Using

\* The leases of an initialization's owner and of those who waited are counted.
LEMMA InitializeLeases ==
    ASSUME TypeOK, ShapeOK, LeaseCount, NEW u \in Users, Initialize(u)
    PROVE  LeaseCount'
<1> USE NoneIsNone
<1>1. CASE Refreshed(u) \/ Evicted(u)
  <2>1. /\ ~At(u, "using") /\ users'[u].pc # "using" /\ OthersStay(u)
        /\ \A x \in Entries : entries'[x].active = entries[x].active
    BY <1>1, RefreshedEffect, EvictedEffect DEF Becomes, At
  <2> QED BY <2>1, NotUsing, SameUsing
<1>2. CASE ReadDatasource(u) \/ EnsureCapacity(u)
  <2>1. ~At(u, "using") /\ users'[u].pc # "using" /\ OthersStay(u)
    BY <1>2, ReadEffect, CapacityEffect DEF Becomes, At
  <2>2. UNCHANGED entries
    BY <1>2 DEF ReadDatasource, EnsureCapacity
  <2> QED BY <2>1, <2>2, NotUsing, SameUsing
<1>3. CASE Connected(u)
  <2> DEFINE d == users[u].ds
             leased == Leased(u)
  <2>1. PICK e \in Entries :
          /\ Forgotten(e) /\ entries'[e].active = Cardinality(leased) /\ OtherEntriesStay(e)
          /\ \A w \in Users :
               IF w \in leased THEN Becomes(w, "using", d, e)
               ELSE IF w \in WaitingFor(d) THEN Becomes(w, "idle", None, None)
               ELSE users'[w] = users[w]
    BY <1>3, ConnectedEffect
  <2>2. leased \subseteq Users /\ \A w \in leased \cup WaitingFor(d) : ~At(w, "using")
    BY <1>3, ConnectedEffect DEF Leased, WaitingFor, At
  <2> HIDE DEF leased, d
  <2>3. Using(e)' = leased
    BY <2>1, <2>2 DEF Using, At, Becomes, Forgotten
  <2>4. \A x \in Entries \ {e} : Using(x)' = Using(x)
    BY <2>1, <2>2 DEF Using, At, Becomes
  <2>5. \A x \in Entries : entries[x].active = Cardinality(Using(x))
    BY DEF LeaseCount, Using
  <2>6. \A x \in Entries : entries'[x].active = Cardinality(Using(x)')
    BY <2>1, <2>3, <2>4, <2>5 DEF OtherEntriesStay
  <2> QED BY <2>6 DEF LeaseCount, Using
<1>4. CASE InitFails(u)
  <2>1. /\ ~At(u, "using") /\ \A x \in Entries : entries'[x].active = entries[x].active
        /\ \A w \in Users :
             IF w = u \/ w \in WaitingFor(users[u].ds) THEN Becomes(w, "idle", None, None)
             ELSE users'[w] = users[w]
    BY <1>4, FailsEffect DEF Initializing, At
  <2>2. \A e \in Entries : Using(e)' = Using(e)
    BY <2>1 DEF Using, WaitingFor, At, Becomes
  <2> QED BY <2>1, <2>2, SameUsing
<1> QED BY <1>1, <1>2, <1>3, <1>4 DEF Initialize

\* Every step keeps LeaseCount.
LEMMA LeaseStep ==
    ASSUME TypeOK, ShapeOK, LeaseCount, Next
    PROVE  LeaseCount'
<1>1. ASSUME NEW v \in Invalidators, Update(v) \/ InvalidateStep(v)
      PROVE  LeaseCount'
  <2>1. \A e \in Entries : entries'[e].active = entries[e].active
    BY <1>1, InvalidatedEffect DEF Update, InvalidateStep, Invalidate, StopWaiting
  <2>2. UNCHANGED users
    BY <1>1 DEF Update, InvalidateStep, Invalidate, StopWaiting, Invalidated
  <2> QED BY <2>1, <2>2, SameUsing DEF Using, At
<1>2. ASSUME TunnelBreaks \/ Cleanup \/ Close \/ Shutdown \/ Collect
      PROVE  LeaseCount'
  <2>1. UNCHANGED users
    BY <1>2 DEF TunnelBreaks, Cleanup, Close, Shutdown, Collect
  <2>2. \A e \in Entries : entries'[e].active = entries[e].active
    <3>1. CASE TunnelBreaks
      BY <3>1 DEF TunnelBreaks, TypeOK, Entry
    <3>2. CASE Close
      BY <3>2, ClosedEffect DEF Close, TypeOK, OtherEntriesStay
    <3> QED BY <1>2, <3>1, <3>2 DEF Cleanup, Shutdown, Collect
  <2> QED BY <2>1, <2>2, SameUsing DEF Using, At
<1> QED BY <1>1, <1>2, AcquireLeases, FinishLeases, InitializeLeases DEF Next

-----------------------------------------------------------------------------
(* Initializations                                                         *)

\* One owner for each initialization, which holds a marker in inFlight; no
\* entry is registered meanwhile; who waits for it waits for a real one.
InitOK ==
    /\ \A u \in Users : Initializing(u) => users[u].ds \in inFlight
    /\ \A u, w \in Users : Initializing(u) /\ Initializing(w) /\ users[u].ds = users[w].ds => u = w
    /\ \A d \in inFlight : registry[d] = None
    /\ \A v \in Invalidators : InvalidatorAt(v, "awaitInit") => invalidators[v].ds \in inFlight

\* Registered entries are open, each registered once; who closes an entry holds
\* an unregistered one, and who waits for it to be idle the one of its
\* datasource if any.
RegistryOK ==
    /\ \A d \in Datasources : registry[d] # None => entries[registry[d]].open
    /\ \A c, d \in Datasources : registry[c] = registry[d] /\ registry[c] # None => c = d
    /\ \A e \in closing : \A d \in Datasources : registry[d] # e
    /\ \A u \in Users : users[u].pc \in {"refresh", "evict"} =>
         \A d \in Datasources : registry[d] # users[u].ent
    /\ \A v \in Invalidators : InvalidatorAt(v, "close") =>
         \A d \in Datasources : registry[d] # invalidators[v].ent
    /\ \A v \in Invalidators : InvalidatorAt(v, "waitIdle") =>
         \A d \in Datasources : registry[d] = invalidators[v].ent => d = invalidators[v].ds

\* acquire starts an initialization only where there is none.
LEMMA AcquireInit ==
    ASSUME TypeOK, ShapeOK, InitOK, NEW u \in Users, Acquire(u)
    PROVE  InitOK'
<1>1. PICK d \in Datasources : Lease(u, d) \/ Refresh(u, d) \/ Join(u, d) \/ Create(u, d)
  BY DEF Acquire
<1>2. UNCHANGED invalidators /\ ~Initializing(u) /\ OthersStay(u)
  BY <1>1, LeaseEffect, RefreshEffect, JoinEffect, CreateEffect DEF Acquire, Initializing, UserAt
<1>3. CASE Lease(u, d) \/ Join(u, d)
  <2>1. UNCHANGED <<registry, inFlight>> /\ users'[u].pc \in {"using", "waiting"}
    BY <1>3, LeaseEffect, JoinEffect DEF Lease, Join, Becomes
  <2> QED BY <1>2, <2>1 DEF InitOK, Initializing, InvalidatorAt, OthersStay
<1>4. CASE Refresh(u, d) \/ Create(u, d)
  <2>1. /\ inFlight' = inFlight \cup {d} /\ registry'[d] = None
        /\ \A c \in Datasources \ {d} : registry'[c] = registry[c]
    BY <1>4 DEF Refresh, Create, StartInit, TypeOK
  <2>2. users'[u].ds = d
    BY <1>4, RefreshEffect, CreateEffect DEF Becomes
  <2>3. d \notin inFlight
    BY <1>4 DEF Refresh, Create, InitOK
  <2>4. inFlight \subseteq Datasources
    BY DEF TypeOK
  <2> QED BY <1>2, <2>1, <2>2, <2>3, <2>4 DEF InitOK, Initializing, InvalidatorAt, OthersStay
<1> QED BY <1>1, <1>3, <1>4

\* initialize registers or fails, and then nobody initializes the datasource.
LEMMA InitializeInit ==
    ASSUME TypeOK, ShapeOK, InitOK, NEW u \in Users, Initialize(u)
    PROVE  InitOK'
<1>1. CASE Refreshed(u) \/ ReadDatasource(u) \/ Evicted(u)
  <2>1. UNCHANGED <<registry, inFlight, invalidators>>
    BY <1>1 DEF Refreshed, ReadDatasource, Evicted
  <2>2. Initializing(u) /\ users'[u].ds = users[u].ds /\ OthersStay(u)
    BY <1>1, RefreshedEffect, ReadEffect, EvictedEffect DEF At, Initializing, Becomes
  <2> QED BY <2>1, <2>2 DEF InitOK, Initializing, InvalidatorAt, OthersStay
<1>2. CASE EnsureCapacity(u)
  <2>1. UNCHANGED <<inFlight, invalidators>>
    BY <1>2 DEF EnsureCapacity
  <2>2. Initializing(u) /\ users'[u].ds = users[u].ds /\ OthersStay(u)
    BY <1>2, CapacityEffect DEF At, Initializing, Becomes
  <2>3. \A d \in Datasources : registry'[d] \in {registry[d], None}
    BY <1>2, CapacityEffect DEF TypeOK
  <2>4. inFlight \subseteq Datasources
    BY DEF TypeOK
  <2> QED BY <2>1, <2>2, <2>3, <2>4 DEF InitOK, Initializing, InvalidatorAt, OthersStay
<1>3. CASE Connected(u)
  <2> DEFINE d == users[u].ds
  <2>1. inFlight' = inFlight \ {d} /\ Initializing(u) /\ inFlight \subseteq Datasources
    BY <1>3 DEF Connected, Register, EndInit, Initializing, At, TypeOK
  <2>2. \A w \in Users : ~Initializing(w)' \/ (users'[w] = users[w] /\ w # u)
    BY <1>3, ConnectedEffect DEF Initializing, Becomes, Leased
  <2>3. \A c \in Datasources \ {d} : registry'[c] = registry[c]
    BY <1>3, ConnectedEffect DEF TypeOK
  <2>4. \A v \in Invalidators :
          ~InvalidatorAt(v, "awaitInit")' \/ (invalidators'[v] = invalidators[v] /\ v \notin AwaitingInit(d))
    BY <1>3, ConnectedEffect DEF InvalidatorAt
  <2>5. \A v \in Invalidators : InvalidatorAt(v, "awaitInit")' => invalidators'[v].ds \in inFlight \ {d}
    BY <2>4 DEF InitOK, InvalidatorAt, AwaitingInit
  <2>6. \A w \in Users : Initializing(w)' => Initializing(w) /\ users'[w] = users[w] /\ users[w].ds # d
    BY <2>1, <2>2 DEF InitOK, Initializing
  <2> QED BY <2>1, <2>3, <2>5, <2>6 DEF InitOK
<1>4. CASE InitFails(u)
  <2> DEFINE d == users[u].ds
  <2>1. inFlight' = inFlight \ {d} /\ Initializing(u) /\ UNCHANGED registry
    BY <1>4 DEF InitFails, EndInit, Initializing
  <2>2. \A w \in Users : ~Initializing(w)' \/ (users'[w] = users[w] /\ w # u)
    BY <1>4, FailsEffect DEF Initializing, Becomes
  <2>3. \A v \in Invalidators :
          ~InvalidatorAt(v, "awaitInit")' \/ (invalidators'[v] = invalidators[v] /\ v \notin AwaitingInit(d))
    BY <1>4, FailsEffect DEF InvalidatorAt
  <2>4. \A v \in Invalidators : InvalidatorAt(v, "awaitInit")' => invalidators'[v].ds \in inFlight \ {d}
    BY <2>3 DEF InitOK, InvalidatorAt, AwaitingInit
  <2>5. \A w \in Users : Initializing(w)' => Initializing(w) /\ users'[w] = users[w] /\ users[w].ds # d
    BY <2>1, <2>2 DEF InitOK, Initializing
  <2> QED BY <2>1, <2>4, <2>5 DEF InitOK
<1> QED BY <1>1, <1>2, <1>3, <1>4 DEF Initialize

\* Every step keeps InitOK.
LEMMA InitStep ==
    ASSUME TypeOK, ShapeOK, InitOK, Next
    PROVE  InitOK'
<1>1. ASSUME NEW u \in Users, FinishOperation(u)
      PROVE  InitOK'
  <2>1. UNCHANGED <<registry, inFlight, invalidators>>
    BY <1>1 DEF FinishOperation
  <2>2. users'[u].pc = "idle" /\ OthersStay(u)
    BY <1>1, FinishEffect DEF Becomes
  <2> QED BY <2>1, <2>2 DEF InitOK, Initializing, InvalidatorAt, OthersStay
<1>2. ASSUME NEW v \in Invalidators, Update(v) \/ InvalidateStep(v)
      PROVE  InitOK'
  <2>1. UNCHANGED <<inFlight, users>>
    BY <1>2 DEF Update, InvalidateStep, Invalidate, StopWaiting, Invalidated
  <2>2. \A d \in Datasources : registry'[d] \in {registry[d], None}
    BY <1>2, ShapeOfInvalidator
    DEF Update, InvalidateStep, Invalidate, AwaitInitialization, NothingToClose, CloseEntry, StopWaiting, Invalidated,
        InvalidatorAt, TypeOK
  <2>3. OtherInvalidatorsStay(v)
    BY <1>2, UpdateEffect, AwaitEffect, CloseEntryEffect, StopWaitingEffect, InvalidatedEffect
    DEF InvalidateStep, Invalidate, NothingToClose, OtherInvalidatorsStay, Done, TypeOK
  <2>4. InvalidatorAt(v, "awaitInit")' => invalidators'[v].ds \in inFlight
    <3>1. CASE Update(v) \/ StopWaiting(v) \/ Invalidated(v)
      BY <3>1, UpdateEffect, StopWaitingEffect, InvalidatedEffect
      DEF InvalidatorAt, MovesOn, Done, IdleInvalidator
    <3>2. CASE Invalidate(v)
      <4>1. CASE AwaitInitialization(v, invalidators[v].ds)
        BY <3>2, <4>1, AwaitEffect DEF Invalidate, AwaitInitialization, MovesOn
      <4>2. CASE NothingToClose(v, invalidators[v].ds)
        BY <4>2 DEF NothingToClose, InvalidatorAt, IdleInvalidator, TypeOK
      <4>3. CASE CloseEntry(v, invalidators[v].ds)
        BY <3>2, <4>3, CloseEntryEffect DEF Invalidate, InvalidatorAt, MovesOn
      <4> QED BY <3>2, <4>1, <4>2, <4>3 DEF Invalidate
    <3> QED BY <1>2, <3>1, <3>2 DEF InvalidateStep
  <2>5. inFlight \subseteq Datasources
    BY DEF TypeOK
  <2> QED BY <2>1, <2>2, <2>3, <2>4, <2>5 DEF InitOK, Initializing, InvalidatorAt, OtherInvalidatorsStay
<1>3. ASSUME TunnelBreaks \/ Cleanup \/ Close \/ Shutdown \/ Collect
      PROVE  InitOK'
  <2>1. UNCHANGED <<inFlight, users, invalidators>>
    BY <1>3 DEF TunnelBreaks, Cleanup, Close, Shutdown, Collect
  <2>2. \A d \in Datasources : registry'[d] \in {registry[d], None}
    BY <1>3 DEF TunnelBreaks, Cleanup, Close, Shutdown, Collect
  <2>3. inFlight \subseteq Datasources
    BY DEF TypeOK
  <2> QED BY <2>1, <2>2, <2>3 DEF InitOK, Initializing, InvalidatorAt
<1> QED BY <1>1, <1>2, <1>3, AcquireInit, InitializeInit DEF Next

\* acquire unregisters a broken entry before it closes it.
LEMMA AcquireRegistry ==
    ASSUME TypeOK, ShapeOK, RegistryOK, NEW u \in Users, Acquire(u)
    PROVE  RegistryOK'
<1>1. PICK d \in Datasources : Lease(u, d) \/ Refresh(u, d) \/ Join(u, d) \/ Create(u, d)
  BY DEF Acquire
<1>2. UNCHANGED <<invalidators, closing>> /\ OthersStay(u)
  BY <1>1, LeaseEffect, RefreshEffect, JoinEffect, CreateEffect DEF Acquire
<1>3. \A c \in Datasources : registry[c] # None => registry[c] \in Entries
  BY DEF TypeOK
<1>4. CASE Lease(u, d) \/ Join(u, d) \/ Create(u, d)
  <2>1. UNCHANGED registry /\ users'[u].pc \in {"using", "waiting", "resolve"}
    BY <1>4, LeaseEffect, JoinEffect, CreateEffect DEF Lease, Join, Create, Becomes
  <2>2. \A x \in Entries : entries'[x].open = entries[x].open
    BY <1>4, LeaseEffect DEF Join, Create
  <2> QED BY <1>2, <1>3, <2>1, <2>2 DEF RegistryOK, InvalidatorAt, OthersStay
<1>5. CASE Refresh(u, d)
  <2>1. registry' = [registry EXCEPT ![d] = None] /\ UNCHANGED entries
    BY <1>5 DEF Refresh
  <2>2. registry'[d] = None /\ \A c \in Datasources \ {d} : registry'[c] = registry[c]
    BY <2>1 DEF TypeOK
  <2>3. users'[u].pc = "refresh" /\ users'[u].ent = registry[d] /\ registry[d] \in Entries
    BY <1>5, RefreshEffect DEF Becomes
  <2>4. closing \subseteq Entries /\ \A w \in Users : users[w].pc \in {"refresh", "evict"} => users[w].ent # None
    BY ShapeOfUser, NoneIsNone DEF TypeOK
  <2>5. \A v \in Invalidators : invalidators[v].pc \in {"waitIdle", "close"} => invalidators[v].ent # None
    BY ShapeOfInvalidator, NoneIsNone
  <2> QED BY <1>2, <1>3, <2>1, <2>2, <2>3, <2>4, <2>5, NoneIsNone DEF RegistryOK, InvalidatorAt, OthersStay
<1> QED BY <1>1, <1>4, <1>5

\* Entries leave the registry, and what stays registered stays open.
Shrinks ==
    /\ \A d \in Datasources : registry'[d] \in {registry[d], None}
    /\ \A d \in Datasources : registry'[d] # None => entries'[registry[d]].open = entries[registry[d]].open

\* RegistryOK survives a step that only unregisters, when whoever newly holds
\* an entry to close holds an unregistered one.
LEMMA Shrinking ==
    ASSUME TypeOK, ShapeOK, RegistryOK, Shrinks,
           \A e \in closing' \ closing : e \in Entries /\ \A d \in Datasources : registry'[d] # e,
           \A u \in Users :
             users'[u].pc \in {"refresh", "evict"} =>
               \/ users'[u] = users[u]
               \/ users'[u].ent # None /\ \A d \in Datasources : registry'[d] # users'[u].ent,
           \A v \in Invalidators :
             \/ invalidators'[v] = invalidators[v]
             \/ invalidators'[v].pc \notin {"waitIdle", "close"}
             \/ /\ invalidators'[v].ent # None
                /\ InvalidatorAt(v, "close")' => \A d \in Datasources : registry'[d] # invalidators'[v].ent
                /\ \A d \in Datasources : registry'[d] = invalidators'[v].ent => d = invalidators'[v].ds
    PROVE  RegistryOK'
<1>1. closing \subseteq Entries /\ \A w \in Users : users[w].pc \in {"refresh", "evict"} => users[w].ent # None
  BY ShapeOfUser, NoneIsNone DEF TypeOK
<1>2. \A v \in Invalidators : invalidators[v].pc \in {"waitIdle", "close"} => invalidators[v].ent # None
  BY ShapeOfInvalidator, NoneIsNone
<1>3. /\ \A d \in Datasources : registry'[d] # None => entries'[registry'[d]].open
      /\ \A c, d \in Datasources : registry'[c] = registry'[d] /\ registry'[c] # None => c = d
  BY DEF Shrinks, RegistryOK
<1>4. \A e \in closing' : \A d \in Datasources : registry'[d] # e
  BY <1>1, NoneIsNone DEF Shrinks, RegistryOK
<1>5. \A u \in Users : users'[u].pc \in {"refresh", "evict"} =>
        \A d \in Datasources : registry'[d] # users'[u].ent
  BY <1>1 DEF Shrinks, RegistryOK
<1>6. \A v \in Invalidators :
        /\ InvalidatorAt(v, "close")' => \A d \in Datasources : registry'[d] # invalidators'[v].ent
        /\ InvalidatorAt(v, "waitIdle")' =>
             \A d \in Datasources : registry'[d] = invalidators'[v].ent => d = invalidators'[v].ds
  BY <1>2 DEF Shrinks, RegistryOK, InvalidatorAt
<1> QED BY <1>3, <1>4, <1>5, <1>6 DEF RegistryOK

\* initialize evicts what it unregisters and registers what nobody holds.
LEMMA InitializeRegistry ==
    ASSUME TypeOK, ShapeOK, InitOK, RegistryOK, NEW u \in Users, Initialize(u)
    PROVE  RegistryOK'
<1>1. \A c \in Datasources : registry[c] # None => registry[c] \in Entries
  BY DEF TypeOK
<1>2. CASE Refreshed(u) \/ Evicted(u)
  <2>1. UNCHANGED <<registry, invalidators, closing>>
    BY <1>2 DEF Refreshed, Evicted
  <2>2. /\ users[u].pc \in {"refresh", "evict"} /\ users'[u].pc \notin {"refresh", "evict"} /\ OthersStay(u)
        /\ OtherEntriesStay(users[u].ent)
    BY <1>2, RefreshedEffect, EvictedEffect DEF At, Becomes
  <2>3. Shrinks
    BY <1>1, <2>1, <2>2 DEF Shrinks, RegistryOK, OtherEntriesStay
  <2> QED BY <2>1, <2>2, <2>3, Shrinking DEF OthersStay
<1>3. CASE ReadDatasource(u)
  <2>1. UNCHANGED <<registry, invalidators, closing, entries>>
    BY <1>3 DEF ReadDatasource
  <2>2. users'[u].pc = "secrets" /\ OthersStay(u)
    BY <1>3, ReadEffect DEF Becomes
  <2> QED BY <2>1, <2>2, Shrinking DEF Shrinks, OthersStay
<1>4. CASE EnsureCapacity(u)
  <2>1. UNCHANGED <<invalidators, closing, entries>>
    BY <1>4 DEF EnsureCapacity
  <2>2. OthersStay(u) /\ Shrinks
    BY <1>4, <2>1, CapacityEffect DEF Shrinks, TypeOK
  <2>3. \/ users'[u].pc = "connect"
        \/ users'[u].ent # None /\ \A d \in Datasources : registry'[d] # users'[u].ent
    <3>1. ASSUME NEW c \in Datasources, registry[c] \in Entries, users'[u].ent = registry[c],
                 registry' = [registry EXCEPT ![c] = None]
          PROVE  users'[u].ent # None /\ \A d \in Datasources : registry'[d] # users'[u].ent
      BY <3>1, NoneIsNone DEF RegistryOK, TypeOK
    <3> QED BY <1>4, <3>1, CapacityEffect DEF Becomes
  <2> QED BY <2>1, <2>2, <2>3, Shrinking DEF OthersStay
<1>5. CASE Connected(u)
  <2> DEFINE d == users[u].ds
  <2>1. PICK e \in Entries :
          /\ Forgotten(e) /\ entries'[e].open /\ OtherEntriesStay(e)
          /\ registry' = [registry EXCEPT ![d] = e]
          /\ \A w \in Users :
               IF w \in Leased(u) THEN Becomes(w, "using", d, e)
               ELSE IF w \in WaitingFor(d) THEN Becomes(w, "idle", None, None)
               ELSE users'[w] = users[w]
          /\ \A v \in Invalidators :
               IF v \in AwaitingInit(d)
                 THEN InvalidatorAt(v, "waitIdle")' /\ invalidators'[v].ds = d /\ invalidators'[v].ent = e
                 ELSE invalidators'[v] = invalidators[v]
    BY <1>5, ConnectedEffect
  <2>2. d \in Datasources /\ UNCHANGED closing
    BY <1>5, ConnectedEffect DEF Connected, Register
  <2>3. registry'[d] = e /\ \A c \in Datasources \ {d} : registry'[c] = registry[c]
    BY <2>1, <2>2 DEF TypeOK
  <2> HIDE DEF d
  <2>4. \A c \in Datasources : registry[c] # e
    BY <2>1, NoneIsNone DEF RegistryOK, Forgotten
  <2>5. e \notin closing /\ (\A w \in Users : users[w].ent # e) /\ (\A v \in Invalidators : invalidators[v].ent # e)
    BY <2>1 DEF Forgotten
  <2>6. \A c \in Datasources : registry'[c] # None => entries'[registry'[c]].open
    BY <1>1, <2>1, <2>3, <2>4 DEF RegistryOK, OtherEntriesStay
  <2>7. \A b, c \in Datasources : registry'[b] = registry'[c] /\ registry'[b] # None => b = c
    BY <2>3, <2>4 DEF RegistryOK
  <2>8. \A x \in closing' : \A c \in Datasources : registry'[c] # x
    BY <2>2, <2>3, <2>5 DEF RegistryOK
  <2>9. \A w \in Users : users'[w].pc \in {"refresh", "evict"} => users'[w] = users[w]
    BY <2>1 DEF Becomes
  <2>10. \A w \in Users : users'[w].pc \in {"refresh", "evict"} =>
           \A c \in Datasources : registry'[c] # users'[w].ent
    BY <2>3, <2>5, <2>9 DEF RegistryOK
  <2>11. \A v \in Invalidators : InvalidatorAt(v, "close")' =>
           \A c \in Datasources : registry'[c] # invalidators'[v].ent
    BY <2>1, <2>3, <2>5 DEF RegistryOK, InvalidatorAt
  <2>12. \A v \in Invalidators : InvalidatorAt(v, "waitIdle")' =>
           \A c \in Datasources : registry'[c] = invalidators'[v].ent => c = invalidators'[v].ds
    BY <2>1, <2>3, <2>4, <2>5 DEF RegistryOK, InvalidatorAt
  <2> QED BY <2>6, <2>7, <2>8, <2>10, <2>11, <2>12 DEF RegistryOK
<1>6. CASE InitFails(u)
  <2>1. UNCHANGED <<registry, closing>>
    BY <1>6 DEF InitFails
  <2>2. \A w \in Users : users'[w] = users[w] \/ users'[w].pc = "idle"
    BY <1>6, FailsEffect DEF Becomes
  <2>3. \A v \in Invalidators : invalidators'[v] = invalidators[v] \/ InvalidatorAt(v, "idle")'
    BY <1>6, FailsEffect
  <2>4. \/ UNCHANGED entries
        \/ users[u].pc \in {"refresh", "evict"} /\ OtherEntriesStay(users[u].ent)
    BY <1>6, FailsEffect, ShapeOfUser, NoneIsNone DEF Initializing
  <2>5. Shrinks
    BY <1>1, <2>1, <2>4 DEF Shrinks, RegistryOK, OtherEntriesStay
  <2> QED BY <2>1, <2>2, <2>3, <2>5, Shrinking DEF InvalidatorAt
<1> QED BY <1>2, <1>3, <1>4, <1>5, <1>6 DEF Initialize

\* An invalidation closes what it has unregistered.
LEMMA InvalidatorRegistry ==
    ASSUME TypeOK, ShapeOK, RegistryOK, NEW v \in Invalidators, Update(v) \/ InvalidateStep(v)
    PROVE  RegistryOK'
<1> DEFINE d == invalidators[v].ds
<1>1. UNCHANGED <<users, closing>>
  BY DEF Update, InvalidateStep, Invalidate, StopWaiting, Invalidated
<1>2. \A c \in Datasources : registry[c] # None => registry[c] \in Entries
  BY DEF TypeOK
<1>3. CASE Update(v)
  <2>1. UNCHANGED <<registry, entries>>
    BY <1>3 DEF Update
  <2>2. OtherInvalidatorsStay(v) /\ invalidators'[v].pc = "saved"
    BY <1>3, UpdateEffect
  <2> QED BY <1>1, <2>1, <2>2, Shrinking DEF Shrinks, OtherInvalidatorsStay
<1>4. CASE Invalidate(v)
  <2>1. InvalidatorAt(v, "saved") /\ UNCHANGED entries /\ d \in Datasources
    BY <1>4, ShapeOfInvalidator DEF Invalidate, InvalidatorAt
  <2>2. CASE AwaitInitialization(v, d)
    <3>1. UNCHANGED registry /\ OtherInvalidatorsStay(v) /\ invalidators'[v].pc = "awaitInit"
      BY <2>1, <2>2, AwaitEffect DEF AwaitInitialization, MovesOn
    <3> QED BY <1>1, <2>1, <3>1, Shrinking DEF Shrinks, OtherInvalidatorsStay
  <2>3. CASE NothingToClose(v, d)
    <3>1. UNCHANGED registry /\ OtherInvalidatorsStay(v) /\ invalidators'[v].pc = "idle"
      BY <2>3 DEF NothingToClose, OtherInvalidatorsStay, IdleInvalidator, TypeOK
    <3> QED BY <1>1, <2>1, <3>1, Shrinking DEF Shrinks, OtherInvalidatorsStay
  <2>4. CASE CloseEntry(v, d)
    <3>1. PICK e \in Entries :
            /\ e = registry[d] /\ OtherInvalidatorsStay(v)
            /\ \/ MovesOn(v, "waitIdle", e) /\ UNCHANGED registry
               \/ MovesOn(v, "close", e) /\ registry' = [registry EXCEPT ![d] = None]
      BY <2>1, <2>4, CloseEntryEffect
    <3>2. \A c \in Datasources : registry[c] = e => c = d
      BY <2>1, <3>1, NoneIsNone DEF RegistryOK
    <3>3. Shrinks
      BY <2>1, <3>1 DEF Shrinks, TypeOK
    <3>4. /\ invalidators'[v].ent # None
          /\ InvalidatorAt(v, "close")' => \A c \in Datasources : registry'[c] # invalidators'[v].ent
          /\ \A c \in Datasources : registry'[c] = invalidators'[v].ent => c = invalidators'[v].ds
      BY <2>1, <3>1, <3>2, NoneIsNone DEF MovesOn, InvalidatorAt, TypeOK
    <3> QED BY <1>1, <3>1, <3>3, <3>4, Shrinking DEF OtherInvalidatorsStay
  <2> QED BY <1>4, <2>2, <2>3, <2>4 DEF Invalidate
<1>5. CASE StopWaiting(v)
  <2>1. UNCHANGED entries /\ registry' = [registry EXCEPT ![d] = None]
    BY <1>5 DEF StopWaiting
  <2>2. PICK e \in Entries : e = invalidators[v].ent
    BY <1>5, StopWaitingEffect, ShapeOfInvalidator DEF InvalidatorAt
  <2>3. InvalidatorAt(v, "waitIdle") /\ d \in Datasources /\ MovesOn(v, "close", e) /\ OtherInvalidatorsStay(v)
    BY <1>5, <2>2, StopWaitingEffect
  <2>4. registry'[d] = None /\ \A c \in Datasources \ {d} : registry'[c] = registry[c]
    BY <2>1, <2>3 DEF TypeOK
  <2>5. Shrinks
    BY <2>1, <2>3, <2>4 DEF Shrinks
  <2>6. \A c \in Datasources : registry'[c] # e
    BY <2>2, <2>3, <2>4, NoneIsNone DEF RegistryOK
  <2> QED BY <1>1, <2>3, <2>5, <2>6, NoneIsNone, Shrinking DEF OtherInvalidatorsStay, MovesOn
<1>6. CASE Invalidated(v)
  <2>1. UNCHANGED registry
    BY <1>6 DEF Invalidated
  <2>2. InvalidatorAt(v, "close") /\ Done(v) /\ OtherEntriesStay(invalidators[v].ent)
    BY <1>6, InvalidatedEffect
  <2>3. Shrinks
    BY <1>2, <2>1, <2>2 DEF Shrinks, RegistryOK, OtherEntriesStay
  <2> QED BY <1>1, <2>1, <2>2, <2>3, Shrinking DEF Done, IdleInvalidator, OtherInvalidatorsStay
<1> QED BY <1>3, <1>4, <1>5, <1>6 DEF InvalidateStep

\* Every step keeps RegistryOK.
LEMMA RegistryStep ==
    ASSUME TypeOK, ShapeOK, InitOK, RegistryOK, Next
    PROVE  RegistryOK'
<1>1. \A c \in Datasources : registry[c] # None => registry[c] \in Entries
  BY DEF TypeOK
<1>2. ASSUME NEW u \in Users, FinishOperation(u)
      PROVE  RegistryOK'
  <2>1. UNCHANGED <<registry, closing, invalidators>>
    BY <1>2 DEF FinishOperation
  <2>2. /\ users'[u].pc = "idle" /\ OthersStay(u)
        /\ \A x \in Entries : entries'[x].open = entries[x].open
    BY <1>2, FinishEffect DEF Becomes
  <2> QED BY <1>1, <2>1, <2>2, Shrinking DEF Shrinks, OthersStay
<1>3. ASSUME TunnelBreaks \/ Cleanup \/ Close \/ Shutdown \/ Collect
      PROVE  RegistryOK'
  <2>1. UNCHANGED <<users, invalidators>>
    BY <1>3 DEF TunnelBreaks, Cleanup, Close, Shutdown, Collect
  <2>2. CASE TunnelBreaks
    <3>1. UNCHANGED <<registry, closing>>
      BY <2>2 DEF TunnelBreaks
    <3>2. PICK e \in Entries : entries' = [entries EXCEPT ![e] = [@ EXCEPT !.healthy = FALSE]]
      BY <2>2, <1>1 DEF TunnelBreaks, Registered
    <3>3. \A x \in Entries : entries'[x].open = entries[x].open
      BY <3>2 DEF TypeOK, Entry
    <3> QED BY <1>1, <2>1, <3>1, <3>3, Shrinking DEF Shrinks
  <2>3. CASE Cleanup
    <3>1. PICK idle \in SUBSET {d \in Registered : entries[registry[d]].active = 0} :
            /\ registry' = [d \in Datasources |-> IF d \in idle THEN None ELSE registry[d]]
            /\ closing' = closing \cup {registry[d] : d \in idle}
      BY <2>3 DEF Cleanup
    <3>2. UNCHANGED entries /\ idle \subseteq Datasources /\ \A d \in idle : registry[d] \in Entries
      BY <2>3, <3>1, <1>1 DEF Cleanup, Registered
    <3>3. \A e \in closing' \ closing : e \in Entries /\ \A d \in Datasources : registry'[d] # e
      BY <3>1, <3>2, NoneIsNone DEF RegistryOK
    <3> QED BY <2>1, <3>1, <3>2, <3>3, Shrinking DEF Shrinks
  <2>4. CASE Close
    <3>1. PICK e \in closing : Closed(e) /\ closing' = closing \ {e}
      BY <2>4 DEF Close
    <3>2. UNCHANGED registry /\ e \in Entries
      BY <2>4, <3>1 DEF Close, TypeOK
    <3>3. Shrinks
      BY <1>1, <3>1, <3>2, ClosedEffect DEF Shrinks, RegistryOK, OtherEntriesStay
    <3> QED BY <2>1, <3>1, <3>2, <3>3, Shrinking
  <2>5. CASE Shutdown
    BY <2>1, <2>5, Shrinking DEF Shutdown, Shrinks
  <2>6. CASE Collect
    <3>1. UNCHANGED entries /\ \A d \in Datasources : registry'[d] = None
      BY <2>6 DEF Collect
    <3>2. \A e \in closing' \ closing : e \in Entries
      BY <1>1, <2>6 DEF Collect, Registered
    <3> QED BY <2>1, <3>1, <3>2, NoneIsNone, Shrinking DEF Shrinks
  <2> QED BY <1>3, <2>2, <2>3, <2>4, <2>5, <2>6
<1> QED BY <1>2, <1>3, AcquireRegistry, InitializeRegistry, InvalidatorRegistry DEF Next

-----------------------------------------------------------------------------
(* Entries in use                                                          *)

\* Entries that the cleanup and evictions close have no leases.
KeptOK ==
    /\ stage = "closed" \/ \A e \in closing : entries[e].active = 0
    /\ \A u \in Users : At(u, "evict") => entries[users[u].ent].active = 0

\* The awaits that users of another organization can reach.
ForeignOK == \A u \in Foreign : users[u].pc \in {"idle", "resolve", "waiting"}

\* KeptOK survives a step that leases no entry that is being closed.
LEMMA Kept ==
    ASSUME TypeOK, ShapeOK, KeptOK, closing' \subseteq closing,
           stage = "closed" => stage' = "closed",
           \A e \in Entries :
             /\ e \in closing \/ \E u \in Users : At(u, "evict") /\ users[u].ent = e
             /\ entries[e].active = 0
             => entries'[e].active = 0,
           \A u \in Users : users'[u].pc = "evict" => users'[u] = users[u]
    PROVE  KeptOK'
<1>1. closing \subseteq Entries
  BY DEF TypeOK
<1>2. \A u \in Users : At(u, "evict") => users[u].ent \in Entries
  BY ShapeOfUser DEF At
<1>3. stage' = "closed" \/ \A e \in closing' : entries'[e].active = 0
  BY <1>1 DEF KeptOK
<1>4. \A u \in Users : At(u, "evict")' => entries'[users'[u].ent].active = 0
  BY <1>2 DEF KeptOK, At
<1> QED BY <1>3, <1>4 DEF KeptOK

\* acquire leases registered entries only, and those are not being closed.
LEMMA AcquireKept ==
    ASSUME TypeOK, ShapeOK, RegistryOK, KeptOK, NEW u \in Users, Acquire(u)
    PROVE  KeptOK'
<1>1. PICK d \in Datasources : Lease(u, d) \/ Refresh(u, d) \/ Join(u, d) \/ Create(u, d)
  BY DEF Acquire
<1>2. UNCHANGED <<closing, stage>> /\ OthersStay(u) /\ users'[u].pc # "evict"
  BY <1>1, LeaseEffect, RefreshEffect, JoinEffect, CreateEffect DEF Acquire, Becomes
<1>3. \A e \in Entries : (e \in closing \/ \E w \in Users : At(w, "evict") /\ users[w].ent = e) =>
        entries'[e].active = entries[e].active
  <2>1. CASE Lease(u, d)
    BY <2>1, LeaseEffect DEF RegistryOK, At
  <2>2. CASE ~Lease(u, d)
    BY <1>1, <2>2 DEF Refresh, Join, Create
  <2> QED BY <2>1, <2>2
<1> QED BY <1>2, <1>3, Kept DEF OthersStay

\* ensureCapacity evicts entries without leases only.
LEMMA InitializeKept ==
    ASSUME TypeOK, ShapeOK, KeptOK, NEW u \in Users, Initialize(u)
    PROVE  KeptOK'
<1>1. CASE Refreshed(u) \/ Evicted(u) \/ ReadDatasource(u)
  <2>1. UNCHANGED <<closing, stage>>
    BY <1>1 DEF Refreshed, Evicted, ReadDatasource
  <2>2. /\ users'[u].pc # "evict" /\ OthersStay(u)
        /\ \A x \in Entries : entries'[x].active = entries[x].active
    BY <1>1, RefreshedEffect, EvictedEffect, ReadEffect DEF Becomes, ReadDatasource
  <2> QED BY <2>1, <2>2, Kept DEF OthersStay
<1>2. CASE EnsureCapacity(u)
  <2>1. UNCHANGED <<closing, stage, entries>>
    BY <1>2 DEF EnsureCapacity
  <2>2. OthersStay(u) /\ (users'[u].pc = "evict" => entries[users'[u].ent].active = 0)
    BY <1>2, CapacityEffect DEF Becomes
  <2> QED BY <2>1, <2>2 DEF KeptOK, OthersStay, At
<1>3. CASE Connected(u)
  <2>1. PICK e \in Entries : Forgotten(e) /\ OtherEntriesStay(e)
    BY <1>3, ConnectedEffect
  <2>2. \A w \in Users : users'[w].pc = "evict" => users'[w] = users[w]
    BY <1>3, ConnectedEffect DEF Becomes
  <2>3. UNCHANGED <<closing, stage>>
    BY <1>3 DEF Connected, Register
  <2>4. \A x \in Entries : (x \in closing \/ \E w \in Users : At(w, "evict") /\ users[w].ent = x) =>
          entries'[x].active = entries[x].active
    BY <2>1 DEF Forgotten, OtherEntriesStay
  <2> QED BY <2>2, <2>3, <2>4, Kept
<1>4. CASE InitFails(u)
  <2>1. UNCHANGED <<closing, stage>>
    BY <1>4 DEF InitFails
  <2>2. \A x \in Entries : entries'[x].active = entries[x].active
    BY <1>4, FailsEffect
  <2>3. \A w \in Users : users'[w].pc = "evict" => users'[w] = users[w]
    BY <1>4, FailsEffect DEF Becomes
  <2> QED BY <2>1, <2>2, <2>3, Kept
<1> QED BY <1>1, <1>2, <1>3, <1>4 DEF Initialize

\* Every step keeps KeptOK.
LEMMA KeptStep ==
    ASSUME TypeOK, ShapeOK, LeaseCount, RegistryOK, KeptOK, Next
    PROVE  KeptOK'
<1>1. ASSUME NEW u \in Users, FinishOperation(u)
      PROVE  KeptOK'
  <2>1. UNCHANGED <<closing, stage>>
    BY <1>1 DEF FinishOperation
  <2>2. /\ At(u, "using") /\ users[u].ent \in Entries /\ Becomes(u, "idle", None, None) /\ OthersStay(u)
        /\ \A x \in Entries : entries'[x].active = IF x = users[u].ent THEN entries[x].active - 1 ELSE entries[x].active
    BY <1>1, FinishEffect
  <2>3. entries[users[u].ent].active > 0
    BY <2>2, UsedIsActive
  <2> QED BY <2>1, <2>2, <2>3, Kept DEF Becomes, OthersStay
<1>2. ASSUME NEW v \in Invalidators, Update(v) \/ InvalidateStep(v)
      PROVE  KeptOK'
  <2>1. UNCHANGED <<users, closing, stage>>
    BY <1>2 DEF Update, InvalidateStep, Invalidate, StopWaiting, Invalidated
  <2>2. \A e \in Entries : entries'[e].active = entries[e].active
    BY <1>2, InvalidatedEffect DEF Update, InvalidateStep, Invalidate, StopWaiting
  <2> QED BY <2>1, <2>2, Kept
<1>3. ASSUME TunnelBreaks \/ Cleanup \/ Close \/ Shutdown \/ Collect
      PROVE  KeptOK'
  <2>1. UNCHANGED users
    BY <1>3 DEF TunnelBreaks, Cleanup, Close, Shutdown, Collect
  <2>2. CASE TunnelBreaks
    <3>1. \A e \in Entries : entries'[e].active = entries[e].active
      BY <2>2 DEF TunnelBreaks, TypeOK, Entry
    <3> QED BY <2>1, <2>2, <3>1, Kept DEF TunnelBreaks
  <2>3. CASE Cleanup
    <3>1. \A e \in closing' : e \in closing \/ entries[e].active = 0
      BY <2>3 DEF Cleanup
    <3> QED BY <2>1, <2>3, <3>1 DEF Cleanup, KeptOK, At
  <2>4. CASE Close
    <3>1. \A e \in Entries : entries'[e].active = entries[e].active
      BY <2>4, ClosedEffect DEF Close, TypeOK, OtherEntriesStay
    <3> QED BY <2>1, <2>4, <3>1, Kept DEF Close
  <2>5. CASE Shutdown
    BY <2>1, <2>5, Kept DEF Shutdown
  <2>6. CASE Collect
    BY <2>1, <2>6 DEF Collect, KeptOK, At
  <2> QED BY <1>3, <2>2, <2>3, <2>4, <2>5, <2>6
<1> QED BY <1>1, <1>2, <1>3, AcquireKept, InitializeKept DEF Next

\* Every step keeps users of another organization from an entry: when they
\* find one, when they initialize and when they have waited.
LEMMA ForeignStep ==
    ASSUME TypeOK, ShapeOK, ForeignOK, Next
    PROVE  ForeignOK'
<1>1. Foreign \subseteq Users
  BY ConstantsAssumption
<1>2. ASSUME NEW u \in Users, Acquire(u)
      PROVE  ForeignOK'
  <2>1. PICK d \in Datasources : Lease(u, d) \/ Refresh(u, d) \/ Join(u, d) \/ Create(u, d)
    BY <1>2 DEF Acquire
  <2>2. OthersStay(u) /\ (u \notin Foreign \/ users'[u].pc \in {"waiting", "resolve"})
    BY <1>2, <2>1, LeaseEffect, RefreshEffect, JoinEffect, CreateEffect DEF Lease, Refresh, Becomes
  <2> QED BY <1>1, <2>2 DEF ForeignOK, OthersStay
<1>3. ASSUME NEW u \in Users, FinishOperation(u)
      PROVE  ForeignOK'
  BY <1>1, <1>3, FinishEffect DEF ForeignOK, Becomes, OthersStay
<1>4. ASSUME NEW u \in Users, Initialize(u)
      PROVE  ForeignOK'
  <2>1. CASE Refreshed(u) \/ Evicted(u) \/ ReadDatasource(u) \/ EnsureCapacity(u)
    <3>1. u \notin Foreign /\ OthersStay(u)
      BY <2>1, RefreshedEffect, EvictedEffect, ReadEffect, CapacityEffect DEF ForeignOK, At, ReadDatasource
    <3> QED BY <1>1, <3>1 DEF ForeignOK, OthersStay
  <2>2. CASE Connected(u)
    <3>1. u \notin Foreign /\ \A w \in Foreign : w \notin Leased(u)
      BY <2>2, ConnectedEffect DEF ForeignOK, At, Leased
    <3> QED BY <1>1, <2>2, <3>1, ConnectedEffect DEF ForeignOK, Becomes
  <2>3. CASE InitFails(u)
    BY <1>1, <2>3, FailsEffect DEF ForeignOK, Becomes
  <2> QED BY <1>4, <2>1, <2>2, <2>3 DEF Initialize
<1>5. ASSUME NEW v \in Invalidators, Update(v) \/ InvalidateStep(v)
      PROVE  ForeignOK'
  BY <1>5 DEF Update, InvalidateStep, Invalidate, StopWaiting, Invalidated, ForeignOK
<1>6. ASSUME TunnelBreaks \/ Cleanup \/ Close \/ Shutdown \/ Collect
      PROVE  ForeignOK'
  BY <1>6 DEF TunnelBreaks, Cleanup, Close, Shutdown, Collect, ForeignOK
<1> QED BY <1>2, <1>3, <1>4, <1>5, <1>6 DEF Next

-----------------------------------------------------------------------------
(* Stale configurations                                                    *)

\* An initialization has read its datasource.
Pending(u) == users[u].pc \in {"secrets", "evict", "connect"}

\* What is stale is about to be invalidated, and by whom.
StaleOK ==
    /\ \A u \in Users : Pending(u) /\ users[u].version < version[users[u].ds] =>
         \E v \in Invalidators :
           invalidators[v].ds = users[u].ds /\ invalidators[v].pc \in {"saved", "awaitInit"}
    /\ \A d \in Datasources : registry[d] # None /\ entries[registry[d]].version < version[d] =>
         \E v \in Invalidators :
           /\ invalidators[v].ds = d
           /\ \/ InvalidatorAt(v, "saved")
              \/ InvalidatorAt(v, "waitIdle") /\ invalidators[v].ent = registry[d]

\* StaleOK survives a step in which nothing becomes stale and no invalidation
\* moves.
LEMMA StaleKept ==
    ASSUME TypeOK, StaleOK, UNCHANGED <<version, invalidators>>,
           \A d \in Datasources : registry'[d] \in {registry[d], None},
           \A d \in Datasources : registry'[d] # None => entries'[registry[d]].version = entries[registry[d]].version,
           \A u \in Users : Pending(u)' =>
             /\ users'[u].ds = users[u].ds /\ users[u].ds \in Datasources
             /\ \/ Pending(u) /\ users'[u].version = users[u].version
                \/ users'[u].version = version[users[u].ds]
    PROVE  StaleOK'
<1>1. \A d \in Datasources : version[d] \in Nat
  BY DEF TypeOK
<1>2. \A u \in Users : Pending(u)' /\ users'[u].version < version[users[u].ds] =>
        \E v \in Invalidators :
          invalidators[v].ds = users[u].ds /\ invalidators[v].pc \in {"saved", "awaitInit"}
  <2>1. TAKE u \in Users
  <2>2. HAVE Pending(u)' /\ users'[u].version < version[users[u].ds]
  <2>3. Pending(u) /\ users'[u].version = users[u].version
    BY <1>1, <2>2
  <2> QED BY <2>2, <2>3 DEF StaleOK
<1>3. \A d \in Datasources : registry'[d] # None /\ entries'[registry'[d]].version < version[d] =>
        \E v \in Invalidators :
          /\ invalidators[v].ds = d
          /\ \/ InvalidatorAt(v, "saved")
             \/ InvalidatorAt(v, "waitIdle") /\ invalidators[v].ent = registry'[d]
  BY DEF StaleOK
<1>4. \A u \in Users : Pending(u)' => users'[u].ds = users[u].ds
  OBVIOUS
<1> QED BY <1>2, <1>3, <1>4 DEF StaleOK, InvalidatorAt

\* acquire makes nothing stale.
LEMMA AcquireStale ==
    ASSUME TypeOK, ShapeOK, StaleOK, NEW u \in Users, Acquire(u)
    PROVE  StaleOK'
<1>1. PICK d \in Datasources : Lease(u, d) \/ Refresh(u, d) \/ Join(u, d) \/ Create(u, d)
  BY DEF Acquire
<1>2. UNCHANGED <<version, invalidators>> /\ OthersStay(u) /\ ~Pending(u)'
  BY <1>1, LeaseEffect, RefreshEffect, JoinEffect, CreateEffect DEF Acquire, Becomes, Pending
<1>3. \A c \in Datasources : registry'[c] \in {registry[c], None}
  BY <1>1 DEF Lease, Refresh, Join, Create, TypeOK
<1>4. \A c \in Datasources : registry[c] # None => entries'[registry[c]].version = entries[registry[c]].version
  BY <1>1, LeaseEffect DEF Refresh, Join, Create, TypeOK
<1>5. \A w \in Users : Pending(w) => users[w].ds \in Datasources
  BY ShapeOfUser DEF Pending, At
<1>6. \A w \in Users : Pending(w)' => Pending(w) /\ users'[w] = users[w]
  BY <1>2 DEF Pending, OthersStay
<1>7. \A w \in Users : Pending(w)' =>
        /\ users'[w].ds = users[w].ds /\ users[w].ds \in Datasources
        /\ Pending(w) /\ users'[w].version = users[w].version
  BY <1>5, <1>6
<1>8. \A c \in Datasources : registry'[c] # None => entries'[registry[c]].version = entries[registry[c]].version
  BY <1>3, <1>4
<1> QED BY <1>2, <1>3, <1>7, <1>8, StaleKept

\* An entry registered with a stale version is one that the invalidation which
\* waited for it now holds, or one whose invalidation is still to come.
LEMMA InitializeStale ==
    ASSUME TypeOK, ShapeOK, InitOK, RegistryOK, StaleOK, NEW u \in Users, Initialize(u)
    PROVE  StaleOK'
<1>1. \A c \in Datasources : registry[c] # None => registry[c] \in Entries
  BY DEF TypeOK
<1>2. \A w \in Users : Pending(w) => users[w].ds \in Datasources
  BY ShapeOfUser DEF Pending, At
<1>3. CASE Refreshed(u) \/ Evicted(u)
  <2>1. UNCHANGED <<registry, version, invalidators>>
    BY <1>3 DEF Refreshed, Evicted
  <2>2. /\ users[u].pc \in {"refresh", "evict"} /\ OthersStay(u)
        /\ OtherEntriesStay(users[u].ent)
        /\ \/ ~Pending(u)'
           \/ Pending(u) /\ users'[u].ds = users[u].ds /\ users'[u].version = users[u].version
    BY <1>3, RefreshedEffect, EvictedEffect DEF At, Becomes, Pending
  <2>3. \A c \in Datasources : registry[c] # None => entries'[registry[c]].version = entries[registry[c]].version
    BY <1>1, <2>2 DEF RegistryOK, OtherEntriesStay
  <2>4. \A w \in Users : Pending(w)' =>
          /\ users'[w].ds = users[w].ds /\ users[w].ds \in Datasources
          /\ Pending(w) /\ users'[w].version = users[w].version
    BY <1>2, <2>2 DEF OthersStay, Pending
  <2> QED BY <2>1, <2>3, <2>4, StaleKept
<1>4. CASE ReadDatasource(u)
  <2>1. UNCHANGED <<registry, version, invalidators, entries>>
    BY <1>4 DEF ReadDatasource
  <2>2. /\ OthersStay(u) /\ users[u].ds \in Datasources
        /\ users'[u].ds = users[u].ds /\ users'[u].version = version[users[u].ds]
    BY <1>4, ReadEffect DEF Becomes
  <2>3. \A w \in Users : Pending(w)' =>
          /\ users'[w].ds = users[w].ds /\ users[w].ds \in Datasources
          /\ \/ Pending(w) /\ users'[w].version = users[w].version
             \/ users'[w].version = version[users[w].ds]
    BY <1>2, <2>2 DEF OthersStay, Pending
  <2> QED BY <2>1, <2>3, StaleKept
<1>5. CASE EnsureCapacity(u)
  <2>1. UNCHANGED <<version, invalidators, entries>>
    BY <1>5 DEF EnsureCapacity
  <2>2. \A c \in Datasources : registry'[c] \in {registry[c], None}
    BY <1>5, CapacityEffect DEF TypeOK
  <2>3. Pending(u) /\ OthersStay(u) /\ users'[u].ds = users[u].ds /\ users'[u].version = users[u].version
    BY <1>5, CapacityEffect DEF At, Becomes, Pending
  <2>4. \A w \in Users : Pending(w)' =>
          /\ users'[w].ds = users[w].ds /\ users[w].ds \in Datasources
          /\ Pending(w) /\ users'[w].version = users[w].version
    BY <1>2, <2>3 DEF OthersStay, Pending
  <2> QED BY <2>1, <2>2, <2>4, StaleKept
<1>6. CASE Connected(u)
  <2> DEFINE d == users[u].ds
  <2>1. PICK e \in Entries :
          /\ Forgotten(e) /\ entries'[e].open /\ entries'[e].version = users[u].version /\ OtherEntriesStay(e)
          /\ registry' = [registry EXCEPT ![d] = e]
          /\ \A w \in Users :
               IF w \in Leased(u) THEN Becomes(w, "using", d, e)
               ELSE IF w \in WaitingFor(d) THEN Becomes(w, "idle", None, None)
               ELSE users'[w] = users[w]
          /\ \A v \in Invalidators :
               IF v \in AwaitingInit(d)
                 THEN InvalidatorAt(v, "waitIdle")' /\ invalidators'[v].ds = d /\ invalidators'[v].ent = e
                 ELSE invalidators'[v] = invalidators[v]
    BY <1>6, ConnectedEffect
  <2>2. Pending(u) /\ d \in Datasources /\ UNCHANGED version
    BY <1>6, ConnectedEffect DEF Connected, Register, Pending, At
  <2>3. registry'[d] = e /\ \A c \in Datasources \ {d} : registry'[c] = registry[c]
    BY <2>1, <2>2 DEF TypeOK
  <2>4. \A c \in Datasources : registry[c] # e
    BY <2>1, NoneIsNone DEF RegistryOK, Forgotten
  <2>5. \A w \in Users : Pending(w)' => Pending(w) /\ users'[w] = users[w] /\ users[w].ds # d
    <3>1. \A w \in Users : Pending(w)' => users'[w] = users[w] /\ w # u
      BY <2>1 DEF Pending, Becomes, Leased
    <3>2. \A w \in Users : w # u /\ Pending(w) => users[w].ds # d
      BY <2>2 DEF InitOK, Initializing, Pending
    <3> QED BY <3>1, <3>2 DEF Pending
  <2>6. \A w \in Users : Pending(w)' /\ users'[w].version < version[users'[w].ds] =>
          \E v \in Invalidators :
            invalidators'[v].ds = users'[w].ds /\ invalidators'[v].pc \in {"saved", "awaitInit"}
    BY <2>1, <2>5 DEF StaleOK, AwaitingInit
  <2>7. \A c \in Datasources \ {d} : registry'[c] # None /\ entries'[registry'[c]].version < version[c] =>
          \E v \in Invalidators :
            /\ invalidators'[v].ds = c
            /\ \/ InvalidatorAt(v, "saved")'
               \/ InvalidatorAt(v, "waitIdle")' /\ invalidators'[v].ent = registry'[c]
    BY <1>1, <2>1, <2>3, <2>4 DEF StaleOK, OtherEntriesStay, AwaitingInit, InvalidatorAt
  <2>8. entries'[e].version < version[d] =>
          \E v \in Invalidators :
            /\ invalidators'[v].ds = d
            /\ \/ InvalidatorAt(v, "saved")'
               \/ InvalidatorAt(v, "waitIdle")' /\ invalidators'[v].ent = e
    <3>1. HAVE entries'[e].version < version[d]
    <3>2. PICK v \in Invalidators : invalidators[v].ds = d /\ invalidators[v].pc \in {"saved", "awaitInit"}
      BY <2>1, <2>2, <3>1 DEF StaleOK
    <3>3. CASE v \in AwaitingInit(d)
      BY <2>1, <3>3
    <3>4. CASE v \notin AwaitingInit(d)
      BY <2>1, <3>2, <3>4 DEF AwaitingInit, InvalidatorAt
    <3> QED BY <3>3, <3>4
  <2>9. \A c \in Datasources : registry'[c] # None /\ entries'[registry'[c]].version < version[c] =>
          \E v \in Invalidators :
            /\ invalidators'[v].ds = c
            /\ \/ InvalidatorAt(v, "saved")'
               \/ InvalidatorAt(v, "waitIdle")' /\ invalidators'[v].ent = registry'[c]
    BY <2>3, <2>7, <2>8
  <2> QED BY <2>2, <2>6, <2>9 DEF StaleOK
<1>7. CASE InitFails(u)
  <2> DEFINE d == users[u].ds
  <2>1. UNCHANGED <<registry, version>> /\ Initializing(u) /\ registry[d] = None
    BY <1>7, FailsEffect DEF InitFails, InitOK
  <2>2. \A w \in Users : Pending(w)' => Pending(w) /\ users'[w] = users[w] /\ users[w].ds # d
    <3>1. \A w \in Users : Pending(w)' => users'[w] = users[w] /\ w # u
      BY <1>7, FailsEffect DEF Pending, Becomes
    <3>2. \A w \in Users : w # u /\ Pending(w) => users[w].ds # d
      BY <2>1 DEF InitOK, Initializing, Pending
    <3> QED BY <3>1, <3>2 DEF Pending
  <2>3. \A v \in Invalidators : invalidators[v].ds # d => invalidators'[v] = invalidators[v]
    BY <1>7, FailsEffect DEF AwaitingInit
  <2>4. \A w \in Users : Pending(w)' /\ users'[w].version < version[users'[w].ds] =>
          \E v \in Invalidators :
            invalidators'[v].ds = users'[w].ds /\ invalidators'[v].pc \in {"saved", "awaitInit"}
    BY <2>2, <2>3 DEF StaleOK
  <2>5. \A c \in Datasources : registry[c] # None => entries'[registry[c]] = entries[registry[c]]
    BY <1>1, <1>7, FailsEffect, ShapeOfUser, NoneIsNone DEF RegistryOK, OtherEntriesStay, Initializing
  <2>6. \A c \in Datasources : registry[c] # None /\ entries'[registry[c]].version < version[c] =>
          \E v \in Invalidators :
            /\ invalidators'[v].ds = c
            /\ \/ InvalidatorAt(v, "saved")'
               \/ InvalidatorAt(v, "waitIdle")' /\ invalidators'[v].ent = registry[c]
    BY <2>1, <2>3, <2>5 DEF StaleOK, InvalidatorAt
  <2> QED BY <2>1, <2>4, <2>6 DEF StaleOK
<1> QED BY <1>3, <1>4, <1>5, <1>6, <1>7 DEF Initialize

\* An update makes entries stale and is pending for them; an invalidation stops
\* being pending only for an entry it unregisters.
LEMMA InvalidatorStale ==
    ASSUME TypeOK, ShapeOK, InitOK, RegistryOK, StaleOK, NEW v \in Invalidators, Update(v) \/ InvalidateStep(v)
    PROVE  StaleOK'
<1> DEFINE d == invalidators[v].ds
<1>1. UNCHANGED users
  BY DEF Update, InvalidateStep, Invalidate, StopWaiting, Invalidated
<1>2. \A c \in Datasources : registry[c] # None => registry[c] \in Entries
  BY DEF TypeOK
<1>3. \A w \in Users : Pending(w) => users[w].ds \in Datasources /\ users[w].ds \in inFlight
  BY ShapeOfUser DEF Pending, At, InitOK, Initializing
<1>4. CASE Update(v)
  <2>1. PICK c \in Datasources :
          /\ version' = [version EXCEPT ![c] = @ + 1]
          /\ InvalidatorAt(v, "idle")
          /\ invalidators'[v].pc = "saved" /\ invalidators'[v].ds = c
          /\ OtherInvalidatorsStay(v)
    BY <1>4, UpdateEffect
  <2>2. UNCHANGED <<registry, entries>>
    BY <1>4 DEF Update
  <2>3. \A b \in Datasources \ {c} : version'[b] = version[b]
    BY <2>1 DEF TypeOK
  <2>4. \A w \in Users : Pending(w) /\ users[w].version < version'[users[w].ds] =>
          \E x \in Invalidators :
            invalidators'[x].ds = users[w].ds /\ invalidators'[x].pc \in {"saved", "awaitInit"}
    <3>1. TAKE w \in Users
    <3>2. HAVE Pending(w) /\ users[w].version < version'[users[w].ds]
    <3>3. CASE users[w].ds = c
      BY <2>1, <3>3
    <3>4. CASE users[w].ds # c
      BY <1>3, <2>1, <2>3, <3>2, <3>4 DEF StaleOK, OtherInvalidatorsStay, InvalidatorAt
    <3> QED BY <3>3, <3>4
  <2>5. \A b \in Datasources : registry[b] # None /\ entries[registry[b]].version < version'[b] =>
          \E x \in Invalidators :
            /\ invalidators'[x].ds = b
            /\ \/ InvalidatorAt(x, "saved")'
               \/ InvalidatorAt(x, "waitIdle")' /\ invalidators'[x].ent = registry[b]
    <3>1. TAKE b \in Datasources
    <3>2. HAVE registry[b] # None /\ entries[registry[b]].version < version'[b]
    <3>3. CASE b = c
      BY <2>1, <3>3 DEF InvalidatorAt
    <3>4. CASE b # c
      BY <2>1, <2>3, <3>2, <3>4 DEF StaleOK, OtherInvalidatorsStay, InvalidatorAt
    <3> QED BY <3>3, <3>4
  <2> QED BY <1>1, <2>2, <2>4, <2>5 DEF StaleOK, Pending
<1>5. CASE Invalidate(v)
  <2>1. InvalidatorAt(v, "saved") /\ UNCHANGED <<entries, version, inFlight>> /\ d \in Datasources
    BY <1>5, ShapeOfInvalidator DEF Invalidate, InvalidatorAt
  <2>2. CASE AwaitInitialization(v, d)
    <3>1. UNCHANGED registry /\ OtherInvalidatorsStay(v) /\ MovesOn(v, "awaitInit", None) /\ registry[d] = None
      BY <2>1, <2>2, AwaitEffect DEF AwaitInitialization, InitOK
    <3>2. \A w \in Users : Pending(w) /\ users[w].version < version[users[w].ds] =>
            \E x \in Invalidators :
              invalidators'[x].ds = users[w].ds /\ invalidators'[x].pc \in {"saved", "awaitInit"}
      BY <3>1 DEF StaleOK, OtherInvalidatorsStay, MovesOn
    <3>3. \A b \in Datasources : registry[b] # None /\ entries[registry[b]].version < version[b] =>
            \E x \in Invalidators :
              /\ invalidators'[x].ds = b
              /\ \/ InvalidatorAt(x, "saved")'
                 \/ InvalidatorAt(x, "waitIdle")' /\ invalidators'[x].ent = registry[b]
      BY <3>1 DEF StaleOK, OtherInvalidatorsStay, InvalidatorAt
    <3> QED BY <1>1, <2>1, <3>1, <3>2, <3>3 DEF StaleOK, Pending
  <2>3. CASE ~AwaitInitialization(v, d)
    <3>1. d \notin inFlight /\ OtherInvalidatorsStay(v)
      BY <1>5, <2>1, <2>3, CloseEntryEffect
      DEF Invalidate, NothingToClose, CloseEntry, OtherInvalidatorsStay, TypeOK
    <3>2. \A w \in Users : Pending(w) /\ users[w].version < version[users[w].ds] =>
            \E x \in Invalidators :
              invalidators'[x].ds = users[w].ds /\ invalidators'[x].pc \in {"saved", "awaitInit"}
      BY <1>3, <3>1 DEF StaleOK, OtherInvalidatorsStay
    <3>3. /\ \A b \in Datasources \ {d} : registry'[b] = registry[b]
          /\ \/ registry'[d] = None
             \/ /\ registry'[d] = registry[d]
                /\ InvalidatorAt(v, "waitIdle")' /\ invalidators'[v].ds = d /\ invalidators'[v].ent = registry[d]
      <4>1. CASE NothingToClose(v, d)
        BY <4>1 DEF NothingToClose
      <4>2. CASE CloseEntry(v, d)
        BY <2>1, <4>2, CloseEntryEffect DEF MovesOn, InvalidatorAt, TypeOK
      <4> QED BY <1>5, <2>3, <4>1, <4>2 DEF Invalidate
    <3>4. \A b \in Datasources : registry'[b] # None /\ entries[registry'[b]].version < version[b] =>
            \E x \in Invalidators :
              /\ invalidators'[x].ds = b
              /\ \/ InvalidatorAt(x, "saved")'
                 \/ InvalidatorAt(x, "waitIdle")' /\ invalidators'[x].ent = registry'[b]
      <4>1. TAKE b \in Datasources
      <4>2. HAVE registry'[b] # None /\ entries[registry'[b]].version < version[b]
      <4>3. CASE b = d
        BY <3>3, <4>2, <4>3
      <4>4. CASE b # d
        BY <3>1, <3>3, <4>2, <4>4 DEF StaleOK, OtherInvalidatorsStay, InvalidatorAt
      <4> QED BY <4>3, <4>4
    <3> QED BY <1>1, <2>1, <3>2, <3>4 DEF StaleOK, Pending
  <2> QED BY <2>2, <2>3
<1>6. CASE StopWaiting(v)
  <2>1. UNCHANGED <<entries, version>> /\ registry' = [registry EXCEPT ![d] = None]
    BY <1>6 DEF StopWaiting
  <2>2. InvalidatorAt(v, "waitIdle") /\ d \in Datasources /\ OtherInvalidatorsStay(v)
    BY <1>6, StopWaitingEffect
  <2>3. registry'[d] = None /\ \A c \in Datasources \ {d} : registry'[c] = registry[c]
    BY <2>1, <2>2 DEF TypeOK
  <2>4. \A w \in Users : Pending(w) /\ users[w].version < version[users[w].ds] =>
          \E x \in Invalidators :
            invalidators'[x].ds = users[w].ds /\ invalidators'[x].pc \in {"saved", "awaitInit"}
    BY <2>2 DEF StaleOK, OtherInvalidatorsStay, InvalidatorAt
  <2>5. \A b \in Datasources : registry'[b] # None /\ entries[registry'[b]].version < version[b] =>
          \E x \in Invalidators :
            /\ invalidators'[x].ds = b
            /\ \/ InvalidatorAt(x, "saved")'
               \/ InvalidatorAt(x, "waitIdle")' /\ invalidators'[x].ent = registry'[b]
    BY <2>2, <2>3 DEF StaleOK, OtherInvalidatorsStay, InvalidatorAt
  <2> QED BY <1>1, <2>1, <2>4, <2>5 DEF StaleOK, Pending
<1>7. CASE Invalidated(v)
  <2>1. UNCHANGED <<registry, version>>
    BY <1>7 DEF Invalidated
  <2>2. InvalidatorAt(v, "close") /\ OtherInvalidatorsStay(v) /\ OtherEntriesStay(invalidators[v].ent)
    BY <1>7, InvalidatedEffect DEF Done
  <2>3. \A b \in Datasources : registry[b] # None => entries'[registry[b]] = entries[registry[b]]
    BY <1>2, <2>2 DEF RegistryOK, OtherEntriesStay
  <2>4. \A w \in Users : Pending(w) /\ users[w].version < version[users[w].ds] =>
          \E x \in Invalidators :
            invalidators'[x].ds = users[w].ds /\ invalidators'[x].pc \in {"saved", "awaitInit"}
    BY <2>2 DEF StaleOK, OtherInvalidatorsStay, InvalidatorAt
  <2>5. \A b \in Datasources : registry[b] # None /\ entries'[registry[b]].version < version[b] =>
          \E x \in Invalidators :
            /\ invalidators'[x].ds = b
            /\ \/ InvalidatorAt(x, "saved")'
               \/ InvalidatorAt(x, "waitIdle")' /\ invalidators'[x].ent = registry[b]
    BY <2>2, <2>3 DEF StaleOK, OtherInvalidatorsStay, InvalidatorAt
  <2> QED BY <1>1, <2>1, <2>4, <2>5 DEF StaleOK, Pending
<1> QED BY <1>4, <1>5, <1>6, <1>7 DEF InvalidateStep

\* Every step keeps StaleOK.
LEMMA StaleStep ==
    ASSUME TypeOK, ShapeOK, InitOK, RegistryOK, StaleOK, Next
    PROVE  StaleOK'
<1>1. \A w \in Users : Pending(w) => users[w].ds \in Datasources
  BY ShapeOfUser DEF Pending, At
<1>2. ASSUME NEW u \in Users, FinishOperation(u)
      PROVE  StaleOK'
  <2>1. UNCHANGED <<registry, version, invalidators>>
    BY <1>2 DEF FinishOperation
  <2>2. /\ users'[u].pc = "idle" /\ OthersStay(u)
        /\ \A x \in Entries : entries'[x].version = entries[x].version
    BY <1>2, FinishEffect DEF Becomes
  <2>3. \A w \in Users : Pending(w)' =>
          /\ users'[w].ds = users[w].ds /\ users[w].ds \in Datasources
          /\ Pending(w) /\ users'[w].version = users[w].version
    BY <1>1, <2>2 DEF Pending, OthersStay
  <2>4. \A b \in Datasources : registry[b] # None => entries'[registry[b]].version = entries[registry[b]].version
    BY <2>2 DEF TypeOK
  <2> QED BY <2>1, <2>3, <2>4, StaleKept
<1>3. ASSUME TunnelBreaks \/ Cleanup \/ Close \/ Shutdown \/ Collect
      PROVE  StaleOK'
  <2>1. UNCHANGED <<users, version, invalidators>>
    BY <1>3 DEF TunnelBreaks, Cleanup, Close, Shutdown, Collect
  <2>2. \A b \in Datasources : registry'[b] \in {registry[b], None}
    BY <1>3 DEF TunnelBreaks, Cleanup, Close, Shutdown, Collect
  <2>3. \A b \in Datasources : registry[b] # None => entries'[registry[b]].version = entries[registry[b]].version
    <3>1. CASE TunnelBreaks
      <4>1. PICK e \in Entries : entries' = [entries EXCEPT ![e] = [@ EXCEPT !.healthy = FALSE]]
        BY <3>1 DEF TunnelBreaks, Registered, TypeOK
      <4>2. \A x \in Entries : entries'[x].version = entries[x].version
        BY <4>1 DEF TypeOK, Entry
      <4> QED BY <4>2 DEF TypeOK
    <3>2. CASE Close
      <4>1. PICK e \in closing : Closed(e) /\ e \in Entries
        BY <3>2 DEF Close, TypeOK
      <4> QED BY <4>1, ClosedEffect DEF RegistryOK, OtherEntriesStay, TypeOK
    <3> QED BY <1>3, <3>1, <3>2 DEF Cleanup, Shutdown, Collect
  <2>4. \A b \in Datasources : registry'[b] # None => entries'[registry[b]].version = entries[registry[b]].version
    BY <2>2, <2>3
  <2> QED BY <1>1, <2>1, <2>2, <2>4, StaleKept DEF Pending
<1> QED BY <1>2, <1>3, AcquireStale, InitializeStale, InvalidatorStale DEF Next

-----------------------------------------------------------------------------
(* Leaks, with one invalidation at a time                                  *)

\* Datasources are invalidated one at a time.
OneInvalidation == \A v, w \in Invalidators : v = w

\* A datasource is blocked during an invalidation: no initialization starts, and
\* no other entry is registered, while it waits for an entry.
BlockOK ==
    \A v \in Invalidators :
      /\ invalidators[v].pc \in {"awaitInit", "waitIdle", "close"} => invalidators[v].ds \in blocked
      /\ InvalidatorAt(v, "waitIdle") =>
           /\ invalidators[v].ds \notin inFlight
           /\ registry[invalidators[v].ds] \in {None, invalidators[v].ent}

\* BlockOK survives a step that only unregisters or ends initializations.
LEMMA BlockKept ==
    ASSUME ShapeOK, TypeOK, BlockOK, UNCHANGED <<blocked, invalidators>>, inFlight' \subseteq inFlight,
           \A d \in Datasources : registry'[d] \in {registry[d], None}
    PROVE  BlockOK'
<1>1. \A v \in Invalidators : InvalidatorAt(v, "waitIdle") => invalidators[v].ds \in Datasources
  BY ShapeOfInvalidator DEF InvalidatorAt
<1> QED BY <1>1 DEF BlockOK, InvalidatorAt

\* No user starts an initialization of a blocked datasource.
LEMMA UserBlock ==
    ASSUME TypeOK, ShapeOK, InitOK, BlockOK, OneInvalidation, NEW u \in Users,
           Acquire(u) \/ FinishOperation(u) \/ Initialize(u)
    PROVE  BlockOK'
<1>1. CASE Acquire(u)
  <2>1. PICK d \in Datasources \ blocked : Lease(u, d) \/ Refresh(u, d) \/ Join(u, d) \/ Create(u, d)
    BY <1>1 DEF Acquire
  <2>2. UNCHANGED <<blocked, invalidators>> /\ inFlight' \subseteq inFlight \cup {d}
    BY <1>1, <2>1 DEF Acquire, Lease, Refresh, Join, Create, StartInit
  <2>3. \A c \in Datasources : registry'[c] \in {registry[c], None}
    BY <2>1 DEF Lease, Refresh, Join, Create, TypeOK
  <2>4. \A v \in Invalidators : InvalidatorAt(v, "waitIdle") =>
          invalidators[v].ds \in Datasources /\ invalidators[v].ds # d
    BY ShapeOfInvalidator DEF InvalidatorAt, BlockOK
  <2> QED BY <2>2, <2>3, <2>4 DEF BlockOK, InvalidatorAt
<1>2. CASE FinishOperation(u) \/ Refreshed(u) \/ Evicted(u) \/ ReadDatasource(u)
  <2>1. UNCHANGED <<blocked, invalidators, inFlight, registry>>
    BY <1>2 DEF FinishOperation, Refreshed, Evicted, ReadDatasource
  <2> QED BY <2>1, BlockKept
<1>3. CASE EnsureCapacity(u)
  <2>1. UNCHANGED <<blocked, invalidators, inFlight>>
    BY <1>3 DEF EnsureCapacity
  <2>2. \A d \in Datasources : registry'[d] \in {registry[d], None}
    BY <1>3, CapacityEffect DEF TypeOK
  <2> QED BY <2>1, <2>2, BlockKept
<1>4. CASE Connected(u)
  <2> DEFINE d == users[u].ds
  <2>1. PICK e \in Entries :
          /\ registry' = [registry EXCEPT ![d] = e]
          /\ \A v \in Invalidators :
               IF v \in AwaitingInit(d)
                 THEN InvalidatorAt(v, "waitIdle")' /\ invalidators'[v].ds = d /\ invalidators'[v].ent = e
                 ELSE invalidators'[v] = invalidators[v]
    BY <1>4, ConnectedEffect
  <2>2. inFlight' = inFlight \ {d} /\ d \in Datasources /\ d \in inFlight /\ UNCHANGED blocked
    BY <1>4, ConnectedEffect DEF Connected, Register, EndInit, InitOK, Initializing, At
  <2>3. registry'[d] = e /\ \A c \in Datasources \ {d} : registry'[c] = registry[c]
    BY <2>1, <2>2 DEF TypeOK
  <2>4. ASSUME NEW v \in AwaitingInit(d)
        PROVE  /\ invalidators'[v].ds = d /\ d \in blocked' /\ InvalidatorAt(v, "waitIdle")'
               /\ d \notin inFlight' /\ registry'[d] = invalidators'[v].ent
    BY <2>1, <2>2, <2>3 DEF AwaitingInit, BlockOK
  <2>5. ASSUME NEW v \in Invalidators \ AwaitingInit(d)
        PROVE  /\ invalidators'[v].pc \in {"awaitInit", "waitIdle", "close"} => invalidators'[v].ds \in blocked'
               /\ InvalidatorAt(v, "waitIdle")' =>
                    /\ invalidators'[v].ds \notin inFlight'
                    /\ registry'[invalidators'[v].ds] \in {None, invalidators'[v].ent}
    <3>1. InvalidatorAt(v, "waitIdle") => invalidators[v].ds \in Datasources
      BY ShapeOfInvalidator DEF InvalidatorAt
    <3> QED BY <2>1, <2>2, <2>3, <3>1 DEF BlockOK, InvalidatorAt
  <2> QED BY <2>4, <2>5 DEF BlockOK, AwaitingInit
<1>5. CASE InitFails(u)
  <2> DEFINE d == users[u].ds
  <2>1. UNCHANGED registry /\ inFlight' \subseteq inFlight
    BY <1>5 DEF InitFails, EndInit
  <2>2. CASE AwaitingInit(d) = {}
    <3>1. UNCHANGED blocked
      BY <1>5, <2>2 DEF InitFails
    <3>2. \A v \in Invalidators : invalidators'[v] = invalidators[v]
      BY <1>5, <2>2, FailsEffect
    <3> QED BY <2>1, <3>1, <3>2 DEF BlockOK, InvalidatorAt
  <2>3. CASE AwaitingInit(d) # {}
    <3>1. \A v \in Invalidators : v \in AwaitingInit(d)
      BY <2>3 DEF OneInvalidation, AwaitingInit
    <3>2. \A v \in Invalidators : InvalidatorAt(v, "idle")'
      BY <1>5, <3>1, FailsEffect
    <3> QED BY <3>2 DEF BlockOK, InvalidatorAt
  <2> QED BY <2>2, <2>3
<1> QED BY <1>1, <1>2, <1>3, <1>4, <1>5 DEF Initialize

\* Every step keeps BlockOK when there is one invalidation at a time.
LEMMA BlockStep ==
    ASSUME TypeOK, ShapeOK, InitOK, BlockOK, OneInvalidation, Next
    PROVE  BlockOK'
<1>1. ASSUME NEW v \in Invalidators, Update(v) \/ InvalidateStep(v)
      PROVE  BlockOK'
  <2> DEFINE d == invalidators[v].ds
  <2>1. UNCHANGED inFlight
    BY <1>1 DEF Update, InvalidateStep, Invalidate, StopWaiting, Invalidated
  <2>2. SUFFICES /\ invalidators'[v].pc \in {"awaitInit", "waitIdle", "close"} => invalidators'[v].ds \in blocked'
                 /\ InvalidatorAt(v, "waitIdle")' =>
                      /\ invalidators'[v].ds \notin inFlight'
                      /\ registry'[invalidators'[v].ds] \in {None, invalidators'[v].ent}
    BY DEF BlockOK, OneInvalidation
  <2>3. CASE Update(v) \/ Invalidated(v)
    BY <2>3, UpdateEffect, InvalidatedEffect DEF Done, IdleInvalidator, InvalidatorAt
  <2>4. CASE StopWaiting(v)
    BY <2>4, StopWaitingEffect DEF MovesOn, InvalidatorAt, StopWaiting, BlockOK
  <2>5. CASE Invalidate(v)
    <3>1. InvalidatorAt(v, "saved") /\ d \in Datasources
      BY <2>5, ShapeOfInvalidator DEF Invalidate, InvalidatorAt
    <3>2. CASE AwaitInitialization(v, d)
      BY <3>1, <3>2, AwaitEffect DEF AwaitInitialization, MovesOn, InvalidatorAt
    <3>3. CASE NothingToClose(v, d)
      BY <3>3 DEF NothingToClose, IdleInvalidator, InvalidatorAt, TypeOK
    <3>4. CASE CloseEntry(v, d)
      <4>1. blocked' = blocked \cup {d} /\ d \notin inFlight
        BY <3>4 DEF CloseEntry
      <4> QED BY <2>1, <3>1, <3>4, <4>1, CloseEntryEffect DEF MovesOn, InvalidatorAt
    <3> QED BY <2>5, <3>2, <3>3, <3>4 DEF Invalidate
  <2> QED BY <1>1, <2>3, <2>4, <2>5 DEF InvalidateStep
<1>2. ASSUME TunnelBreaks \/ Cleanup \/ Close \/ Shutdown \/ Collect
      PROVE  BlockOK'
  <2>1. UNCHANGED <<blocked, invalidators, inFlight>>
    BY <1>2 DEF TunnelBreaks, Cleanup, Close, Shutdown, Collect
  <2>2. \A d \in Datasources : registry'[d] \in {registry[d], None}
    BY <1>2 DEF TunnelBreaks, Cleanup, Close, Shutdown, Collect
  <2> QED BY <2>1, <2>2, BlockKept
<1> QED BY <1>1, <1>2, UserBlock DEF Next

\* NothingLeaks survives a step that hands every entry it unregisters to
\* somebody who closes it.
LEMMA StillHeld ==
    ASSUME TypeOK, ShapeOK, NothingLeaks,
           \A e \in Entries : entries'[e].open => entries[e].open \/ \E d \in Datasources : registry'[d] = e,
           \A e \in Entries, d \in Datasources : registry[d] = e => registry'[d] = e \/ BeingClosed(e)',
           \A e \in closing : e \in closing' \/ ~entries'[e].open,
           \A u \in Users : users[u].pc \in {"refresh", "evict"} =>
             users'[u] = users[u] \/ ~entries'[users[u].ent].open,
           \A v \in Invalidators : invalidators[v].ent # None =>
             invalidators'[v].ent = invalidators[v].ent \/ ~entries'[invalidators[v].ent].open
    PROVE  NothingLeaks'
<1>1. ASSUME NEW e \in Entries, entries'[e].open, BeingClosed(e)
      PROVE  BeingClosed(e)'
  BY <1>1, NoneIsNone DEF BeingClosed
<1> QED BY <1>1 DEF NothingLeaks

\* The steps of users do.
LEMMA UserLeak ==
    ASSUME TypeOK, ShapeOK, InitOK, NothingLeaks, NEW u \in Users,
           Acquire(u) \/ FinishOperation(u) \/ Initialize(u)
    PROVE  NothingLeaks'
<1>1. CASE Acquire(u)
  <2>1. PICK d \in Datasources : Lease(u, d) \/ Refresh(u, d) \/ Join(u, d) \/ Create(u, d)
    BY <1>1 DEF Acquire
  <2>2. UNCHANGED <<invalidators, closing>> /\ OthersStay(u) /\ users[u].pc = "idle"
    BY <1>1, <2>1, LeaseEffect, RefreshEffect, JoinEffect, CreateEffect DEF Acquire, UserAt
  <2>3. \A e \in Entries : entries'[e].open = entries[e].open
    BY <1>1, <2>1, LeaseEffect DEF Refresh, Join, Create
  <2>4. \A e \in Entries, c \in Datasources : registry[c] = e => registry'[c] = e \/ BeingClosed(e)'
    <3>1. CASE Lease(u, d) \/ Join(u, d) \/ Create(u, d)
      BY <3>1 DEF Lease, Join, Create
    <3>2. CASE Refresh(u, d)
      <4>1. registry' = [registry EXCEPT ![d] = None]
        BY <3>2 DEF Refresh
      <4>2. PICK x \in Entries : x = registry[d] /\ users'[u].pc = "refresh" /\ users'[u].ent = x
        BY <1>1, <3>2, RefreshEffect DEF Becomes
      <4>3. BeingClosed(x)'
        BY <4>2 DEF BeingClosed
      <4> QED BY <4>1, <4>2, <4>3 DEF TypeOK
    <3> QED BY <2>1, <3>1, <3>2
  <2> QED BY <2>2, <2>3, <2>4, StillHeld DEF OthersStay
<1>2. CASE FinishOperation(u) \/ ReadDatasource(u)
  <2>1. UNCHANGED <<invalidators, closing, registry>>
    BY <1>2 DEF FinishOperation, ReadDatasource
  <2>2. OthersStay(u) /\ users[u].pc \in {"using", "resolve"} /\ \A e \in Entries : entries'[e].open = entries[e].open
    BY <1>2, FinishEffect, ReadEffect DEF At, ReadDatasource
  <2> QED BY <2>1, <2>2, StillHeld DEF OthersStay
<1>3. CASE Refreshed(u) \/ Evicted(u)
  <2>1. UNCHANGED <<invalidators, closing, registry>>
    BY <1>3 DEF Refreshed, Evicted
  <2>2. OthersStay(u) /\ ~entries'[users[u].ent].open /\ OtherEntriesStay(users[u].ent)
    BY <1>3, RefreshedEffect, EvictedEffect
  <2> QED BY <2>1, <2>2, StillHeld DEF OthersStay, OtherEntriesStay
<1>4. CASE EnsureCapacity(u)
  <2>1. UNCHANGED <<invalidators, closing, entries>>
    BY <1>4 DEF EnsureCapacity
  <2>2. OthersStay(u) /\ users[u].pc = "secrets"
    BY <1>4, CapacityEffect DEF At
  <2>3. \A e \in Entries, d \in Datasources : registry[d] = e => registry'[d] = e \/ BeingClosed(e)'
    BY <1>4, CapacityEffect DEF Becomes, BeingClosed, TypeOK
  <2> QED BY <2>1, <2>2, <2>3, StillHeld DEF OthersStay
<1>5. CASE Connected(u)
  <2> DEFINE d == users[u].ds
  <2>1. PICK e \in Entries :
          /\ OtherEntriesStay(e) /\ registry' = [registry EXCEPT ![d] = e]
          /\ \A w \in Users :
               IF w \in Leased(u) THEN Becomes(w, "using", d, e)
               ELSE IF w \in WaitingFor(d) THEN Becomes(w, "idle", None, None)
               ELSE users'[w] = users[w]
          /\ \A v \in Invalidators :
               IF v \in AwaitingInit(d)
                 THEN InvalidatorAt(v, "waitIdle")' /\ invalidators'[v].ds = d /\ invalidators'[v].ent = e
                 ELSE invalidators'[v] = invalidators[v]
    BY <1>5, ConnectedEffect
  <2>2. d \in Datasources /\ At(u, "connect") /\ UNCHANGED closing
    BY <1>5, ConnectedEffect DEF Connected, Register
  <2>3. registry[d] = None
    BY <2>2 DEF InitOK, Initializing, At
  <2>4. registry'[d] = e /\ \A c \in Datasources \ {d} : registry'[c] = registry[c]
    BY <2>1, <2>2 DEF TypeOK
  <2>5. \A v \in AwaitingInit(d) : invalidators[v].ent = None
    BY ShapeOfInvalidator DEF AwaitingInit
  <2>6. \A w \in Users : users[w].pc \in {"refresh", "evict"} => users'[w] = users[w]
    BY <2>1, <2>2 DEF Leased, WaitingFor, At
  <2>7. \A x \in Entries : entries'[x].open => entries[x].open \/ \E c \in Datasources : registry'[c] = x
    BY <2>1, <2>2, <2>4 DEF OtherEntriesStay
  <2>8. \A x \in Entries, c \in Datasources : registry[c] = x => registry'[c] = x
    BY <2>3, <2>4, NoneIsNone
  <2>9. \A v \in Invalidators : invalidators[v].ent # None => invalidators'[v].ent = invalidators[v].ent
    BY <2>1, <2>5
  <2> QED BY <2>2, <2>6, <2>7, <2>8, <2>9, StillHeld
<1>6. CASE InitFails(u)
  <2>1. UNCHANGED <<closing, registry>>
    BY <1>6 DEF InitFails
  <2>2. \A v \in Invalidators : invalidators[v].ent # None => invalidators'[v].ent = invalidators[v].ent
    BY <1>6, FailsEffect, ShapeOfInvalidator DEF AwaitingInit
  <2>3. \A w \in Users : users[w].pc \in {"refresh", "evict"} => users'[w] = users[w] \/ w = u
    BY <1>6, FailsEffect DEF WaitingFor, At
  <2>4. /\ \A e \in Entries : entries'[e].open => entries[e].open
        /\ users[u].pc \in {"refresh", "evict"} => ~entries'[users[u].ent].open
    BY <1>6, FailsEffect, ShapeOfUser, NoneIsNone DEF OtherEntriesStay
  <2> QED BY <2>1, <2>2, <2>3, <2>4, StillHeld
<1> QED BY <1>1, <1>2, <1>3, <1>4, <1>5, <1>6 DEF Initialize

\* Every step does, given BlockOK: an invalidation unregisters its own entry.
LEMMA LeakStep ==
    ASSUME TypeOK, ShapeOK, InitOK, RegistryOK, BlockOK, NothingLeaks, Next
    PROVE  NothingLeaks'
<1>1. ASSUME NEW v \in Invalidators, Update(v) \/ InvalidateStep(v)
      PROVE  NothingLeaks'
  <2> DEFINE d == invalidators[v].ds
  <2>1. UNCHANGED <<users, closing>>
    BY <1>1 DEF Update, InvalidateStep, Invalidate, StopWaiting, Invalidated
  <2>2. CASE Update(v)
    BY <2>1, <2>2, UpdateEffect, StillHeld DEF Update, OtherInvalidatorsStay
  <2>3. CASE Invalidate(v)
    <3>1. InvalidatorAt(v, "saved") /\ UNCHANGED entries /\ d \in Datasources /\ invalidators[v].ent = None
      BY <2>3, ShapeOfInvalidator DEF Invalidate, InvalidatorAt
    <3>2. CASE AwaitInitialization(v, d)
      <4>1. UNCHANGED registry /\ OtherInvalidatorsStay(v)
        BY <3>1, <3>2, AwaitEffect DEF AwaitInitialization
      <4> QED BY <2>1, <3>1, <4>1, StillHeld DEF OtherInvalidatorsStay
    <3>3. CASE NothingToClose(v, d)
      <4>1. UNCHANGED registry /\ OtherInvalidatorsStay(v)
        BY <3>3 DEF NothingToClose, OtherInvalidatorsStay, TypeOK
      <4> QED BY <2>1, <3>1, <4>1, StillHeld DEF OtherInvalidatorsStay
    <3>4. CASE CloseEntry(v, d)
      <4>1. PICK e \in Entries :
              /\ e = registry[d] /\ OtherInvalidatorsStay(v) /\ invalidators'[v].ent = e
              /\ UNCHANGED registry \/ registry' = [registry EXCEPT ![d] = None]
        BY <3>1, <3>4, CloseEntryEffect DEF MovesOn
      <4>2. BeingClosed(e)'
        BY <4>1 DEF BeingClosed
      <4>3. \A x \in Entries, c \in Datasources : registry[c] = x => registry'[c] = x \/ BeingClosed(x)'
        BY <3>1, <4>1, <4>2 DEF TypeOK
      <4> QED BY <2>1, <3>1, <4>1, <4>3, StillHeld DEF OtherInvalidatorsStay
    <3> QED BY <2>3, <3>2, <3>3, <3>4 DEF Invalidate
  <2>4. CASE StopWaiting(v)
    <3>1. UNCHANGED entries /\ registry' = [registry EXCEPT ![d] = None]
      BY <2>4 DEF StopWaiting
    <3>2. /\ InvalidatorAt(v, "waitIdle") /\ d \in Datasources /\ OtherInvalidatorsStay(v)
          /\ invalidators'[v].ent = invalidators[v].ent
      BY <2>4, StopWaitingEffect DEF MovesOn
    <3>3. \A x \in Entries, c \in Datasources : registry[c] = x => registry'[c] = x \/ BeingClosed(x)'
      BY <3>1, <3>2, NoneIsNone DEF BlockOK, BeingClosed, TypeOK
    <3> QED BY <2>1, <3>1, <3>2, <3>3, StillHeld DEF OtherInvalidatorsStay
  <2>5. CASE Invalidated(v)
    <3>1. UNCHANGED registry
      BY <2>5 DEF Invalidated
    <3>2. /\ ~entries'[invalidators[v].ent].open /\ OtherEntriesStay(invalidators[v].ent)
          /\ OtherInvalidatorsStay(v)
      BY <2>5, InvalidatedEffect DEF Done
    <3> QED BY <2>1, <3>1, <3>2, StillHeld DEF OtherInvalidatorsStay, OtherEntriesStay
  <2> QED BY <1>1, <2>2, <2>3, <2>4, <2>5 DEF InvalidateStep
<1>2. ASSUME TunnelBreaks \/ Cleanup \/ Close \/ Shutdown \/ Collect
      PROVE  NothingLeaks'
  <2>1. UNCHANGED <<users, invalidators>>
    BY <1>2 DEF TunnelBreaks, Cleanup, Close, Shutdown, Collect
  <2>2. CASE TunnelBreaks
    <3>1. PICK e \in Entries : entries' = [entries EXCEPT ![e] = [@ EXCEPT !.healthy = FALSE]]
      BY <2>2 DEF TunnelBreaks, Registered, TypeOK
    <3>2. \A x \in Entries : entries'[x].open = entries[x].open
      BY <3>1 DEF TypeOK, Entry
    <3> QED BY <2>1, <2>2, <3>2, StillHeld DEF TunnelBreaks
  <2>3. CASE Cleanup \/ Collect
    <3>1. /\ UNCHANGED entries /\ closing \subseteq closing'
          /\ \A d \in Datasources : registry[d] # None => registry'[d] = registry[d] \/ registry[d] \in closing'
      BY <2>3 DEF Cleanup, Collect, Registered
    <3>2. \A x \in Entries, c \in Datasources : registry[c] = x => registry'[c] = x \/ BeingClosed(x)'
      BY <3>1, NoneIsNone DEF BeingClosed
    <3> QED BY <2>1, <3>1, <3>2, StillHeld
  <2>4. CASE Close
    <3>1. PICK e \in closing : Closed(e) /\ closing' = closing \ {e} /\ e \in Entries
      BY <2>4 DEF Close, TypeOK
    <3>2. ~entries'[e].open /\ OtherEntriesStay(e) /\ UNCHANGED registry
      BY <2>4, <3>1, ClosedEffect DEF Close
    <3> QED BY <2>1, <3>1, <3>2, StillHeld DEF OtherEntriesStay
  <2>5. CASE Shutdown
    BY <2>1, <2>5, StillHeld DEF Shutdown
  <2> QED BY <1>2, <2>2, <2>3, <2>4, <2>5
<1> QED BY <1>1, <1>2, UserLeak DEF Next

-----------------------------------------------------------------------------
(* The theorems                                                            *)

\* The inductive invariant.
IInv ==
    /\ TypeOK /\ ShapeOK /\ LeaseCount /\ InitOK /\ RegistryOK /\ KeptOK /\ ForeignOK /\ StaleOK

\* The invariant holds before the first call.
LEMMA InvInit == Init => IInv
<1> SUFFICES ASSUME Init
             PROVE  IInv
  OBVIOUS
<1> USE NoneIsNone
<1>1. TypeOK
  BY DEF Init, TypeOK, Entry, NoEntry, User, IdleUser, Invalidator, IdleInvalidator
<1>2. ShapeOK
  BY DEF Init, ShapeOK, UserOK, InvalidatorOK, At, InvalidatorAt, IdleUser, IdleInvalidator
<1>3. LeaseCount
  <2>1. \A e \in Entries : entries[e].active = 0 /\ Using(e) = {}
    BY DEF Init, NoEntry, Using, At, IdleUser
  <2> QED BY <2>1, FS_EmptySet DEF LeaseCount, Using
<1>4. InitOK
  BY DEF Init, InitOK, Initializing, InvalidatorAt, IdleUser, IdleInvalidator
<1>5. RegistryOK
  BY DEF Init, RegistryOK, InvalidatorAt, IdleUser, IdleInvalidator
<1>6. KeptOK
  BY DEF Init, KeptOK, At, IdleUser
<1>7. ForeignOK
  BY ConstantsAssumption DEF Init, ForeignOK, IdleUser
<1>8. StaleOK
  BY DEF Init, StaleOK, Pending, IdleUser
<1> QED BY <1>1, <1>2, <1>3, <1>4, <1>5, <1>6, <1>7, <1>8 DEF IInv

\* The invariant is inductive.
LEMMA InvNext == IInv /\ [Next]_vars => IInv'
<1>1. ASSUME IInv, Next
      PROVE  IInv'
  BY <1>1, TypeStep, LeaseStep, InitStep, RegistryStep, KeptStep, ForeignStep, StaleStep DEF IInv
<1>2. ASSUME IInv, UNCHANGED vars
      PROVE  IInv'
  BY <1>2
  DEF vars, IInv, TypeOK, ShapeOK, UserOK, InvalidatorOK, LeaseCount, InitOK, RegistryOK, KeptOK, ForeignOK, StaleOK,
      At, InvalidatorAt, Initializing, Pending
<1> QED BY <1>1, <1>2

\* The invariant holds throughout.
LEMMA Invariance == Spec => []IInv
BY InvInit, InvNext, PTL DEF Spec

\* Type correctness: what acquire, initialize, the cleanup, invalidations and
\* closeAll assign stays in the domains of the registry, the entries and the
\* calls, for every number of them; a count of leases is never negative.
THEOREM TypeCorrect == Spec => []TypeOK
<1>1. IInv => TypeOK
  BY DEF IInv
<1> QED BY <1>1, Invariance, PTL

\* LeaseCount: activeOperations is the number of operations of the entry, on
\* every path of acquire, FinishOperation and closeEntry.
THEOREM LeasesCounted == Spec => []LeaseCount
<1>1. IInv => LeaseCount
  BY DEF IInv
<1> QED BY <1>1, Invariance, PTL

\* OneInitialization: inFlight admits one initialization of a datasource at a
\* time, however requests, broken tunnels and invalidations interleave, and it
\* never overwrites a registered entry.
THEOREM SingleInitialization == Spec => []OneInitialization
<1>1. IInv => OneInitialization
  BY DEF IInv, InitOK, OneInitialization
<1> QED BY <1>1, Invariance, PTL

\* InUseIsKept: evictions and the idle cleanup close no entry in use, also when
\* the user had waited for another user's initialization.
THEOREM UsedAreKept == Spec => []InUseIsKept
<1>1. ASSUME IInv
      PROVE  InUseIsKept
  <2>1. ASSUME NEW u \in Users, At(u, "using"), stage # "closed"
        PROVE  /\ users[u].ent \notin closing
               /\ \A w \in Users : At(w, "evict") => users[w].ent # users[u].ent
    <3>1. entries[users[u].ent].active > 0
      BY <1>1, <2>1, ShapeOfUser, UsedIsActive DEF IInv, At
    <3>2. ~(entries[users[u].ent].active = 0)
      BY <3>1
    <3> QED BY <1>1, <2>1, <3>2 DEF IInv, KeptOK
  <2> QED BY <2>1 DEF InUseIsKept
<1> QED BY <1>1, Invariance, PTL

\* OwnOrganization: no user of another organization gets an entry, whether it
\* finds it, initializes it or waits for it.
THEOREM Isolation == Spec => []OwnOrganization
<1>1. IInv => OwnOrganization
  BY DEF IInv, ForeignOK, OwnOrganization, At
<1> QED BY <1>1, Invariance, PTL

\* StaleIsPending: an initialization that read the configuration before an
\* update, or its entry, has an invalidation pending, for any number of updates.
THEOREM StaleInvalidated == Spec => []StaleIsPending
<1>1. ASSUME IInv
      PROVE  StaleIsPending
  BY <1>1 DEF IInv, StaleOK, StaleIsPending, Pending, InvalidatorAt
<1> QED BY <1>1, Invariance, PTL

\* NothingLeaks, while one invalidation runs at a time: each entry
\* that leaves the registry is being closed.  The run connections_leak shows
\* that the assumption is needed.
THEOREM NoLeak == OneInvalidation => (Spec => []NothingLeaks)
<1> SUFFICES ASSUME OneInvalidation
             PROVE  Spec => []NothingLeaks
  OBVIOUS
<1> DEFINE LInv == IInv /\ BlockOK /\ NothingLeaks
<1>1. Init => LInv
  <2>1. Init => BlockOK
    BY DEF Init, BlockOK, InvalidatorAt, IdleInvalidator
  <2>2. Init => NothingLeaks
    BY DEF Init, NothingLeaks, NoEntry
  <2> QED BY <2>1, <2>2, InvInit
<1>2. LInv /\ [Next]_vars => LInv'
  <2>1. ASSUME LInv, Next
        PROVE  BlockOK' /\ NothingLeaks'
    BY <2>1, BlockStep, LeakStep DEF IInv
  <2>2. ASSUME LInv, UNCHANGED vars
        PROVE  BlockOK' /\ NothingLeaks'
    BY <2>2 DEF vars, BlockOK, NothingLeaks, BeingClosed, InvalidatorAt
  <2> QED BY <2>1, <2>2, InvNext
<1>3. LInv => NothingLeaks
  OBVIOUS
<1> QED BY <1>1, <1>2, <1>3, PTL DEF Spec
==============================================================================
