---------------------- MODULE ConnectionManagerEffects -----------------------
(***************************************************************************)
(* Lemmas about ConnectionManager that its proofs rest on: what a call     *)
(* holds in each await, that every step keeps the types, and the effect of *)
(* each action on one user, one invalidation and one entry, so that the    *)
(* proofs of the invariants need no records.                               *)
(***************************************************************************)
EXTENDS ConnectionManager, TLAPS, FiniteSetTheorems

-----------------------------------------------------------------------------
(* What calls hold, and types                                              *)

\* What a call holds, by the await it is in.
UserOK(u) ==
    /\ At(u, "idle") => users[u] = IdleUser
    /\ ~At(u, "idle") => users[u].ds \in Datasources
    /\ users[u].ent # None <=> users[u].pc \in {"using", "refresh", "evict"}

\* What an invalidation holds, by the await it is in.
InvalidatorOK(v) ==
    /\ InvalidatorAt(v, "idle") => invalidators[v] = IdleInvalidator
    /\ ~InvalidatorAt(v, "idle") => invalidators[v].ds \in Datasources
    /\ invalidators[v].ent # None <=> invalidators[v].pc \in {"waitIdle", "close"}

ShapeOK == (\A u \in Users : UserOK(u)) /\ (\A v \in Invalidators : InvalidatorOK(v))

\* The users of entry e.
Using(e) == {u \in Users : At(u, "using") /\ users[u].ent = e}

\* None is no entry and no datasource.
LEMMA NoneIsNone == None \notin Entries /\ None \notin Datasources
BY ConstantsAssumption

\* The users of an entry can be counted.
LEMMA UsingFinite == \A e : IsFiniteSet(Using(e)) /\ Cardinality(Using(e)) \in Nat
<1>1. \A e : Using(e) \subseteq Users
  BY DEF Using
<1> QED BY <1>1, ConstantsAssumption, FS_Subset, FS_CardinalityType

\* activeOperations of an entry somebody uses is not zero.
LEMMA UsedIsActive ==
    ASSUME TypeOK, LeaseCount, NEW u \in Users, At(u, "using"), users[u].ent \in Entries
    PROVE  entries[users[u].ent].active > 0
<1> DEFINE e == users[u].ent
<1>1. entries[e].active = Cardinality(Using(e))
  BY DEF LeaseCount, Using
<1>2. u \in Using(e)
  BY DEF Using
<1>3. Cardinality(Using(e)) # 0
  BY <1>2, UsingFinite, FS_EmptySet
<1> QED BY <1>1, <1>3, UsingFinite

\* What ShapeOK says of one call of acquire.
LEMMA ShapeOfUser ==
    ASSUME TypeOK, ShapeOK, NEW u \in Users
    PROVE  /\ users[u] \in User
           /\ ~At(u, "idle") => users[u].ds \in Datasources
           /\ users[u].pc \in {"using", "refresh", "evict"} => users[u].ent \in Entries
           /\ users[u].pc \notin {"using", "refresh", "evict"} => users[u].ent = None
BY DEF TypeOK, ShapeOK, UserOK, User

\* What ShapeOK says of one invalidation.
LEMMA ShapeOfInvalidator ==
    ASSUME TypeOK, ShapeOK, NEW v \in Invalidators
    PROVE  /\ invalidators[v] \in Invalidator
           /\ ~InvalidatorAt(v, "idle") => invalidators[v].ds \in Datasources
           /\ invalidators[v].pc \in {"waitIdle", "close"} => invalidators[v].ent \in Entries
           /\ invalidators[v].pc \notin {"waitIdle", "close"} => invalidators[v].ent = None
BY DEF TypeOK, ShapeOK, InvalidatorOK, Invalidator

\* closeEntry leaves the entries well typed.
LEMMA ClosedType ==
    ASSUME TypeOK, NEW e \in Entries, Closed(e)
    PROVE  entries' \in [Entries -> Entry]
<1>1. entries[e].active \in Nat
  BY DEF TypeOK, Entry
<1>2. [NoEntry EXCEPT !.active = entries[e].active] \in Entry
  BY <1>1 DEF NoEntry, Entry
<1> QED BY <1>2 DEF TypeOK, Closed

\* The first step of acquire keeps types and shapes.
LEMMA AcquireType ==
    ASSUME TypeOK, ShapeOK, NEW u \in Users, Acquire(u)
    PROVE  TypeOK' /\ ShapeOK'
<1> USE NoneIsNone
<1>1. PICK d \in Datasources \ blocked : Lease(u, d) \/ Refresh(u, d) \/ Join(u, d) \/ Create(u, d)
  BY DEF Acquire
<1>2. CASE Lease(u, d)
  <2>0. entries' \in [Entries -> Entry]
    <3>1. PICK e \in Entries : entries' = [entries EXCEPT ![e].active = @ + 1]
      BY <1>2 DEF Lease, TypeOK
    <3> QED BY <3>1 DEF TypeOK, Entry
  <2>1. TypeOK'
    BY <1>2, <2>0 DEF Acquire, Lease, TypeOK, User, IdleUser
  <2>2. ShapeOK'
    BY <1>2 DEF Acquire, Lease, TypeOK, User, IdleUser, ShapeOK, UserOK, InvalidatorOK, At, InvalidatorAt
  <2> QED BY <2>1, <2>2
<1>3. CASE Refresh(u, d)
  <2>1. TypeOK'
    BY <1>3 DEF Acquire, Refresh, StartInit, TypeOK, User, IdleUser, Entry
  <2>2. ShapeOK'
    BY <1>3 DEF Acquire, Refresh, StartInit, TypeOK, User, IdleUser, ShapeOK, UserOK, InvalidatorOK, At, InvalidatorAt
  <2> QED BY <2>1, <2>2
<1>4. CASE Join(u, d)
  <2>1. TypeOK'
    BY <1>4 DEF Acquire, Join, TypeOK, User, IdleUser, Entry
  <2>2. ShapeOK'
    BY <1>4 DEF Acquire, Join, TypeOK, User, IdleUser, ShapeOK, UserOK, InvalidatorOK, At, InvalidatorAt
  <2> QED BY <2>1, <2>2
<1>5. CASE Create(u, d)
  <2>1. TypeOK'
    BY <1>5 DEF Acquire, Create, StartInit, TypeOK, User, IdleUser, Entry
  <2>2. ShapeOK'
    BY <1>5 DEF Acquire, Create, StartInit, TypeOK, User, IdleUser, ShapeOK, UserOK, InvalidatorOK, At, InvalidatorAt
  <2> QED BY <2>1, <2>2
<1> QED BY <1>1, <1>2, <1>3, <1>4, <1>5

\* The end of an operation does: there is a lease to give back.
LEMMA FinishType ==
    ASSUME TypeOK, ShapeOK, LeaseCount, NEW u \in Users, FinishOperation(u)
    PROVE  TypeOK' /\ ShapeOK'
<1> USE NoneIsNone
<1>1. users[u].ent \in Entries /\ entries[users[u].ent].active > 0
  BY ShapeOfUser, UsedIsActive DEF FinishOperation, At
<1>2. entries' \in [Entries -> Entry]
  <2>1. PICK e \in Entries : entries[e].active > 0 /\ entries' = [entries EXCEPT ![e].active = @ - 1]
    BY <1>1 DEF FinishOperation
  <2>2. entries[e] \in Entry /\ entries[e].active - 1 \in Nat
    BY <2>1 DEF TypeOK, Entry
  <2> QED BY <2>1, <2>2 DEF TypeOK, Entry
<1>3. TypeOK'
  BY <1>2 DEF FinishOperation, TypeOK, User, IdleUser
<1>4. ShapeOK'
  BY DEF FinishOperation, TypeOK, User, IdleUser, ShapeOK, UserOK, InvalidatorOK, At, InvalidatorAt
<1> QED BY <1>3, <1>4

\* So does each step of initialize.
LEMMA InitializeType ==
    ASSUME TypeOK, ShapeOK, NEW u \in Users, Initialize(u)
    PROVE  TypeOK' /\ ShapeOK'
<1> USE NoneIsNone
<1>1. ASSUME Refreshed(u)
      PROVE  TypeOK' /\ ShapeOK'
  <2>1. users[u].ent \in Entries
    BY <1>1, ShapeOfUser DEF Refreshed, At
  <2>2. entries' \in [Entries -> Entry]
    BY <1>1, <2>1, ClosedType DEF Refreshed
  <2>3. TypeOK'
    BY <1>1, <2>2 DEF Refreshed, TypeOK, User
  <2>4. ShapeOK'
    BY <1>1 DEF Refreshed, TypeOK, User, IdleUser, ShapeOK, UserOK, InvalidatorOK, At, InvalidatorAt
  <2> QED BY <2>3, <2>4
<1>2. ASSUME Evicted(u)
      PROVE  TypeOK' /\ ShapeOK'
  <2>1. users[u].ent \in Entries
    BY <1>2, ShapeOfUser DEF Evicted, At
  <2>2. entries' \in [Entries -> Entry]
    BY <1>2, <2>1, ClosedType DEF Evicted
  <2>3. TypeOK'
    BY <1>2, <2>2 DEF Evicted, TypeOK, User
  <2>4. ShapeOK'
    BY <1>2 DEF Evicted, TypeOK, User, IdleUser, ShapeOK, UserOK, InvalidatorOK, At, InvalidatorAt
  <2> QED BY <2>3, <2>4
<1>3. ASSUME ReadDatasource(u)
      PROVE  TypeOK' /\ ShapeOK'
  <2>1. users[u].ds \in Datasources
    BY <1>3, ShapeOfUser DEF ReadDatasource, At
  <2>2. version[users[u].ds] \in Nat
    BY <2>1 DEF TypeOK
  <2>3. TypeOK'
    BY <1>3, <2>2 DEF ReadDatasource, TypeOK, User
  <2>4. ShapeOK'
    BY <1>3 DEF ReadDatasource, TypeOK, User, IdleUser, ShapeOK, UserOK, InvalidatorOK, At, InvalidatorAt
  <2> QED BY <2>3, <2>4
<1>4. ASSUME EnsureCapacity(u)
      PROVE  TypeOK' /\ ShapeOK'
  <2>1. PICK m \in User :
          /\ users' = [users EXCEPT ![u] = m]
          /\ m.ds = users[u].ds
          /\ \/ m.pc = "connect" /\ m.ent = None
             \/ m.pc = "evict" /\ m.ent \in Entries
    <3>1. users[u] \in User /\ users[u].ent = None
      BY <1>4, ShapeOfUser DEF EnsureCapacity, At
    <3>2. CASE users' = [users EXCEPT ![u] = [@ EXCEPT !.pc = "connect"]]
      <4> DEFINE m == [users[u] EXCEPT !.pc = "connect"]
      <4>1. m \in User /\ m.ds = users[u].ds /\ m.pc = "connect" /\ m.ent = None
        BY <3>1 DEF User
      <4>2. users' = [users EXCEPT ![u] = m]
        BY <3>2 DEF TypeOK
      <4> QED BY <4>1, <4>2
    <3>3. CASE \E c \in Registered : users' = [users EXCEPT ![u] = [@ EXCEPT !.pc = "evict", !.ent = registry[c]]]
      <4>1. PICK e \in Entries : users' = [users EXCEPT ![u] = [@ EXCEPT !.pc = "evict", !.ent = e]]
        BY <3>3 DEF Registered, TypeOK
      <4> DEFINE m == [users[u] EXCEPT !.pc = "evict", !.ent = e]
      <4>2. m \in User /\ m.ds = users[u].ds /\ m.pc = "evict" /\ m.ent = e
        BY <3>1 DEF User
      <4>3. users' = [users EXCEPT ![u] = m]
        BY <4>1 DEF TypeOK
      <4> QED BY <4>2, <4>3
    <3> QED BY <1>4, <3>2, <3>3 DEF EnsureCapacity
  <2>2. users' \in [Users -> User]
    BY <2>1 DEF TypeOK
  <2>3. registry' \in [Datasources -> Entries \cup {None}]
    BY <1>4 DEF EnsureCapacity, TypeOK
  <2>4. TypeOK'
    BY <1>4, <2>2, <2>3 DEF EnsureCapacity, TypeOK
  <2>5. UNCHANGED invalidators /\ users[u].ds \in Datasources
    BY <1>4, ShapeOfUser DEF EnsureCapacity, At
  <2>6. ShapeOK'
    BY <2>1, <2>5 DEF TypeOK, ShapeOK, UserOK, InvalidatorOK, At, InvalidatorAt
  <2> QED BY <2>4, <2>6
<1>5. ASSUME Connected(u)
      PROVE  TypeOK' /\ ShapeOK'
  <2> DEFINE leased == {u} \cup (WaitingFor(users[u].ds) \ Foreign)
             d == users[u].ds
  <2>1. PICK e \in Entries : Forgotten(e) /\ Register(u, e, leased, Cardinality(leased))
    BY <1>5 DEF Connected
  <2>2. d \in Datasources /\ users[u].version \in Nat
    BY <1>5, ShapeOfUser DEF Connected, At, User
  <2>3. Cardinality(leased) \in Nat
    <3>1. leased \subseteq Users
      BY DEF WaitingFor
    <3> QED BY <3>1, ConstantsAssumption, FS_Subset, FS_CardinalityType
  <2> HIDE DEF leased
  <2>4. registry' \in [Datasources -> Entries \cup {None}] /\ entries' \in [Entries -> Entry]
    BY <2>1, <2>2, <2>3 DEF Register, TypeOK, Entry
  <2>5. users' \in [Users -> User]
    BY <2>1, <2>2 DEF Register, TypeOK, User, IdleUser
  <2>6. invalidators' \in [Invalidators -> Invalidator]
    BY <2>1 DEF Register, TypeOK, Invalidator
  <2>7. TypeOK'
    BY <2>1, <2>4, <2>5, <2>6 DEF Register, EndInit, TypeOK
  <2>8. \A w \in Users : UserOK(w)'
    BY <2>1, <2>2 DEF Register, TypeOK, User, IdleUser, ShapeOK, UserOK, At
  <2>9. \A v \in Invalidators : InvalidatorOK(v)'
    BY <2>1, <2>2 DEF Register, AwaitingInit, TypeOK, Invalidator, IdleInvalidator, ShapeOK, InvalidatorOK, InvalidatorAt
  <2> QED BY <2>7, <2>8, <2>9 DEF ShapeOK
<1>6. ASSUME InitFails(u)
      PROVE  TypeOK' /\ ShapeOK'
  <2>1. users[u].ent # None => users[u].ent \in Entries
    BY DEF TypeOK, User
  <2>2. entries' \in [Entries -> Entry]
    BY <1>6, <2>1, ClosedType DEF InitFails, TypeOK
  <2>3. users' \in [Users -> User]
    BY <1>6 DEF InitFails, TypeOK, User, IdleUser
  <2>4. invalidators' \in [Invalidators -> Invalidator]
    BY <1>6 DEF InitFails, TypeOK, Invalidator, IdleInvalidator
  <2>5. TypeOK'
    BY <1>6, <2>2, <2>3, <2>4 DEF InitFails, EndInit, TypeOK
  <2>6. \A w \in Users : UserOK(w)'
    BY <1>6 DEF InitFails, TypeOK, User, IdleUser, ShapeOK, UserOK, At
  <2>7. \A v \in Invalidators : InvalidatorOK(v)'
    BY <1>6 DEF InitFails, TypeOK, Invalidator, IdleInvalidator, ShapeOK, InvalidatorOK, InvalidatorAt
  <2> QED BY <2>5, <2>6, <2>7 DEF ShapeOK
<1> QED BY <1>1, <1>2, <1>3, <1>4, <1>5, <1>6 DEF Initialize

\* So does each step of update and invalidateDatasource.
LEMMA InvalidatorType ==
    ASSUME TypeOK, ShapeOK, NEW v \in Invalidators, Update(v) \/ InvalidateStep(v)
    PROVE  TypeOK' /\ ShapeOK'
<1> USE NoneIsNone
<1>1. UNCHANGED users /\ ((\A u \in Users : UserOK(u)) => \A u \in Users : UserOK(u)')
  BY DEF Update, InvalidateStep, Invalidate, StopWaiting, Invalidated, UserOK, At
<1>2. ASSUME Update(v)
      PROVE  TypeOK' /\ ShapeOK'
  <2>1. PICK d \in Datasources :
          /\ version' = [version EXCEPT ![d] = @ + 1]
          /\ invalidators' = [invalidators EXCEPT ![v] = [IdleInvalidator EXCEPT !.pc = "saved", !.ds = d]]
    BY <1>2, Zenon DEF Update
  <2>2. updates' = updates + 1 /\ UNCHANGED <<registry, inFlight, ahead, blocked, stage, entries, users, closing>>
    BY <1>2, Zenon DEF Update
  <2> DEFINE m == [IdleInvalidator EXCEPT !.pc = "saved", !.ds = d]
  <2>3. m \in Invalidator /\ m.pc = "saved" /\ m.ds = d /\ m.ent = None
    BY DEF IdleInvalidator, Invalidator
  <2>4. invalidators' = [invalidators EXCEPT ![v] = m]
    BY <2>1
  <2> HIDE DEF m
  <2>5. invalidators' \in [Invalidators -> Invalidator]
    BY <2>3, <2>4 DEF TypeOK
  <2>6. version' \in [Datasources -> Nat] /\ updates' \in Nat
    BY <2>1, <2>2 DEF TypeOK
  <2>7. TypeOK'
    BY <2>2, <2>5, <2>6 DEF TypeOK
  <2>8. \A w \in Invalidators : InvalidatorOK(w)'
    BY <2>3, <2>4 DEF TypeOK, ShapeOK, InvalidatorOK, InvalidatorAt
  <2> QED BY <1>1, <2>7, <2>8 DEF ShapeOK
<1>3. ASSUME Invalidate(v)
      PROVE  TypeOK' /\ ShapeOK'
  <2> DEFINE d == invalidators[v].ds
  <2>1. d \in Datasources
    BY <1>3, ShapeOfInvalidator DEF Invalidate, InvalidatorAt
  <2>2. PICK m \in Invalidator :
          /\ invalidators' = [invalidators EXCEPT ![v] = m]
          /\ \/ m = IdleInvalidator
             \/ m.pc \in {"awaitInit"} /\ m.ds = d /\ m.ent = None
             \/ m.pc \in {"waitIdle", "close"} /\ m.ds = d /\ m.ent \in Entries
    <3>1. invalidators[v] \in Invalidator /\ invalidators[v].ent = None
      BY <1>3, ShapeOfInvalidator DEF Invalidate, InvalidatorAt
    <3>2. CASE AwaitInitialization(v, d)
      <4>1. invalidators' = [invalidators EXCEPT ![v] = [invalidators[v] EXCEPT !.pc = "awaitInit"]]
        BY <3>2 DEF AwaitInitialization, TypeOK
      <4>2. [invalidators[v] EXCEPT !.pc = "awaitInit"] \in Invalidator
        BY <3>1 DEF Invalidator
      <4> QED BY <3>1, <4>1, <4>2 DEF Invalidator
    <3>3. CASE NothingToClose(v, d)
      BY <3>3 DEF NothingToClose, Invalidator, IdleInvalidator, TypeOK
    <3>4. CASE CloseEntry(v, d)
      <4>1. registry[d] \in Entries
        BY <2>1, <3>4 DEF CloseEntry, TypeOK
      <4>2. PICK call \in {"waitIdle", "close"} :
              invalidators' = [invalidators EXCEPT ![v] = [@ EXCEPT !.pc = call, !.ent = registry[d]]]
        BY <3>4 DEF CloseEntry
      <4> DEFINE m == [invalidators[v] EXCEPT !.pc = call, !.ent = registry[d]]
      <4>3. invalidators' = [invalidators EXCEPT ![v] = m]
        BY <4>2 DEF TypeOK
      <4>4. m \in Invalidator /\ m.pc = call /\ m.ds = d /\ m.ent = registry[d]
        BY <3>1, <4>1 DEF Invalidator
      <4> QED BY <4>1, <4>3, <4>4
    <3> QED BY <1>3, <3>2, <3>3, <3>4 DEF Invalidate
  <2>3. registry' \in [Datasources -> Entries \cup {None}] /\ blocked' \subseteq Datasources
    BY <1>3, <2>1 DEF Invalidate, AwaitInitialization, NothingToClose, CloseEntry, TypeOK
  <2>4. TypeOK'
    BY <1>3, <2>2, <2>3 DEF Invalidate, TypeOK
  <2>5. \A w \in Invalidators : InvalidatorOK(w)'
    BY <2>1, <2>2 DEF TypeOK, Invalidator, IdleInvalidator, ShapeOK, InvalidatorOK, InvalidatorAt
  <2> QED BY <1>1, <2>4, <2>5 DEF ShapeOK
<1>4. ASSUME StopWaiting(v)
      PROVE  TypeOK' /\ ShapeOK'
  <2>1. TypeOK'
    BY <1>4 DEF StopWaiting, TypeOK, Invalidator
  <2>2. \A w \in Invalidators : InvalidatorOK(w)'
    BY <1>4 DEF StopWaiting, TypeOK, Invalidator, IdleInvalidator, ShapeOK, InvalidatorOK, InvalidatorAt
  <2> QED BY <1>1, <2>1, <2>2 DEF ShapeOK
<1>5. ASSUME Invalidated(v)
      PROVE  TypeOK' /\ ShapeOK'
  <2>1. entries' \in [Entries -> Entry]
    BY <1>5, ShapeOfInvalidator, ClosedType DEF Invalidated, InvalidatorAt
  <2>2. TypeOK'
    BY <1>5, <2>1 DEF Invalidated, TypeOK, Invalidator, IdleInvalidator
  <2>3. \A w \in Invalidators : InvalidatorOK(w)'
    BY <1>5 DEF Invalidated, TypeOK, Invalidator, IdleInvalidator, ShapeOK, InvalidatorOK, InvalidatorAt
  <2> QED BY <1>1, <2>2, <2>3 DEF ShapeOK
<1> QED BY <1>2, <1>3, <1>4, <1>5 DEF InvalidateStep

\* So do a broken tunnel, the cleanup, its closes and the shutdown.
LEMMA OtherType ==
    ASSUME TypeOK, ShapeOK, TunnelBreaks \/ Cleanup \/ Close \/ Shutdown \/ Collect
    PROVE  TypeOK' /\ ShapeOK'
<1> USE NoneIsNone
<1>1. ShapeOK'
  BY DEF TunnelBreaks, Cleanup, Close, Shutdown, Collect, ShapeOK, UserOK, InvalidatorOK, At, InvalidatorAt
<1>2. CASE TunnelBreaks
  <2>1. PICK d \in Datasources : 
          registry[d] \in Entries /\ entries' = [entries EXCEPT ![registry[d]] = [@ EXCEPT !.healthy = FALSE]]
    BY <1>2 DEF TunnelBreaks, Registered, TypeOK
  <2>2. entries' \in [Entries -> Entry]
    BY <2>1 DEF TypeOK, Entry
  <2> QED BY <1>1, <1>2, <2>2 DEF TunnelBreaks, TypeOK
<1>3. CASE Cleanup
  BY <1>1, <1>3 DEF Cleanup, Registered, TypeOK
<1>4. CASE Close
  <2>1. entries' \in [Entries -> Entry]
    BY <1>4, ClosedType DEF Close, TypeOK
  <2> QED BY <1>1, <1>4, <2>1 DEF Close, TypeOK
<1>5. CASE Shutdown
  BY <1>1, <1>5 DEF Shutdown, TypeOK
<1>6. CASE Collect
  BY <1>1, <1>6 DEF Collect, Registered, TypeOK
<1> QED BY <1>2, <1>3, <1>4, <1>5, <1>6

\* Every step keeps types and shapes.
LEMMA TypeStep ==
    ASSUME TypeOK, ShapeOK, LeaseCount, Next
    PROVE  TypeOK' /\ ShapeOK'
BY AcquireType, FinishType, InitializeType, InvalidatorType, OtherType DEF Next

-----------------------------------------------------------------------------
(* The effect of each action, call by call                                 *)

\* Only user u moves.
OthersStay(u) == \A w \in Users \ {u} : users'[w] = users[w]

\* Only invalidator v moves.
OtherInvalidatorsStay(v) == \A w \in Invalidators \ {v} : invalidators'[w] = invalidators[w]

\* Only entry e changes.
OtherEntriesStay(e) == \A x \in Entries \ {e} : entries'[x] = entries[x]

\* User u is in this await, for datasource d, with entry e.
UserAt(u, call, d, e) == users[u].pc = call /\ users[u].ds = d /\ users[u].ent = e

\* User u is so after the step.
Becomes(u, call, d, e) == users'[u].pc = call /\ users'[u].ds = d /\ users'[u].ent = e

\* closeEntry closes one entry and keeps its leases.
LEMMA ClosedEffect ==
    ASSUME TypeOK, NEW e \in Entries, Closed(e)
    PROVE  /\ entries'[e].active = entries[e].active
           /\ ~entries'[e].open
           /\ OtherEntriesStay(e)
BY DEF TypeOK, Closed, NoEntry, Entry, OtherEntriesStay

\* A step of one user changes no other user.
LEMMA UserEffect ==
    ASSUME TypeOK, NEW u \in Users, NEW m \in User, users' = [users EXCEPT ![u] = m]
    PROVE  users'[u] = m /\ OthersStay(u)
BY DEF TypeOK, OthersStay

\* acquire finds a healthy entry: it becomes the user's, with one more lease.
LEMMA LeaseEffect ==
    ASSUME TypeOK, ShapeOK, NEW u \in Users, Acquire(u), NEW d \in Datasources, Lease(u, d)
    PROVE  /\ UserAt(u, "idle", None, None) /\ Becomes(u, "using", d, registry[d]) /\ OthersStay(u)
           /\ registry[d] \in Entries
           /\ \A x \in Entries :
                /\ entries'[x].active = IF x = registry[d] THEN entries[x].active + 1 ELSE entries[x].active
                /\ entries'[x].open = entries[x].open
                /\ entries'[x].version = entries[x].version
<1> USE NoneIsNone
<1> DEFINE e == registry[d]
<1>1. e \in Entries
  BY DEF Lease, TypeOK
<1>2. UserAt(u, "idle", None, None)
  BY DEF Acquire, At, ShapeOK, UserOK, IdleUser, UserAt
<1>4. Becomes(u, "using", d, e) /\ OthersStay(u)
  <2> DEFINE m == [IdleUser EXCEPT !.pc = "using", !.ds = d, !.ent = e]
  <2>1. m \in User /\ m.pc = "using" /\ m.ds = d /\ m.ent = e
    BY <1>1 DEF IdleUser, User
  <2>2. users' = [users EXCEPT ![u] = m]
    BY DEF Lease
  <2> HIDE DEF m
  <2> QED BY <2>1, <2>2, UserEffect DEF Becomes
<1> QED BY <1>1, <1>2, <1>4 DEF Lease, TypeOK, Entry

\* acquire finds an entry whose tunnel is down: the user closes it.
LEMMA RefreshEffect ==
    ASSUME TypeOK, ShapeOK, NEW u \in Users, Acquire(u), NEW d \in Datasources, Refresh(u, d)
    PROVE  /\ UserAt(u, "idle", None, None) /\ Becomes(u, "refresh", d, registry[d]) /\ OthersStay(u)
           /\ registry[d] \in Entries
<1>1. UserAt(u, "idle", None, None)
  BY DEF Acquire, At, ShapeOK, UserOK, IdleUser, UserAt
<1>2. registry[d] \in Entries
  BY DEF Refresh, TypeOK
<1>3. Becomes(u, "refresh", d, registry[d]) /\ OthersStay(u)
  BY DEF Refresh, StartInit, Becomes, OthersStay, TypeOK
<1> QED BY <1>1, <1>2, <1>3

\* acquire finds an initialization: the user waits for it.
LEMMA JoinEffect ==
    ASSUME TypeOK, ShapeOK, NEW u \in Users, Acquire(u), NEW d \in Datasources, Join(u, d)
    PROVE  UserAt(u, "idle", None, None) /\ Becomes(u, "waiting", d, None) /\ OthersStay(u)
<1>1. UserAt(u, "idle", None, None)
  BY DEF Acquire, At, ShapeOK, UserOK, IdleUser, UserAt
<1> DEFINE m == [IdleUser EXCEPT !.pc = "waiting", !.ds = d]
<1>2. m \in User /\ m.pc = "waiting" /\ m.ds = d /\ m.ent = None
  BY DEF IdleUser, User
<1>3. users' = [users EXCEPT ![u] = m]
  BY DEF Join
<1> HIDE DEF m
<1> QED BY <1>1, <1>2, <1>3, UserEffect DEF Becomes

\* acquire finds nothing: the user starts an initialization.
LEMMA CreateEffect ==
    ASSUME TypeOK, ShapeOK, NEW u \in Users, Acquire(u), NEW d \in Datasources, Create(u, d)
    PROVE  UserAt(u, "idle", None, None) /\ Becomes(u, "resolve", d, None) /\ OthersStay(u)
BY DEF Create, StartInit, Acquire, At, ShapeOK, UserOK, IdleUser, UserAt, Becomes, OthersStay, TypeOK

\* The end of an operation gives one lease back.
LEMMA FinishEffect ==
    ASSUME TypeOK, ShapeOK, NEW u \in Users, FinishOperation(u)
    PROVE  /\ At(u, "using") /\ users[u].ent \in Entries
           /\ Becomes(u, "idle", None, None) /\ OthersStay(u)
           /\ \A x \in Entries :
                /\ entries'[x].active = IF x = users[u].ent THEN entries[x].active - 1 ELSE entries[x].active
                /\ entries'[x].open = entries[x].open
                /\ entries'[x].version = entries[x].version
<1>1. At(u, "using") /\ users[u].ent \in Entries
  BY ShapeOfUser DEF FinishOperation, At
<1>2. Becomes(u, "idle", None, None) /\ OthersStay(u)
  BY DEF FinishOperation, Becomes, OthersStay, IdleUser, TypeOK
<1> QED BY <1>1, <1>2 DEF FinishOperation, TypeOK, Entry

\* The broken entry is closed; the initialization asks the resolver.
LEMMA RefreshedEffect ==
    ASSUME TypeOK, ShapeOK, NEW u \in Users, Refreshed(u)
    PROVE  /\ At(u, "refresh") /\ users[u].ent \in Entries /\ ~entries'[users[u].ent].open
           /\ OtherEntriesStay(users[u].ent)
           /\ \A x \in Entries : entries'[x].active = entries[x].active
           /\ Becomes(u, "resolve", users[u].ds, None) /\ OthersStay(u)
<1>1. At(u, "refresh") /\ users[u].ent \in Entries /\ users[u] \in User
  BY ShapeOfUser DEF Refreshed, At
<1>2. Becomes(u, "resolve", users[u].ds, None) /\ OthersStay(u)
  <2> DEFINE m == [users[u] EXCEPT !.pc = "resolve", !.ent = None]
  <2>1. m \in User /\ m.pc = "resolve" /\ m.ds = users[u].ds /\ m.ent = None
    BY <1>1 DEF User
  <2>2. users' = [users EXCEPT ![u] = m]
    BY DEF Refreshed
  <2> HIDE DEF m
  <2> QED BY <2>1, <2>2, UserEffect DEF Becomes
<1> QED BY <1>1, <1>2, ClosedEffect DEF Refreshed, OtherEntriesStay

\* The resolver has read the datasource at its version.
LEMMA ReadEffect ==
    ASSUME TypeOK, ShapeOK, NEW u \in Users, ReadDatasource(u)
    PROVE  /\ At(u, "resolve") /\ Becomes(u, "secrets", users[u].ds, None) /\ OthersStay(u)
           /\ users[u].ds \in Datasources /\ users'[u].version = version[users[u].ds]
<1>1. At(u, "resolve") /\ users[u].ent = None /\ users[u] \in User /\ users[u].ds \in Datasources
  BY ShapeOfUser DEF ReadDatasource, At
<1> DEFINE m == [users[u] EXCEPT !.pc = "secrets", !.version = version[users[u].ds]]
<1>2. m \in User /\ m.pc = "secrets" /\ m.ds = users[u].ds /\ m.ent = None /\ m.version = version[users[u].ds]
  BY <1>1 DEF User, TypeOK
<1>3. users' = [users EXCEPT ![u] = m]
  BY DEF ReadDatasource
<1> HIDE DEF m
<1> QED BY <1>1, <1>2, <1>3, UserEffect DEF Becomes

\* ensureCapacity finds room, or takes an entry without leases to close.
LEMMA CapacityEffect ==
    ASSUME TypeOK, ShapeOK, NEW u \in Users, EnsureCapacity(u)
    PROVE  /\ At(u, "secrets") /\ users[u].ds \in Datasources /\ users[u].ent = None /\ OthersStay(u)
           /\ users'[u].version = users[u].version
           /\ \/ Becomes(u, "connect", users[u].ds, None) /\ UNCHANGED registry
              \/ \E c \in Datasources :
                   /\ registry[c] \in Entries /\ entries[registry[c]].active = 0
                   /\ Becomes(u, "evict", users[u].ds, registry[c])
                   /\ registry' = [registry EXCEPT ![c] = None]
<1>1. At(u, "secrets") /\ users[u].ent = None /\ users[u] \in User /\ users[u].ds \in Datasources
  BY ShapeOfUser DEF EnsureCapacity, At
<1>2. CASE UNCHANGED registry /\ users' = [users EXCEPT ![u] = [@ EXCEPT !.pc = "connect"]]
  <2> DEFINE m == [users[u] EXCEPT !.pc = "connect"]
  <2>1. m \in User /\ m.pc = "connect" /\ m.ds = users[u].ds /\ m.ent = None /\ m.version = users[u].version
    BY <1>1 DEF User
  <2>2. users' = [users EXCEPT ![u] = m]
    BY <1>2
  <2> HIDE DEF m
  <2>3. users'[u] = m /\ OthersStay(u)
    BY <2>1, <2>2, UserEffect
  <2> QED BY <1>1, <1>2, <2>1, <2>3 DEF Becomes
<1>3. ASSUME NEW c \in Datasources, registry[c] \in Entries, entries[registry[c]].active = 0,
             registry' = [registry EXCEPT ![c] = None],
             users' = [users EXCEPT ![u] = [@ EXCEPT !.pc = "evict", !.ent = registry[c]]]
      PROVE  /\ OthersStay(u) /\ users'[u].version = users[u].version
             /\ Becomes(u, "evict", users[u].ds, registry[c])
  <2> DEFINE m == [users[u] EXCEPT !.pc = "evict", !.ent = registry[c]]
  <2>1. m \in User /\ m.pc = "evict" /\ m.ds = users[u].ds /\ m.ent = registry[c] /\ m.version = users[u].version
    BY <1>1, <1>3 DEF User
  <2>2. users' = [users EXCEPT ![u] = m]
    BY <1>3
  <2> HIDE DEF m
  <2> QED BY <2>1, <2>2, UserEffect DEF Becomes
<1> QED BY <1>1, <1>2, <1>3 DEF EnsureCapacity, Registered, TypeOK

\* The evicted entry is closed; the initialization connects.
LEMMA EvictedEffect ==
    ASSUME TypeOK, ShapeOK, NEW u \in Users, Evicted(u)
    PROVE  /\ At(u, "evict") /\ users[u].ent \in Entries /\ ~entries'[users[u].ent].open
           /\ OtherEntriesStay(users[u].ent)
           /\ \A x \in Entries : entries'[x].active = entries[x].active
           /\ Becomes(u, "connect", users[u].ds, None) /\ OthersStay(u)
           /\ users'[u].version = users[u].version
<1>1. At(u, "evict") /\ users[u].ent \in Entries /\ users[u] \in User
  BY ShapeOfUser DEF Evicted, At
<1>2. Becomes(u, "connect", users[u].ds, None) /\ OthersStay(u) /\ users'[u].version = users[u].version
  <2> DEFINE m == [users[u] EXCEPT !.pc = "connect", !.ent = None]
  <2>1. m \in User /\ m.pc = "connect" /\ m.ds = users[u].ds /\ m.ent = None /\ m.version = users[u].version
    BY <1>1 DEF User
  <2>2. users' = [users EXCEPT ![u] = m]
    BY DEF Evicted
  <2> HIDE DEF m
  <2> QED BY <2>1, <2>2, UserEffect DEF Becomes
<1> QED BY <1>1, <1>2, ClosedEffect DEF Evicted, OtherEntriesStay

\* Those who get the entry that user u initializes.
Leased(u) == {u} \cup (WaitingFor(users[u].ds) \ Foreign)

\* A forgotten entry is opened, registered and leased to those who wait;
\* the invalidations that wait for the initialization wait for it to be idle.
LEMMA ConnectedEffect ==
    ASSUME TypeOK, ShapeOK, NEW u \in Users, Connected(u)
    PROVE  /\ At(u, "connect") /\ users[u].ds \in Datasources
           /\ \E e \in Entries :
                /\ Forgotten(e)
                /\ entries'[e].open /\ entries'[e].version = users[u].version
                /\ entries'[e].active = Cardinality(Leased(u))
                /\ OtherEntriesStay(e)
                /\ registry' = [registry EXCEPT ![users[u].ds] = e]
                /\ \A w \in Users :
                     IF w \in Leased(u) THEN Becomes(w, "using", users[u].ds, e)
                     ELSE IF w \in WaitingFor(users[u].ds) THEN Becomes(w, "idle", None, None)
                     ELSE users'[w] = users[w]
                /\ \A v \in Invalidators :
                     IF v \in AwaitingInit(users[u].ds)
                       THEN /\ InvalidatorAt(v, "waitIdle")'
                            /\ invalidators'[v].ds = users[u].ds /\ invalidators'[v].ent = e
                       ELSE invalidators'[v] = invalidators[v]
<1> DEFINE d == users[u].ds
<1>1. At(u, "connect") /\ d \in Datasources
  BY ShapeOfUser DEF Connected, At
<1>2. PICK e \in Entries : Forgotten(e) /\ Register(u, e, Leased(u), Cardinality(Leased(u)))
  BY DEF Connected, Leased
<1>3. /\ entries'[e].open /\ entries'[e].version = users[u].version
      /\ entries'[e].active = Cardinality(Leased(u))
      /\ OtherEntriesStay(e)
  BY <1>2 DEF Register, TypeOK, OtherEntriesStay
<1>4. \A w \in Users :
        IF w \in Leased(u) THEN Becomes(w, "using", d, e)
        ELSE IF w \in WaitingFor(d) THEN Becomes(w, "idle", None, None)
        ELSE users'[w] = users[w]
  <2> DEFINE m == [IdleUser EXCEPT !.pc = "using", !.ds = d, !.ent = e]
  <2>1. m.pc = "using" /\ m.ds = d /\ m.ent = e
    BY DEF IdleUser
  <2>2. TAKE w \in Users
  <2>3. CASE w \in Leased(u)
    <3>1. users'[w] = m
      BY <1>2, <2>3 DEF Register
    <3> HIDE DEF m
    <3> QED BY <2>1, <2>3, <3>1 DEF Becomes
  <2>4. CASE w \notin Leased(u)
    BY <1>2, <2>4 DEF Register, Becomes, IdleUser
  <2> QED BY <2>3, <2>4
<1>5. \A v \in Invalidators :
        IF v \in AwaitingInit(d)
          THEN InvalidatorAt(v, "waitIdle")' /\ invalidators'[v].ds = d /\ invalidators'[v].ent = e
          ELSE invalidators'[v] = invalidators[v]
  BY <1>2 DEF Register, AwaitingInit, InvalidatorAt, TypeOK, Invalidator
<1> QED BY <1>1, <1>2, <1>3, <1>4, <1>5 DEF Register

\* A failed initialization answers everybody who waits for it.
LEMMA FailsEffect ==
    ASSUME TypeOK, ShapeOK, NEW u \in Users, InitFails(u)
    PROVE  /\ Initializing(u) /\ users[u].ds \in Datasources
           /\ \A x \in Entries : entries'[x].active = entries[x].active
           /\ \/ users[u].ent = None /\ UNCHANGED entries
              \/ /\ users[u].ent \in Entries /\ ~entries'[users[u].ent].open
                 /\ OtherEntriesStay(users[u].ent)
           /\ \A w \in Users :
                IF w = u \/ w \in WaitingFor(users[u].ds) THEN Becomes(w, "idle", None, None)
                ELSE users'[w] = users[w]
           /\ \A v \in Invalidators :
                IF v \in AwaitingInit(users[u].ds) THEN InvalidatorAt(v, "idle")' /\ invalidators'[v].ent = None
                ELSE invalidators'[v] = invalidators[v]
<1>1. Initializing(u) /\ users[u].ds \in Datasources
  BY ShapeOfUser DEF InitFails, Initializing, At
<1>2. users[u].ent # None => users[u].ent \in Entries
  BY DEF TypeOK, User
<1>3. /\ \A x \in Entries : entries'[x].active = entries[x].active
      /\ \/ users[u].ent = None /\ UNCHANGED entries
         \/ /\ users[u].ent \in Entries /\ ~entries'[users[u].ent].open
            /\ OtherEntriesStay(users[u].ent)
  BY <1>2, ClosedEffect DEF InitFails, OtherEntriesStay
<1>4. \A w \in Users :
        IF w = u \/ w \in WaitingFor(users[u].ds) THEN Becomes(w, "idle", None, None)
        ELSE users'[w] = users[w]
  BY DEF InitFails, Becomes, IdleUser
<1>5. \A v \in Invalidators :
        IF v \in AwaitingInit(users[u].ds) THEN InvalidatorAt(v, "idle")' /\ invalidators'[v].ent = None
        ELSE invalidators'[v] = invalidators[v]
  BY DEF InitFails, IdleInvalidator, InvalidatorAt
<1> QED BY <1>1, <1>3, <1>4, <1>5

\* The invalidation of v is in await call after the step, with entry e.
MovesOn(v, call, e) ==
    invalidators'[v].pc = call /\ invalidators'[v].ds = invalidators[v].ds /\ invalidators'[v].ent = e

\* A step of one invalidation changes no other invalidation.
LEMMA InvalidatorEffect ==
    ASSUME TypeOK, NEW v \in Invalidators, NEW m \in Invalidator, invalidators' = [invalidators EXCEPT ![v] = m]
    PROVE  invalidators'[v] = m /\ OtherInvalidatorsStay(v)
BY DEF TypeOK, OtherInvalidatorsStay

\* An update saves a new version; its invalidation is still to come.
LEMMA UpdateEffect ==
    ASSUME TypeOK, ShapeOK, NEW v \in Invalidators, Update(v)
    PROVE  \E d \in Datasources :
             /\ version' = [version EXCEPT ![d] = @ + 1]
             /\ InvalidatorAt(v, "idle") /\ invalidators[v].ent = None
             /\ invalidators'[v].pc = "saved" /\ invalidators'[v].ds = d /\ invalidators'[v].ent = None
             /\ OtherInvalidatorsStay(v)
<1>1. PICK d \in Datasources :
        /\ version' = [version EXCEPT ![d] = @ + 1]
        /\ invalidators' = [invalidators EXCEPT ![v] = [IdleInvalidator EXCEPT !.pc = "saved", !.ds = d]]
  BY Zenon DEF Update
<1> DEFINE m == [IdleInvalidator EXCEPT !.pc = "saved", !.ds = d]
<1>2. m \in Invalidator /\ m.pc = "saved" /\ m.ds = d /\ m.ent = None
  BY DEF IdleInvalidator, Invalidator
<1>3. invalidators' = [invalidators EXCEPT ![v] = m]
  BY <1>1
<1> HIDE DEF m
<1>4. InvalidatorAt(v, "idle")
  BY Zenon DEF Update, InvalidatorAt
<1>5. invalidators[v].ent = None
  BY <1>4, ShapeOfInvalidator DEF InvalidatorAt
<1> QED BY <1>1, <1>2, <1>3, <1>4, <1>5, InvalidatorEffect

\* The invalidation finds an initialization and waits for it.
LEMMA AwaitEffect ==
    ASSUME TypeOK, ShapeOK, NEW v \in Invalidators, InvalidatorAt(v, "saved"),
           AwaitInitialization(v, invalidators[v].ds)
    PROVE  MovesOn(v, "awaitInit", None) /\ OtherInvalidatorsStay(v)
<1> DEFINE m == [invalidators[v] EXCEPT !.pc = "awaitInit"]
<1>1. m \in Invalidator /\ m.pc = "awaitInit" /\ m.ds = invalidators[v].ds /\ m.ent = None
  BY ShapeOfInvalidator DEF InvalidatorAt, Invalidator
<1>2. invalidators' = [invalidators EXCEPT ![v] = m]
  BY DEF AwaitInitialization
<1> HIDE DEF m
<1> QED BY <1>1, <1>2, InvalidatorEffect DEF MovesOn

\* The invalidation finds an entry: in use, it waits; idle, it unregisters it.
LEMMA CloseEntryEffect ==
    ASSUME TypeOK, ShapeOK, NEW v \in Invalidators, InvalidatorAt(v, "saved"),
           CloseEntry(v, invalidators[v].ds)
    PROVE  LET e == registry[invalidators[v].ds] IN
           /\ e \in Entries /\ OtherInvalidatorsStay(v)
           /\ \/ MovesOn(v, "waitIdle", e) /\ UNCHANGED registry
              \/ MovesOn(v, "close", e) /\ registry' = [registry EXCEPT ![invalidators[v].ds] = None]
<1> DEFINE d == invalidators[v].ds
           e == registry[d]
           Then(call) == invalidators' = [invalidators EXCEPT ![v] = [@ EXCEPT !.pc = call, !.ent = e]]
<1>1. d \in Datasources /\ invalidators[v] \in Invalidator
  BY ShapeOfInvalidator DEF InvalidatorAt
<1>2. e \in Entries
  BY <1>1 DEF CloseEntry, TypeOK
<1>3. ASSUME NEW call \in {"waitIdle", "close"}, Then(call)
      PROVE  MovesOn(v, call, e) /\ OtherInvalidatorsStay(v)
  <2> DEFINE m == [invalidators[v] EXCEPT !.pc = call, !.ent = e]
  <2>1. m \in Invalidator /\ m.pc = call /\ m.ds = d /\ m.ent = e
    BY <1>1, <1>2 DEF Invalidator
  <2>2. invalidators' = [invalidators EXCEPT ![v] = m]
    BY <1>3
  <2> HIDE DEF m
  <2> QED BY <2>1, <2>2, InvalidatorEffect DEF MovesOn
<1>4. \/ Then("waitIdle") /\ UNCHANGED registry
      \/ Then("close") /\ registry' = [registry EXCEPT ![d] = None]
  BY DEF CloseEntry
<1> QED BY <1>2, <1>3, <1>4

\* The invalidation stops to wait and closes the entry it has found.
LEMMA StopWaitingEffect ==
    ASSUME TypeOK, ShapeOK, NEW v \in Invalidators, StopWaiting(v)
    PROVE  /\ InvalidatorAt(v, "waitIdle") /\ invalidators[v].ds \in Datasources
           /\ MovesOn(v, "close", invalidators[v].ent) /\ OtherInvalidatorsStay(v)
<1>1. InvalidatorAt(v, "waitIdle") /\ invalidators[v].ds \in Datasources /\ invalidators[v] \in Invalidator
  BY ShapeOfInvalidator DEF StopWaiting, InvalidatorAt
<1> DEFINE m == [invalidators[v] EXCEPT !.pc = "close"]
<1>2. m \in Invalidator /\ m.pc = "close" /\ m.ds = invalidators[v].ds /\ m.ent = invalidators[v].ent
  BY <1>1 DEF Invalidator
<1>3. invalidators' = [invalidators EXCEPT ![v] = m]
  BY DEF StopWaiting
<1> HIDE DEF m
<1> QED BY <1>1, <1>2, <1>3, InvalidatorEffect DEF MovesOn

\* The invalidator v is done.
Done(v) == invalidators'[v] = IdleInvalidator /\ OtherInvalidatorsStay(v)

\* The invalidation has closed its entry.
LEMMA InvalidatedEffect ==
    ASSUME TypeOK, ShapeOK, NEW v \in Invalidators, Invalidated(v)
    PROVE  /\ InvalidatorAt(v, "close") /\ invalidators[v].ent \in Entries /\ Done(v)
           /\ \A x \in Entries : entries'[x].active = entries[x].active
           /\ ~entries'[invalidators[v].ent].open
           /\ OtherEntriesStay(invalidators[v].ent)
<1>1. InvalidatorAt(v, "close") /\ invalidators[v].ent \in Entries
  BY ShapeOfInvalidator DEF Invalidated, InvalidatorAt
<1>2. IdleInvalidator \in Invalidator
  BY DEF Invalidator, IdleInvalidator
<1> QED BY <1>1, <1>2, InvalidatorEffect, ClosedEffect DEF Invalidated, Done, OtherEntriesStay
==============================================================================
