--------------------------- MODULE SshTunnel_proofs ---------------------------
(***************************************************************************)
(* Proofs about SshTunnel, for every pool and every number of errors: what *)
(* the closure of createTunnel, its server's sockets and the manager that  *)
(* awaits it know of each other.                                           *)
(***************************************************************************)
EXTENDS SshTunnel, TLAPS

Touched == {"listening", "closing"}

\* The closure by itself, unless the client failed while the server was binding.
TunnelOK ==
    /\ tunnel.server = "new" => tunnel.handle # "resolved"
    /\ tunnel.server = "new" /\ tunnel.client # "connecting" => tunnel.handle = "rejected"
    /\ tunnel.server = "binding" =>
         /\ tunnel.client = "up" /\ tunnel.closing = "none" /\ tunnel.handle = "pending"
         /\ tunnel.onError = "fail"
    /\ tunnel.client = "connecting" =>
         /\ tunnel.server = "new" /\ tunnel.closing = "none" /\ tunnel.handle = "pending"
         /\ tunnel.onError = "fail"
    /\ tunnel.server \in Touched => tunnel.handle = "resolved" /\ tunnel.onClose
    /\ tunnel.server = "closing" <=> tunnel.closing = "server"
    /\ tunnel.closing = "done" =>
         tunnel.client \in {"ended", "closed"} /\ tunnel.server \in {"new", "closed"}
    /\ tunnel.server = "closed" => tunnel.closing = "done"
    /\ tunnel.handle = "rejected" => tunnel.closing = "done"
    /\ tunnel.onError = "fail" => tunnel.server \notin Touched
    /\ tunnel.onError = "mark" => tunnel.server \in Touched \cup {"closed"}
    /\ tunnel.healthy =>
         /\ tunnel.client = "up" /\ tunnel.server = "listening" /\ tunnel.closing = "none"
         /\ tunnel.onError = "mark"

\* The manager holds the handle until it closes the tunnel, and waits for it.
OwnerOK ==
    /\ owner = "failed" => tunnel.handle = "rejected"
    /\ owner \in {"connecting", "open", "destroying", "closing", "closed"} => tunnel.handle = "resolved"
    /\ tunnel.handle = "resolved" /\ owner \notin {"closing", "closed"} => tunnel.server = "listening"
    /\ owner = "closing" => tunnel.closing # "none"
    /\ owner = "closed" => tunnel.closing = "done"

\* The server has sockets only while it listens or waits for them.
SocketsOK == tunnel.server \notin Touched => \A c \in Conns : socket[c] = "none"

ErrorsOK == (tunnel.onError = "none" => errors > 0) /\ OneErrorIsSurvived

IInv == TypeOK /\ ErrorsOK /\ (~early => TunnelOK /\ OwnerOK /\ SocketsOK)
-----------------------------------------------------------------------------
\* What close and fail return is a tunnel.
LEMMA CloseType ==
    ASSUME NEW t \in Tunnel
    PROVE  Close(t) \in Tunnel /\ Fail(t) \in Tunnel
<1>1. ASSUME NEW u \in Tunnel PROVE Ended(u) \in Tunnel
  <2>1. CASE u.client = "closed"
    <3>1. Ended(u) = [u EXCEPT !.closing = "done", !.client = "closed"]
      BY <2>1 DEF Ended, Tunnel
    <3> QED BY <3>1 DEF Tunnel
  <2>2. CASE u.client # "closed"
    <3>1. Ended(u) = [u EXCEPT !.closing = "done", !.client = "ended"]
      BY <2>2 DEF Ended, Tunnel
    <3> QED BY <3>1 DEF Tunnel
  <2> QED BY <2>1, <2>2
<1>2. [t EXCEPT !.healthy = FALSE] \in Tunnel
  BY DEF Tunnel
<1>3. [t EXCEPT !.healthy = FALSE, !.closing = "server", !.server = "closing"] \in Tunnel
  BY DEF Tunnel
<1>4. Close(t) \in Tunnel
  BY <1>1, <1>2, <1>3 DEF Close
<1>5. \A u \in Tunnel : [u EXCEPT !.handle = IF @ = "pending" THEN "rejected" ELSE @] \in Tunnel
  BY DEF Tunnel
<1> QED BY <1>4, <1>5 DEF Fail

\* Closing leaves the listeners of the client where they are.
LEMMA CloseListener ==
    ASSUME NEW t \in Tunnel
    PROVE  Close(t).onError = t.onError /\ Fail(t).onError = t.onError
<1>1. ASSUME NEW u \in Tunnel PROVE Ended(u).onError = u.onError
  BY DEF Ended, Tunnel
<1>2. [t EXCEPT !.healthy = FALSE] \in Tunnel
  BY DEF Tunnel
<1>3. Close(t).onError = t.onError
  BY <1>1, <1>2 DEF Close, Tunnel
<1> QED BY <1>3, CloseType DEF Fail, Tunnel

\* Every variable keeps its type.
LEMMA TypeStep == TypeOK /\ [Next]_vars => TypeOK'
<1> SUFFICES ASSUME TypeOK, [Next]_vars PROVE TypeOK'
  OBVIOUS
<1>1. CASE Ready
  BY <1>1 DEF Ready, TypeOK, Tunnel
<1>2. CASE Listening
  BY <1>2 DEF Listening, TypeOK, Tunnel
<1>3. CASE BindFails
  <2>1. [tunnel EXCEPT !.server = "closed"] \in Tunnel
    BY DEF TypeOK, Tunnel
  <2> QED BY <1>3, <2>1, CloseType DEF BindFails, TypeOK
<1>4. CASE ClientError
  <2>1. PICK lost \in Tunnel :
          tunnel' = CASE tunnel.onError = "fail" -> Fail(lost)
                      [] tunnel.onError = "mark" -> [lost EXCEPT !.healthy = FALSE]
                      [] OTHER -> lost
    BY <1>4 DEF ClientError, TypeOK, Tunnel
  <2>2. tunnel' \in Tunnel
    BY <2>1, CloseType DEF Tunnel
  <2>3. errors' \in Nat
    BY <1>4 DEF ClientError, TypeOK
  <2>4. crashed' \in BOOLEAN /\ early' \in BOOLEAN
    BY <1>4, Zenon DEF ClientError, TypeOK
  <2> QED BY <1>4, <2>2, <2>3, <2>4 DEF ClientError, TypeOK
<1>5. CASE ClientClose
  BY <1>5 DEF ClientClose, TypeOK, Tunnel
<1>6. CASE ServerClosed
  BY <1>6 DEF ServerClosed, TypeOK, Tunnel, Close, Ended, Fail, Goto, PoolEnds, AllShut
<1>7. CASE CloseEntry
  BY <1>7 DEF CloseEntry, TypeOK, Goto
<1>8. CASE TunnelCreated
  BY <1>8 DEF TunnelCreated, TypeOK, Goto
<1>9. CASE TunnelRefused
  BY <1>9 DEF TunnelRefused, TypeOK, Goto
<1>10. CASE DataSourceCreated
  BY <1>10 DEF DataSourceCreated, TypeOK, Goto
<1>11. CASE DataSourceFails
  <2>1. tunnel' \in Tunnel
    BY <1>11, CloseType DEF DataSourceFails, TypeOK
  <2>2. pool' \in [Conns -> {"shut", "open"}] /\ kept' \in BOOLEAN
    BY <1>11 DEF DataSourceFails, TypeOK, PoolEnds, AllShut
  <2> QED BY <1>11, <2>1, <2>2 DEF DataSourceFails, TypeOK, Goto
<1>12. CASE Destroyed
  <2>1. tunnel' \in Tunnel
    BY <1>12, CloseType DEF Destroyed, TypeOK
  <2>2. pool' \in [Conns -> {"shut", "open"}] /\ kept' \in BOOLEAN
    BY <1>12 DEF Destroyed, TypeOK, PoolEnds, AllShut
  <2> QED BY <1>12, <2>1, <2>2 DEF Destroyed, TypeOK, Goto
<1>13. CASE TunnelClosed
  BY <1>13 DEF TunnelClosed, TypeOK, Goto
<1>14. ASSUME NEW c \in Conns, Connect(c) PROVE TypeOK'
  BY <1>14 DEF Connect, TypeOK
<1>15. ASSUME NEW c \in Conns, Forwarded(c) PROVE TypeOK'
  BY <1>15 DEF Forwarded, TypeOK
<1>16. ASSUME NEW c \in Conns, ForwardRefused(c) PROVE TypeOK'
  BY <1>16 DEF ForwardRefused, TypeOK
<1>17. ASSUME NEW c \in Conns, PoolDrops(c) PROVE TypeOK'
  BY <1>17 DEF PoolDrops, TypeOK
<1>18. ASSUME NEW c \in Conns, PipeEnds(c) PROVE TypeOK'
  BY <1>18 DEF PipeEnds, TypeOK
<1>19. CASE UNCHANGED vars
  BY <1>19 DEF vars, TypeOK
<1> QED BY <1>1, <1>2, <1>3, <1>4, <1>5, <1>6, <1>7, <1>8, <1>9, <1>10, <1>11, <1>12, <1>13, <1>14, <1>15, <1>16, <1>17, <1>18, <1>19 DEF Next, Owner

\* The first error of the client finds a listener in every phase.
LEMMA ErrorsStep == TypeOK /\ ErrorsOK /\ [Next]_vars => ErrorsOK'
<1> SUFFICES ASSUME TypeOK, ErrorsOK, [Next]_vars PROVE ErrorsOK'
  OBVIOUS
<1>1. CASE Ready
  BY <1>1 DEF Ready, ErrorsOK, OneErrorIsSurvived, TypeOK, Tunnel
<1>2. CASE Listening
  BY <1>2 DEF Listening, ErrorsOK, OneErrorIsSurvived, TypeOK, Tunnel
<1>3. CASE BindFails
  <2>1. [tunnel EXCEPT !.server = "closed"] \in Tunnel
        /\ [tunnel EXCEPT !.server = "closed"].onError = tunnel.onError
    BY DEF TypeOK, Tunnel
  <2> QED BY <1>3, <2>1, CloseListener DEF BindFails, ErrorsOK, OneErrorIsSurvived
<1>4. CASE ClientError
  <2>1. errors' = errors + 1 /\ late' = late
    BY <1>4 DEF ClientError
  <2>2. crashed' => errors > 0
    BY <1>4 DEF ClientError, ErrorsOK
  <2> QED BY <2>1, <2>2 DEF ErrorsOK, OneErrorIsSurvived, TypeOK
<1>5. CASE ClientClose
  BY <1>5 DEF ClientClose, ErrorsOK, OneErrorIsSurvived, TypeOK, Tunnel
<1>6. CASE ServerClosed
  BY <1>6 DEF ServerClosed, ErrorsOK, OneErrorIsSurvived, TypeOK, Tunnel, Ended
<1>7. CASE CloseEntry
  BY <1>7 DEF CloseEntry, ErrorsOK, OneErrorIsSurvived
<1>8. CASE TunnelCreated
  BY <1>8 DEF TunnelCreated, ErrorsOK, OneErrorIsSurvived
<1>9. CASE TunnelRefused
  BY <1>9 DEF TunnelRefused, ErrorsOK, OneErrorIsSurvived
<1>10. CASE DataSourceCreated
  BY <1>10 DEF DataSourceCreated, ErrorsOK, OneErrorIsSurvived
<1>11. CASE DataSourceFails
  BY <1>11, CloseListener DEF DataSourceFails, ErrorsOK, OneErrorIsSurvived, TypeOK
<1>12. CASE Destroyed
  BY <1>12, CloseListener DEF Destroyed, ErrorsOK, OneErrorIsSurvived, TypeOK
<1>13. CASE TunnelClosed
  BY <1>13 DEF TunnelClosed, ErrorsOK, OneErrorIsSurvived
<1>14. ASSUME NEW c \in Conns, Connect(c) PROVE ErrorsOK'
  BY <1>14 DEF Connect, ErrorsOK, OneErrorIsSurvived
<1>15. ASSUME NEW c \in Conns, Forwarded(c) PROVE ErrorsOK'
  BY <1>15 DEF Forwarded, ErrorsOK, OneErrorIsSurvived
<1>16. ASSUME NEW c \in Conns, ForwardRefused(c) PROVE ErrorsOK'
  BY <1>16 DEF ForwardRefused, ErrorsOK, OneErrorIsSurvived
<1>17. ASSUME NEW c \in Conns, PoolDrops(c) PROVE ErrorsOK'
  BY <1>17 DEF PoolDrops, ErrorsOK, OneErrorIsSurvived
<1>18. ASSUME NEW c \in Conns, PipeEnds(c) PROVE ErrorsOK'
  BY <1>18 DEF PipeEnds, ErrorsOK, OneErrorIsSurvived
<1>19. CASE UNCHANGED vars
  BY <1>19 DEF vars, ErrorsOK, OneErrorIsSurvived
<1> QED BY <1>1, <1>2, <1>3, <1>4, <1>5, <1>6, <1>7, <1>8, <1>9, <1>10, <1>11, <1>12, <1>13, <1>14, <1>15, <1>16, <1>17, <1>18, <1>19 DEF Next, Owner

\* What the closure, its owner and its sockets know of each other is kept
\* together: each part needs the two others.
LEMMA PartsStep ==
    ASSUME TypeOK, TunnelOK, OwnerOK, SocketsOK, ~early', [Next]_vars
    PROVE  TunnelOK' /\ OwnerOK' /\ SocketsOK'
<1>1. CASE Ready
  BY <1>1 DEF Ready, TunnelOK, OwnerOK, SocketsOK, Touched, TypeOK, Tunnel
<1>2. CASE Listening
  BY <1>2 DEF Listening, TunnelOK, OwnerOK, SocketsOK, Touched, TypeOK, Tunnel
<1>3. CASE BindFails
  BY <1>3 DEF BindFails, TunnelOK, OwnerOK, SocketsOK, Touched, TypeOK, Tunnel, Close, Ended, Fail, Goto, PoolEnds, AllShut
<1>4. CASE ClientError
  <2> DEFINE lost == [tunnel EXCEPT !.client = IF @ = "ended" THEN @ ELSE "failed", !.onError = "none"]
  <2>1. tunnel.server # "binding" /\ UNCHANGED <<socket, pool, owner>>
    BY <1>4, Zenon DEF ClientError
  <2>2. /\ lost \in Tunnel
        /\ lost.client = IF tunnel.client = "ended" THEN "ended" ELSE "failed"
        /\ lost.onError = "none" /\ lost.onClose = tunnel.onClose
        /\ lost.server = tunnel.server /\ lost.closing = tunnel.closing
        /\ lost.handle = tunnel.handle /\ lost.healthy = tunnel.healthy
    BY DEF TypeOK, Tunnel
  <2>3. tunnel' = CASE tunnel.onError = "fail" -> Fail(lost)
                    [] tunnel.onError = "mark" -> [lost EXCEPT !.healthy = FALSE]
                    [] OTHER -> lost
    BY <1>4 DEF ClientError
  <2>4. tunnel.client # "closed"
    BY <1>4 DEF ClientError
  <2> HIDE DEF lost
  <2>5. CASE tunnel.onError = "fail"
    <3>1. tunnel.server \in {"new", "closed"}
      BY <2>1, <2>5 DEF TunnelOK, TypeOK, Tunnel, Touched
    <3>2. CASE tunnel.closing = "none"
      <4>1. Close(lost) = Ended([lost EXCEPT !.healthy = FALSE])
        BY <2>2, <3>1, <3>2 DEF Close
      <4>2. /\ tunnel'.client = "ended" /\ tunnel'.server = tunnel.server
            /\ tunnel'.healthy = FALSE /\ tunnel'.closing = "done" /\ tunnel'.onError = "none"
            /\ tunnel'.handle = IF tunnel.handle = "pending" THEN "rejected" ELSE tunnel.handle
        BY <2>2, <2>3, <2>4, <2>5, <4>1 DEF Tunnel, Ended, Fail
      <4> QED BY <2>1, <2>5, <3>1, <3>2, <4>2
              DEF TunnelOK, OwnerOK, SocketsOK, Touched, TypeOK, Tunnel
    <3>3. CASE tunnel.closing # "none"
      <4>1. Close(lost) = lost
        BY <2>2, <3>3 DEF Close
      <4> QED BY <2>1, <2>2, <2>3, <2>4, <2>5, <3>1, <3>3, <4>1
              DEF TunnelOK, OwnerOK, SocketsOK, Touched, Tunnel, Fail
    <3> QED BY <3>2, <3>3
  <2>6. CASE tunnel.onError = "mark"
    BY <2>1, <2>2, <2>3, <2>4, <2>6 DEF TunnelOK, OwnerOK, SocketsOK, Touched, Tunnel
  <2>7. CASE tunnel.onError = "none"
    BY <2>1, <2>2, <2>3, <2>4, <2>7 DEF TunnelOK, OwnerOK, SocketsOK, Touched, Tunnel
  <2> QED BY <2>5, <2>6, <2>7 DEF TypeOK, Tunnel
<1>5. CASE ClientClose
  BY <1>5 DEF ClientClose, TunnelOK, OwnerOK, SocketsOK, Touched, TypeOK, Tunnel
<1>6. CASE ServerClosed
  BY <1>6 DEF ServerClosed, TunnelOK, OwnerOK, SocketsOK, Touched, TypeOK, Tunnel, Ended
<1>7. CASE CloseEntry
  BY <1>7 DEF CloseEntry, TunnelOK, OwnerOK, SocketsOK, Touched, TypeOK, Goto
<1>8. CASE TunnelCreated
  BY <1>8 DEF TunnelCreated, TunnelOK, OwnerOK, SocketsOK, Touched, TypeOK, Goto
<1>9. CASE TunnelRefused
  BY <1>9 DEF TunnelRefused, TunnelOK, OwnerOK, SocketsOK, Touched, TypeOK, Goto
<1>10. CASE DataSourceCreated
  BY <1>10 DEF DataSourceCreated, TunnelOK, OwnerOK, SocketsOK, Touched, TypeOK, Goto
<1>11. CASE DataSourceFails
  BY <1>11 DEF DataSourceFails, TunnelOK, OwnerOK, SocketsOK, Touched, TypeOK, Tunnel, Close, Ended, Fail, Goto, PoolEnds, AllShut
<1>12. CASE Destroyed
  BY <1>12 DEF Destroyed, TunnelOK, OwnerOK, SocketsOK, Touched, TypeOK, Tunnel, Close, Ended, Fail, Goto, PoolEnds, AllShut
<1>13. CASE TunnelClosed
  BY <1>13 DEF TunnelClosed, TunnelOK, OwnerOK, SocketsOK, Touched, TypeOK, Goto
<1>14. ASSUME NEW c \in Conns, Connect(c) PROVE TunnelOK' /\ OwnerOK' /\ SocketsOK'
  BY <1>14 DEF Connect, TunnelOK, OwnerOK, SocketsOK, Touched, TypeOK
<1>15. ASSUME NEW c \in Conns, Forwarded(c) PROVE TunnelOK' /\ OwnerOK' /\ SocketsOK'
  BY <1>15 DEF Forwarded, TunnelOK, OwnerOK, SocketsOK, Touched, TypeOK
<1>16. ASSUME NEW c \in Conns, ForwardRefused(c) PROVE TunnelOK' /\ OwnerOK' /\ SocketsOK'
  BY <1>16 DEF ForwardRefused, TunnelOK, OwnerOK, SocketsOK, Touched, TypeOK
<1>17. ASSUME NEW c \in Conns, PoolDrops(c) PROVE TunnelOK' /\ OwnerOK' /\ SocketsOK'
  BY <1>17 DEF PoolDrops, TunnelOK, OwnerOK, SocketsOK, Touched, TypeOK
<1>18. ASSUME NEW c \in Conns, PipeEnds(c) PROVE TunnelOK' /\ OwnerOK' /\ SocketsOK'
  BY <1>18 DEF PipeEnds, TunnelOK, OwnerOK, SocketsOK, Touched, TypeOK
<1>19. CASE UNCHANGED vars
  BY <1>19 DEF vars, TunnelOK, OwnerOK, SocketsOK, Touched, TypeOK
<1> QED BY <1>1, <1>2, <1>3, <1>4, <1>5, <1>6, <1>7, <1>8, <1>9, <1>10, <1>11, <1>12, <1>13, <1>14, <1>15, <1>16, <1>17, <1>18, <1>19 DEF Next, Owner

\* Every state has the invariant.
LEMMA Invariance == Init /\ [][Next]_vars => []IInv
<1>1. Init => IInv
  <2>1. Init => TypeOK
    <3> SUFFICES ASSUME Init PROVE TypeOK
      OBVIOUS
    <3>1. tunnel \in Tunnel
      BY DEF Init, Tunnel
    <3>2. socket \in [Conns -> {"none", "asked", "piped"}] /\ pool \in [Conns -> {"shut", "open"}]
      BY DEF Init
    <3>3. {crashed, early, kept} \subseteq BOOLEAN /\ late \subseteq Conns
      BY DEF Init
    <3> QED BY <3>1, <3>2, <3>3 DEF Init, TypeOK
  <2>2. Init => ErrorsOK
    BY DEF Init, ErrorsOK, OneErrorIsSurvived
  <2>3. Init => TunnelOK /\ OwnerOK /\ SocketsOK
    BY DEF Init, TunnelOK, OwnerOK, SocketsOK, Touched
  <2> QED BY <2>1, <2>2, <2>3 DEF IInv
<1>2. IInv /\ [Next]_vars => IInv'
  <2> SUFFICES ASSUME IInv, [Next]_vars PROVE IInv'
    OBVIOUS
  <2>1. TypeOK' /\ ErrorsOK'
    BY TypeStep, ErrorsStep DEF IInv
  <2>2. ~early' => ~early
    BY Zenon DEF Next, Owner, vars, Ready, Listening, BindFails, ClientError, ClientClose,
       ServerClosed, Connect, Forwarded, ForwardRefused, PoolDrops, PipeEnds, CloseEntry,
       TunnelCreated, TunnelRefused, DataSourceCreated, DataSourceFails, Destroyed, TunnelClosed
  <2>3. ~early' => TunnelOK' /\ OwnerOK' /\ SocketsOK'
    BY <2>2, PartsStep DEF IInv
  <2> QED BY <2>1, <2>3 DEF IInv
<1> QED BY <1>1, <1>2, PTL

\* Types.
THEOREM Typing == Spec => []TypeOK
<1>1. IInv => TypeOK
  BY DEF IInv
<1> QED BY <1>1, Invariance, PTL DEF Spec

\* isHealthy is never stale, for every pool and every number of errors: both
\* 'error' and 'close' of the client, and close itself, clear it.
THEOREM Healthy == Spec => []HealthyIsUsable
<1>1. IInv => HealthyIsUsable
  BY DEF IInv, TunnelOK, HealthyIsUsable
<1> QED BY <1>1, Invariance, PTL DEF Spec

\* Whoever is done with a tunnel leaves no server, client or socket of it open,
\* whichever step has failed.
THEOREM NothingLeft == Spec => []NothingIsLeft
<1>1. IInv => NothingIsLeft
  BY DEF IInv, TunnelOK, OwnerOK, SocketsOK, Touched, NothingIsLeft
<1> QED BY <1>1, Invariance, PTL DEF Spec

\* One 'error' of the client never ends the process.
THEOREM Survival == Spec => []OneErrorIsSurvived
<1>1. IInv => OneErrorIsSurvived
  BY DEF IInv, ErrorsOK
<1> QED BY <1>1, Invariance, PTL DEF Spec
=============================================================================
