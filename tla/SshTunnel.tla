------------------------------ MODULE SshTunnel ------------------------------
(***************************************************************************)
(* One connection through an SSH tunnel, from createTunnel to the end of   *)
(* closeEntry: the callbacks of the ssh2 client and of the forwarding      *)
(* server (SshTunnelService), the pool that connects through it, and the   *)
(* manager that opens and closes both.  An action is one callback or one   *)
(* answer to an await; an 'error' event nobody listens to, or an exception *)
(* in a callback, ends the process.                                        *)
(***************************************************************************)
EXTENDS Naturals

CONSTANTS
    Conns,        \* the connections of the pool (poolSize)
    MaxErrors     \* bound: 'error' events of the ssh client

VARIABLES
    tunnel,       \* the closure of createTunnel
    socket,       \* the server's end of each connection of the pool
    pool,         \* the pool's end
    owner,        \* where initialize, testConfig or closeEntry stands
    errors,
    crashed,
    late,         \* history: connections made after the client was lost
    early,        \* history: the client failed while the server was binding
    kept          \* history: the pool was left open

vars == <<tunnel, socket, pool, owner, errors, crashed, late, early, kept>>

\* onError: what a next 'error' of the client calls; onClose: markUnhealthy
\* listens to its 'close'.
Tunnel ==
    [client : {"connecting", "up", "failed", "ended", "closed"},
     server : {"new", "binding", "listening", "closing", "closed"},
     healthy : BOOLEAN, closing : {"none", "server", "done"},
     handle : {"pending", "resolved", "rejected"},
     onError : {"fail", "mark", "none"}, onClose : BOOLEAN]

TypeOK ==
    /\ tunnel \in Tunnel
    /\ socket \in [Conns -> {"none", "asked", "piped"}]
    /\ pool \in [Conns -> {"shut", "open"}]
    /\ owner \in {"creating", "connecting", "open", "destroying", "closing", "failed", "closed"}
    /\ errors \in Nat /\ late \subseteq Conns
    /\ {crashed, early, kept} \subseteq BOOLEAN

Init ==
    /\ tunnel = [client |-> "connecting", server |-> "new", healthy |-> FALSE, closing |-> "none",
                 handle |-> "pending", onError |-> "fail", onClose |-> FALSE]
    /\ socket = [c \in Conns |-> "none"]
    /\ pool = [c \in Conns |-> "shut"]
    /\ owner = "creating"
    /\ errors = 0 /\ crashed = FALSE /\ late = {} /\ early = FALSE /\ kept = FALSE
-----------------------------------------------------------------------------
(* createTunnel *)

\* closeServer has resolved: client.end().
Ended(t) == [t EXCEPT !.closing = "done", !.client = IF @ = "closed" THEN @ ELSE "ended"]

\* close, once: closePromise ??= ...
Close(t) ==
    CASE t.closing # "none" -> t
      [] t.closing = "none" /\ t.server = "listening" ->
           [t EXCEPT !.healthy = FALSE, !.closing = "server", !.server = "closing"]
      [] OTHER -> Ended([t EXCEPT !.healthy = FALSE])

\* fail: before the server listens there is nothing to wait for.
Fail(t) == [Close(t) EXCEPT !.handle = IF @ = "pending" THEN "rejected" ELSE @]

\* The ssh client is ready: server.listen.
Ready ==
    /\ tunnel.client = "connecting"
    /\ tunnel' = [tunnel EXCEPT !.client = "up", !.server = "binding"]
    /\ UNCHANGED <<socket, pool, owner, errors, crashed, late, early, kept>>

\* Mutants: 'error' of the client, or its 'close', is no longer listened to.
ListeningUnmarked ==
    /\ tunnel.server = "binding"
    /\ tunnel' = [tunnel EXCEPT !.server = "listening", !.healthy = TRUE, !.onError = "none",
                                !.onClose = TRUE, !.handle = IF @ = "pending" THEN "resolved" ELSE @]
    /\ UNCHANGED <<socket, pool, owner, errors, crashed, late, early, kept>>

ListeningForErrors ==
    /\ tunnel.server = "binding"
    /\ tunnel' = [tunnel EXCEPT !.server = "listening", !.healthy = TRUE, !.onError = "mark",
                                !.handle = IF @ = "pending" THEN "resolved" ELSE @]
    /\ UNCHANGED <<socket, pool, owner, errors, crashed, late, early, kept>>

\* The server listens: whatever has failed meanwhile, the handle is resolved
\* unless it is rejected already.
Listening ==
    /\ tunnel.server = "binding"
    /\ tunnel' = [tunnel EXCEPT !.server = "listening", !.healthy = TRUE,
                                !.onError = "mark", !.onClose = TRUE,
                                !.handle = IF @ = "pending" THEN "resolved" ELSE @]
    /\ UNCHANGED <<socket, pool, owner, errors, crashed, late, early, kept>>

BindFails ==
    /\ tunnel.server = "binding"
    /\ tunnel' = Fail([tunnel EXCEPT !.server = "closed"])
    /\ UNCHANGED <<socket, pool, owner, errors, crashed, late, early, kept>>

\* An 'error' of the client calls the listener once; it may come again while the
\* connection goes down, after end() too.
ClientError ==
    /\ tunnel.client # "closed" /\ errors < MaxErrors
    /\ errors' = errors + 1
    /\ LET lost == [tunnel EXCEPT !.client = IF @ = "ended" THEN @ ELSE "failed", !.onError = "none"] IN
       tunnel' = CASE tunnel.onError = "fail" -> Fail(lost)
                   [] tunnel.onError = "mark" -> [lost EXCEPT !.healthy = FALSE]
                   [] OTHER -> lost
    /\ crashed' = (tunnel.onError = "none")
    /\ early' = (early \/ tunnel.server = "binding")
    /\ UNCHANGED <<socket, pool, owner, late, kept>>

\* The client's connection is gone, with or without an error before; never
\* before 'ready' without one, nor between the two ticks of listen.
ClientClose ==
    /\ \/ tunnel.client \in {"failed", "ended"}
       \/ tunnel.client = "up" /\ tunnel.server # "binding"
    /\ tunnel' = [tunnel EXCEPT !.client = "closed", !.healthy = @ /\ ~tunnel.onClose]
    /\ UNCHANGED <<socket, pool, owner, errors, crashed, late, early, kept>>

\* server.close calls back when no connection is left.
ServerClosed ==
    /\ tunnel.server = "closing" /\ \A c \in Conns : socket[c] = "none"
    /\ tunnel' = Ended([tunnel EXCEPT !.server = "closed"])
    /\ UNCHANGED <<socket, pool, owner, errors, crashed, late, early, kept>>
-----------------------------------------------------------------------------
(* createForwardingServer and the pool.                                    *)

\* The pool opens a connection: the server asks the client for a channel, which
\* throws, or answers with an error, when the client is lost.
Connect(c) ==
    /\ owner \in {"connecting", "open"} /\ pool[c] = "shut" /\ socket[c] = "none"
    /\ tunnel.server = "listening"
    /\ pool' = [pool EXCEPT ![c] = "open"]
    /\ socket' = [socket EXCEPT ![c] = "asked"]
    /\ late' = IF tunnel.client = "up" THEN late ELSE late \cup {c}
    /\ crashed' \in {FALSE, tunnel.client # "up"}
    /\ UNCHANGED <<tunnel, owner, errors, early, kept>>

\* forwardOut answers.
Forwarded(c) ==
    /\ socket[c] = "asked"
    /\ tunnel.client = "up"
    /\ socket' = [socket EXCEPT ![c] = "piped"]
    /\ UNCHANGED <<tunnel, pool, owner, errors, crashed, late, early, kept>>

ForwardRefused(c) ==
    /\ socket[c] = "asked"
    /\ socket' = [socket EXCEPT ![c] = "none"]
    /\ pool' = [pool EXCEPT ![c] = "shut"]
    /\ UNCHANGED <<tunnel, owner, errors, crashed, late, early, kept>>

\* The pool gives up a connection.
PoolDrops(c) ==
    /\ pool[c] = "open" /\ owner \in {"connecting", "open"}
    /\ pool' = [pool EXCEPT ![c] = "shut"]
    /\ UNCHANGED <<tunnel, socket, owner, errors, crashed, late, early, kept>>

\* One side of the pipe ends, and the other one with it.
PipeEnds(c) ==
    /\ socket[c] = "piped" /\ (pool[c] = "shut" \/ tunnel.client # "up")
    /\ socket' = [socket EXCEPT ![c] = "none"]
    /\ pool' = [pool EXCEPT ![c] = "shut"]
    /\ UNCHANGED <<tunnel, owner, errors, crashed, late, early, kept>>
-----------------------------------------------------------------------------
(* The owner: initialize and closeEntry, or testConfig.                    *)

Goto(o) == owner' = o

TunnelCreated ==
    /\ owner = "creating" /\ tunnel.handle = "resolved" /\ Goto("connecting")
    /\ UNCHANGED <<tunnel, socket, pool, errors, crashed, late, early, kept>>

TunnelRefused ==
    /\ owner = "creating" /\ tunnel.handle = "rejected" /\ Goto("failed")
    /\ UNCHANGED <<tunnel, socket, pool, errors, crashed, late, early, kept>>

DataSourceCreated ==
    /\ owner = "connecting" /\ (\E c \in Conns : socket[c] = "piped") /\ Goto("open")
    /\ UNCHANGED <<tunnel, socket, pool, errors, crashed, late, early, kept>>

AllShut == [c \in Conns |-> "shut"]

\* A pool that is not initialized, or whose destruction throws, may stay open.
PoolEnds ==
    /\ pool' \in {AllShut, pool}
    /\ kept' = (pool' # AllShut)

\* Mutant: initialize forgets the tunnel when the DataSource fails.
DataSourceFailsAlone ==
    /\ owner = "connecting" /\ Goto("failed")
    /\ PoolEnds
    /\ UNCHANGED <<tunnel, socket, errors, crashed, late, early>>

\* catch: await tunnel?.close()
DataSourceFails ==
    /\ owner = "connecting" /\ Goto("closing")
    /\ PoolEnds
    /\ tunnel' = Close(tunnel)
    /\ UNCHANGED <<socket, errors, crashed, late, early>>

\* Mutant: closeEntry closes the tunnel first.
TunnelFirst ==
    /\ owner = "open" /\ Goto("closing")
    /\ tunnel' = Close(tunnel)
    /\ UNCHANGED <<socket, pool, errors, crashed, late, early, kept>>

CloseEntry ==
    /\ owner = "open" /\ Goto("destroying")
    /\ UNCHANGED <<tunnel, socket, pool, errors, crashed, late, early, kept>>

\* finally: await entry.tunnel?.close()
Destroyed ==
    /\ owner = "destroying" /\ Goto("closing")
    /\ PoolEnds
    /\ tunnel' = Close(tunnel)
    /\ UNCHANGED <<socket, errors, crashed, late, early>>

TunnelClosed ==
    /\ owner = "closing" /\ tunnel.closing = "done" /\ Goto("closed")
    /\ UNCHANGED <<tunnel, socket, pool, errors, crashed, late, early, kept>>
-----------------------------------------------------------------------------
Owner ==
    \/ TunnelCreated \/ TunnelRefused \/ DataSourceCreated \/ DataSourceFails
    \/ Destroyed \/ TunnelClosed

Next ==
    /\ ~crashed
    /\ \/ Ready \/ Listening \/ BindFails \/ ClientError \/ ClientClose \/ ServerClosed
       \/ \E c \in Conns : \/ Connect(c) \/ Forwarded(c) \/ ForwardRefused(c)
                           \/ PoolDrops(c) \/ PipeEnds(c)
       \/ CloseEntry \/ Owner

\* The client answers or times out (readyTimeout, keepalive), forwardOut is
\* answered, a pipe whose end is gone ends, and what is awaited goes on; nothing
\* makes the manager close the entry.
Fairness ==
    /\ WF_vars(~crashed /\ tunnel.client = "connecting" /\ (Ready \/ ClientError))
    /\ WF_vars(~crashed /\ Listening)
    /\ WF_vars(~crashed /\ ServerClosed) /\ WF_vars(~crashed /\ Owner)
    /\ \A c \in Conns : /\ WF_vars(~crashed /\ (Forwarded(c) \/ ForwardRefused(c)))
                        /\ WF_vars(~crashed /\ PipeEnds(c))

Spec == Init /\ [][Next]_vars /\ Fairness
-----------------------------------------------------------------------------
(* Properties                                                              *)

\* isHealthy, which the manager asks before it reuses an entry, is never stale:
\* the client is up, the server listens and nobody has begun to close.
HealthyIsUsable ==
    tunnel.handle = "resolved" /\ tunnel.healthy /\ ~early =>
        tunnel.client = "up" /\ tunnel.server = "listening" /\ tunnel.closing = "none"

\* Whoever opened the tunnel is done with it only when its server, its client and
\* every forwarded socket are closed, whatever failed on the way ("always closed
\* ... even on connection failure", SECURITY.md); a client that fails while the
\* server is binding leaves the server listening.
NothingIsLeft ==
    owner \in {"failed", "closed"} /\ ~early =>
        /\ tunnel.server \in {"new", "closed"} /\ tunnel.client \in {"ended", "closed"}
        /\ \A c \in Conns : socket[c] = "none"

\* One 'error' of the client never ends the process: it is handled in every
\* phase of the tunnel's life, and only a second one, or a connection the pool
\* makes after the client was lost, may.
OneErrorIsSurvived == crashed => errors > 1 \/ late # {}

\* A close ends, and with it the initialization, the invalidation or the
\* shutdown that awaits it, if the pool has let go of its connections.
CloseEnds == owner = "closing" ~> (owner = "closed" \/ crashed \/ kept)
=============================================================================
