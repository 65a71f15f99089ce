----------------------------- MODULE Datasources -----------------------------
(***************************************************************************)
(* DatasourcesService over its three tables (datasources, their SSH        *)
(* configurations, their secrets), DatasourceConfigResolver, which reads   *)
(* them one statement after another, and the connections built from what   *)
(* it has read.  The connection manager is reduced to what                 *)
(* ConnectionManager specifies: one initialization per datasource, and an  *)
(* invalidation that waits for it and then closes what it registered.      *)
(*                                                                         *)
(* A request is one handler; an action is the completion of the call it    *)
(* awaits, with the code up to the next await.                             *)
(***************************************************************************)
EXTENDS Naturals, FiniteSets

CONSTANTS
    Datasources,
    Requests,
    Hosts,          \* database endpoints: host, port, database, user, TLS
    Bastions,       \* SSH endpoints: host, port, user
    Secrets,        \* passwords, keys and passphrases
    Creations,      \* the bodies of POST and PATCH that are sent
    Updates,
    MaxCalls,       \* bound: calls served
    None

VARIABLES
    rows,        \* table datasources
    ssh,         \* table datasource_ssh_configs
    secrets,     \* table datasource_secrets
    connection,  \* the configuration of the registered connection, or None
    blocked,     \* the datasources whose connection is being invalidated
    requests,
    calls,
    tested,      \* history: the configurations that passed a connection test
    contended    \* history: the datasources that two requests changed at once

vars == <<rows, ssh, secrets, connection, blocked, requests, calls, tested, contended>>

Modes == {"DIRECT", "SSH_TUNNEL"}
Statuses == {"ACTIVE", "CONNECTION_FAILED", "DISABLED"}
SshSecretTypes == {"SSH_PASSWORD", "SSH_PRIVATE_KEY", "SSH_PRIVATE_KEY_PASSPHRASE"}
SecretTypes == SshSecretTypes \cup {"DATABASE_PASSWORD"}

Maybe(S) == S \cup {None}

\* failed: lastConnectionErrorCode is set
Row == [mode : Modes, host : Hosts, status : Statuses, failed : BOOLEAN]
NoRow == [mode |-> "DIRECT", host |-> None, status |-> "DISABLED", failed |-> FALSE]
SshRow == [bastion : Bastions, auth : {"PASSWORD", "PRIVATE_KEY"}]
NoSecrets == [t \in SecretTypes |-> None]

Exists(d) == rows[d] # NoRow
-----------------------------------------------------------------------------
(* What a request may say, after the validation pipe.                      *)

SshInput == [bastion : Bastions, auth : {"PASSWORD", "PRIVATE_KEY"}, password : Maybe(Secrets),
             privateKey : Maybe(Secrets), passphrase : Maybe(Secrets)]

SshConnectionDto ==
    {s \in SshInput : IF s.auth = "PASSWORD" THEN s.password # None ELSE s.privateKey # None}

\* The fields of a connection: those of TestDatasourceConnectionDto.
Candidate == [mode : Modes, host : Hosts, password : Secrets, ssh : Maybe(SshConnectionDto)]

\* A missing field is None; the fields exist in every instance of the class.
UpdateDatasourceDto ==
    [mode : Maybe(Modes), host : Maybe(Hosts), password : Maybe(Secrets),
     status : {"ACTIVE", "DISABLED", None}, ssh : Maybe(SshConnectionDto)]
NoChange == [mode |-> None, host |-> None, password |-> None, status |-> None, ssh |-> None]

ASSUME ConstantsAssumption ==
    /\ None \notin Hosts \cup Secrets \cup Datasources \cup Modes \cup Statuses
    /\ None \notin SshInput \cup SshRow
    /\ Creations \subseteq Candidate /\ Updates \subseteq UpdateDatasourceDto
    /\ MaxCalls \in Nat

ValidSshAuthentication(s) ==
    IF s.auth = "PASSWORD"
    THEN s.password # None /\ s.privateKey = None /\ s.passphrase = None
    ELSE s.privateKey # None /\ s.password = None

\* resolveCandidate, but for the network policy, which may refuse any host
Valid(c) ==
    /\ (c.mode = "SSH_TUNNEL") <=> (c.ssh # None)
    /\ c.ssh # None => ValidSshAuthentication(c.ssh)

Or(x, y) == IF x # None THEN x ELSE y

\* currentInput: what the service has read of the datasource
Current(row, sec, s) ==
    [mode |-> row.mode, host |-> row.host, password |-> sec["DATABASE_PASSWORD"],
     ssh |-> IF row.mode = "SSH_TUNNEL" /\ s # None
             THEN [bastion |-> s.bastion, auth |-> s.auth, password |-> sec["SSH_PASSWORD"],
                   privateKey |-> sec["SSH_PRIVATE_KEY"],
                   passphrase |-> sec["SSH_PRIVATE_KEY_PASSPHRASE"]]
             ELSE None]

Merged(input, current) ==
    LET mode == Or(input.mode, current.mode) IN
    [mode |-> mode, host |-> Or(input.host, current.host),
     password |-> Or(input.password, current.password),
     ssh |-> IF mode = "DIRECT" THEN None ELSE Or(input.ssh, current.ssh)]

\* Mutant: the list of critical fields forgets the password.
CriticalChangeSent(input) == input.mode # None \/ input.host # None \/ input.ssh # None

\* update: "field in input", over the own properties of the instance
CriticalChange(input) ==
    \E field \in {"mode", "host", "password", "ssh"} : field \in DOMAIN input

\* resolve and resolveSsh: the configuration, or unavailable
Resolvable(row, sec, s) ==
    /\ sec["DATABASE_PASSWORD"] # None
    /\ row.mode = "SSH_TUNNEL" =>
         s # None /\ sec[IF s.auth = "PASSWORD" THEN "SSH_PASSWORD" ELSE "SSH_PRIVATE_KEY"] # None

\* connectOptions: the secrets of the other authentication type are not used.
Effective(c) ==
    IF c.ssh = None THEN c
    ELSE IF c.ssh.auth = "PASSWORD"
         THEN [c EXCEPT !.ssh = [@ EXCEPT !.privateKey = None, !.passphrase = None]]
         ELSE [c EXCEPT !.ssh = [@ EXCEPT !.password = None]]

Resolved(row, sec, s) == Effective(Current(row, sec, s))
-----------------------------------------------------------------------------
(* Requests                                                                *)

\* what is tested or connected to
Config == [mode : Modes, host : Maybe(Hosts), password : Maybe(Secrets), ssh : Maybe(SshInput)]

\* row, sec: what the handler has read; config: what it tests or connects to;
\* stored: the row as save() reads it again
Request == [pc : {"idle", "secrets", "ssh", "test", "save", "write", "outcome", "saved", "invalidate", "delete"},
            op : {"create", "update", "test", "remove", "connect", "none"},
            ds : Maybe(Datasources), input : UpdateDatasourceDto,
            row : Row \cup {NoRow}, stored : Row \cup {NoRow},
            sec : [SecretTypes -> Maybe(Secrets)],
            config : Config, passed : BOOLEAN]
NoConfig == [mode |-> "DIRECT", host |-> None, password |-> None, ssh |-> None]
Idle == [pc |-> "idle", op |-> "none", ds |-> None, input |-> NoChange, row |-> NoRow,
         stored |-> NoRow, sec |-> NoSecrets, config |-> NoConfig, passed |-> FALSE]

Tables == <<rows, ssh, secrets>>
Connections == <<connection, blocked>>

TypeOK ==
    /\ rows \in [Datasources -> Row \cup {NoRow}]
    /\ ssh \in [Datasources -> Maybe(SshRow)]
    /\ secrets \in [Datasources -> [SecretTypes -> Maybe(Secrets)]]
    /\ connection \in [Datasources -> Maybe(Config)]
    /\ blocked \subseteq Datasources
    /\ requests \in [Requests -> Request]
    /\ calls \in Nat
    /\ tested \subseteq Config
    /\ contended \subseteq Datasources

Init ==
    /\ rows = [d \in Datasources |-> NoRow]
    /\ ssh = [d \in Datasources |-> None]
    /\ secrets = [d \in Datasources |-> NoSecrets]
    /\ connection = [d \in Datasources |-> None]
    /\ blocked = {}
    /\ requests = [r \in Requests |-> Idle]
    /\ calls = 0
    /\ tested = {}
    /\ contended = {}

Changing(r) == requests[r].op \in {"update", "remove"}
Initializing(d) == \E r \in Requests : requests[r].op = "connect" /\ requests[r].ds = d

Goto(r, q) == requests' = [requests EXCEPT ![r] = q]
End(r) == Goto(r, Idle)

Begin(r, q) ==
    /\ requests[r].pc = "idle" /\ calls < MaxCalls
    /\ calls' = calls + 1
    /\ Goto(r, q)

\* A fresh id: nobody knows of it.
Create(r, d, c) ==
    /\ ~Exists(d) /\ connection[d] = None
    /\ \A other \in Requests : requests[other].ds # d
    /\ Valid(c)
    /\ Begin(r, [Idle EXCEPT !.pc = "test", !.op = "create", !.ds = d, !.config = c])
    /\ contended' = contended \ {d}
    /\ UNCHANGED <<Tables, Connections, tested>>

\* getEntity, then the handler of PATCH or DELETE
Change(r, d, op, pc, input) ==
    /\ Exists(d)
    /\ Begin(r, [Idle EXCEPT !.pc = pc, !.op = op, !.ds = d, !.input = input, !.row = rows[d]])
    /\ contended' = IF \E other \in Requests : Changing(other) /\ requests[other].ds = d
                    THEN contended \cup {d} ELSE contended
    /\ UNCHANGED <<Tables, Connections, tested>>

Update(r, d) == \E input \in Updates : Change(r, d, "update", "secrets", input)
Remove(r, d) == Change(r, d, "remove", "saved", NoChange)

\* The row read by resolve, for testSaved or for an initialization.
Resolve(r, d, op) ==
    /\ Exists(d)
    /\ Begin(r, [Idle EXCEPT !.pc = "secrets", !.op = op, !.ds = d, !.row = rows[d]])
    /\ UNCHANGED <<Tables, Connections, tested, contended>>

TestSaved(r, d) == Resolve(r, d, "test")
Connect(r, d) ==
    /\ connection[d] = None /\ d \notin blocked /\ ~Initializing(d)
    /\ Resolve(r, d, "connect")

\* What becomes of a request whose call throws: testSaved records it.
Failed(q) == IF q.op = "test" THEN [q EXCEPT !.pc = "outcome"] ELSE Idle

\* Everything has been read: the candidate of an update, or the configuration.
Loaded(q, s) ==
    LET current == Current(q.row, q.sec, s)
        candidate == Merged(q.input, current) IN
    IF q.op = "update"
    THEN IF ~Valid(candidate) THEN Idle
         ELSE [q EXCEPT !.config = candidate,
                        !.pc = IF CriticalChange(q.input) \/ q.input.status = "ACTIVE"
                               THEN "test" ELSE "save"]
    ELSE IF Resolvable(q.row, q.sec, s) /\ q.row.status # "DISABLED"
         THEN [q EXCEPT !.config = Effective(current), !.pc = "test"]
         ELSE Failed(q)

\* getCredentials
ReadSecrets(r) ==
    LET d == requests[r].ds
        q == [requests[r] EXCEPT !.sec = secrets[d]] IN
    /\ requests[r].pc = "secrets"
    /\ Goto(r, IF secrets[d]["DATABASE_PASSWORD"] = None THEN Failed(q)
               ELSE IF q.row.mode = "SSH_TUNNEL" THEN [q EXCEPT !.pc = "ssh"]
               ELSE Loaded(q, None))
    /\ UNCHANGED <<Tables, Connections, calls, tested, contended>>

ReadSsh(r) ==
    /\ requests[r].pc = "ssh"
    /\ Goto(r, Loaded(requests[r], ssh[requests[r].ds]))
    /\ UNCHANGED <<Tables, Connections, calls, tested, contended>>

\* testConfig, or connecting, succeeds.
Passes(r) ==
    LET q == requests[r] IN
    /\ q.pc = "test"
    /\ CASE q.op \in {"create", "update"} ->
              /\ tested' = tested \cup {Effective(q.config)}
              /\ Goto(r, [q EXCEPT !.pc = "save"])
              /\ UNCHANGED connection
         [] q.op = "test" ->
              /\ Goto(r, [q EXCEPT !.pc = "outcome", !.passed = TRUE])
              /\ UNCHANGED <<connection, tested>>
         [] OTHER ->
              /\ connection' = [connection EXCEPT ![q.ds] = q.config]
              /\ End(r)
              /\ UNCHANGED tested
    /\ UNCHANGED <<Tables, blocked, calls, contended>>

\* A query, the network policy, the test, the audit or the transaction throws.
Throws(r) ==
    /\ requests[r].pc \in {"secrets", "ssh", "test", "save", "write", "delete"}
    /\ Goto(r, Failed(requests[r]))
    /\ UNCHANGED <<Tables, Connections, calls, tested, contended>>

SecretsFromInput(c) ==
    [t \in SecretTypes |->
        IF t = "DATABASE_PASSWORD" THEN c.password
        ELSE IF c.ssh = None THEN None
        ELSE CASE t = "SSH_PASSWORD" -> c.ssh.password
               [] t = "SSH_PRIVATE_KEY" -> c.ssh.privateKey
               [] OTHER -> c.ssh.passphrase]

SshConfig(c) == IF c.ssh = None THEN None ELSE [bastion |-> c.ssh.bastion, auth |-> c.ssh.auth]

OtherSecretTypes(auth) ==
    IF auth = "PASSWORD" THEN {"SSH_PRIVATE_KEY", "SSH_PRIVATE_KEY_PASSPHRASE"} ELSE {"SSH_PASSWORD"}

\* Mutant: the secrets of the tunnel stay when the datasource becomes direct.
DeletedTypesKept(input, c) ==
    IF input.ssh = None THEN {} ELSE OtherSecretTypes(input.ssh.auth)

\* updateSshConfig and updateSecrets: the secrets an update deletes ...
DeletedTypes(input, c) ==
    IF c.mode = "DIRECT" THEN SshSecretTypes
    ELSE IF input.ssh = None THEN {}
    ELSE OtherSecretTypes(input.ssh.auth)

\* ... and those it upserts.
UpsertedSecrets(input, c) ==
    IF input.ssh # None THEN SecretsFromInput(c)
    ELSE [NoSecrets EXCEPT !["DATABASE_PASSWORD"] = input.password]

SaveCreated(r) ==
    LET d == requests[r].ds
        c == requests[r].config IN
    /\ requests[r].pc = "save" /\ requests[r].op = "create"
    /\ rows' = [rows EXCEPT ![d] = [mode |-> c.mode, host |-> c.host, status |-> "ACTIVE", failed |-> FALSE]]
    /\ ssh' = [ssh EXCEPT ![d] = SshConfig(c)]
    /\ secrets' = [secrets EXCEPT ![d] = SecretsFromInput(c)]
    /\ End(r)
    /\ UNCHANGED <<Connections, calls, tested, contended>>

\* The transaction of an update: save() first reads the row,
ReadStored(r) ==
    LET q == requests[r] IN
    /\ q.pc = "save" /\ q.op = "update"
    /\ Goto(r, [q EXCEPT !.pc = "write", !.stored = rows[q.ds]])
    /\ UNCHANGED <<Tables, Connections, calls, tested, contended>>

\* and then writes the columns in which the entity differs from what it has read.
Written(entity, stored, row) ==
    [column \in DOMAIN entity |-> IF entity[column] = stored[column] THEN row[column] ELSE entity[column]]

\* The entity of the handler, read before the test, with the changes of the body
EntityOf(q) ==
    [mode |-> q.config.mode, host |-> q.config.host, status |-> Or(q.input.status, q.row.status),
     failed |-> IF CriticalChange(q.input) THEN FALSE ELSE q.row.failed]

\* save() inserts the entity if it has found no row, and updates no row if it has
\* found one that is gone.
RowAfter(q, row) ==
    IF q.stored = NoRow THEN EntityOf(q)
    ELSE IF row = NoRow THEN NoRow
    ELSE Written(EntityOf(q), q.stored, row)

\* The UPDATE always changes lastConnectedAt and so locks the row up to the end of
\* the transaction.  The SSH configuration has no id and is always inserted, which
\* its unique index admits only where there was none; neither it nor a secret can
\* be stored without the row.
SaveUpdated(r) ==
    LET q == requests[r]
        d == q.ds
        c == q.config
        deleted == DeletedTypes(q.input, c)
        upserted == UpsertedSecrets(q.input, c) IN
    /\ q.pc = "write"
    /\ q.stored = NoRow => ~Exists(d)
    /\ c.mode = "SSH_TUNNEL" => ssh[d] = None
    /\ RowAfter(q, rows[d]) = NoRow => c.mode = "DIRECT" /\ upserted = NoSecrets
    /\ rows' = [rows EXCEPT ![d] = RowAfter(q, rows[d])]
    /\ ssh' = [ssh EXCEPT ![d] = SshConfig(c)]
    /\ secrets' = [secrets EXCEPT ![d] =
                     [t \in SecretTypes |-> IF upserted[t] # None THEN upserted[t]
                                            ELSE IF t \in deleted THEN None ELSE secrets[d][t]]]
    /\ Goto(r, [q EXCEPT !.pc = "saved"])
    /\ UNCHANGED <<Connections, calls, tested, contended>>

\* invalidateDatasource blocks new initializations,
Block(r) ==
    /\ requests[r].pc = "saved"
    /\ blocked' = blocked \cup {requests[r].ds}
    /\ Goto(r, [requests[r] EXCEPT !.pc = "invalidate"])
    /\ UNCHANGED <<Tables, connection, calls, tested, contended>>

\* Mutant: the initialization in flight is not waited for.
InvalidateAtOnce(r) ==
    LET q == requests[r] IN
    /\ q.pc = "invalidate"
    /\ connection' = [connection EXCEPT ![q.ds] = None]
    /\ blocked' = blocked \ {q.ds}
    /\ Goto(r, IF q.op = "remove" THEN [q EXCEPT !.pc = "delete"] ELSE Idle)
    /\ UNCHANGED <<Tables, calls, tested, contended>>

\* waits for the one in flight and closes what is registered.  When closing
\* throws, remove ends without deleting.
Invalidate(r) ==
    LET q == requests[r] IN
    /\ q.pc = "invalidate" /\ ~Initializing(q.ds)
    /\ connection' = [connection EXCEPT ![q.ds] = None]
    /\ blocked' = blocked \ {q.ds}
    /\ \/ q.op = "remove" /\ Goto(r, [q EXCEPT !.pc = "delete"])
       \/ End(r)
    /\ UNCHANGED <<Tables, calls, tested, contended>>

Delete(r) ==
    LET d == requests[r].ds IN
    /\ requests[r].pc = "delete"
    /\ rows' = [rows EXCEPT ![d] = NoRow]
    /\ ssh' = [ssh EXCEPT ![d] = None]
    /\ secrets' = [secrets EXCEPT ![d] = NoSecrets]
    /\ End(r)
    /\ UNCHANGED <<Connections, calls, tested, contended>>

\* Mutant: the outcome is saved as an entity, not by an UPDATE.
OutcomeSaved(r) ==
    LET q == requests[r] IN
    /\ q.pc = "outcome"
    /\ rows' = [rows EXCEPT ![q.ds].status = IF q.passed THEN "ACTIVE" ELSE "CONNECTION_FAILED"]
    /\ End(r)
    /\ UNCHANGED <<ssh, secrets, Connections, calls, tested, contended>>

\* testSaved writes its outcome over whatever the status has become, and a
\* failure over its success when the audit of that throws.
Outcome(r) ==
    LET q == requests[r] IN
    /\ q.pc = "outcome"
    /\ rows' = IF Exists(q.ds)
               THEN [rows EXCEPT ![q.ds].status = IF q.passed THEN "ACTIVE" ELSE "CONNECTION_FAILED",
                                 ![q.ds].failed = ~q.passed]
               ELSE rows
    /\ \/ End(r)
       \/ q.passed /\ Goto(r, [q EXCEPT !.passed = FALSE])
    /\ UNCHANGED <<ssh, secrets, Connections, calls, tested, contended>>

\* Eviction or the idle cleanup closes the connection.
Drop(d) ==
    /\ connection[d] # None
    /\ connection' = [connection EXCEPT ![d] = None]
    /\ UNCHANGED <<Tables, blocked, requests, calls, tested, contended>>

Next ==
    \/ \E r \in Requests :
         \/ \E d \in Datasources :
              \/ \E c \in Creations : Create(r, d, c)
              \/ Update(r, d) \/ Remove(r, d) \/ TestSaved(r, d) \/ Connect(r, d)
         \/ ReadSecrets(r) \/ ReadSsh(r) \/ Passes(r) \/ Throws(r)
         \/ SaveCreated(r) \/ ReadStored(r) \/ SaveUpdated(r)
         \/ Block(r) \/ Invalidate(r) \/ Delete(r) \/ Outcome(r)
    \/ \E d \in Datasources : Drop(d)

Spec == Init /\ [][Next]_vars
-----------------------------------------------------------------------------
(* Properties                                                              *)

\* Whatever changes overlap, the tables hold no secret that their SSH
\* configuration does not use: none without one, and none of the other
\* authentication type (updateSshConfig, updateSecrets).  Nor is there an SSH
\* configuration under a direct datasource, unless two requests changed it at
\* once: of two updates one may write the mode and the other its SSH server.
NoLeftoverSecrets ==
    \A d \in Datasources :
        /\ rows[d].mode = "DIRECT" /\ (Exists(d) => d \notin contended) => ssh[d] = None
        /\ \A t \in SshSecretTypes :
             secrets[d][t] # None => /\ ssh[d] # None
                                     /\ (t = "SSH_PASSWORD") <=> (ssh[d].auth = "PASSWORD")

\* Unless two requests changed a datasource at once, what its tables say can
\* be resolved and is, as a whole, a configuration that passed a connection
\* test (create and update test the candidate before they save it).
SavedWasTested ==
    \A d \in Datasources :
        Exists(d) /\ d \notin contended =>
            /\ Resolvable(rows[d], secrets[d], ssh[d])
            /\ Resolved(rows[d], secrets[d], ssh[d]) \in tested

BeingSaved(d) ==
    \E r \in Requests : requests[r].pc \in {"saved", "invalidate"} /\ requests[r].ds = d

\* Unless two requests changed it at once, a datasource whose last update is
\* over is connected as saved, never by a mixture of two configurations that
\* resolve read while the update committed, and not at all while it is disabled
\* (invalidateDatasource waits for the initialization and closes its entry).
ConnectionIsCurrent ==
    \A d \in Datasources :
        Exists(d) /\ d \notin contended /\ ~BeingSaved(d) /\ connection[d] # None =>
            /\ connection[d] = Resolved(rows[d], secrets[d], ssh[d])
            /\ rows[d].status # "DISABLED"
=============================================================================
