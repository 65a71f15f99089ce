-------------------------- MODULE Datasources_proofs --------------------------
(***************************************************************************)
(* Proofs about Datasources, for every number of datasources and requests, *)
(* all creations and updates and any number of calls.                      *)
(***************************************************************************)
EXTENDS Datasources, TLAPS

(* The inductive invariant: what a request in flight has read and tested   *)
(* is what the tables say, as long as nobody else changes its datasource.  *)

\* The calls that an operation awaits.
Awaits(op) ==
    CASE op = "none"    -> {"idle"}
      [] op = "create"  -> {"test", "save"}
      [] op = "update"  -> {"secrets", "ssh", "test", "save", "write", "saved", "invalidate"}
      [] op = "test"    -> {"secrets", "ssh", "test", "outcome"}
      [] op = "connect" -> {"secrets", "ssh", "test"}
      [] OTHER          -> {"saved", "invalidate", "delete"}

ReqOK(r) ==
    LET q == requests[r] IN
    /\ q.pc \in Awaits(q.op)
    /\ q.op # "none" => q.ds \in Datasources
    /\ q.op = "none" => q.ds = None
    /\ q.op \in {"update", "test", "connect"} => q.row \in Row
    /\ q.pc \in {"test", "save", "write"} /\ q.op \in {"create", "update"} => Valid(q.config) /\ q.config.host \in Hosts
    /\ q.op = "create" => q.config.password \in Secrets
    /\ q.pc \in {"save", "write"} => Effective(q.config) \in tested

\* A datasource that is being created is nobody else's.
FreshOK(r) ==
    LET d == requests[r].ds IN
    requests[r].op = "create" =>
        ~Exists(d) /\ connection[d] = None /\ \A other \in Requests \ {r} : requests[other].ds # d

OneChange ==
    \A r, s \in Requests :
        Changing(r) /\ Changing(s) /\ requests[r].ds = requests[s].ds /\ requests[r].ds \notin contended => r = s

\* What an update will save is what it has merged with the tables as they are, and
\* save() has read their mode and host.
UpdateOK(r) ==
    LET q == requests[r]
        d == q.ds IN
    q.op = "update" /\ d \notin contended /\ q.pc \in {"secrets", "ssh", "test", "save", "write"} =>
        /\ Exists(d)
        /\ q.pc = "ssh" => q.sec = secrets[d]
        /\ q.pc \in {"test", "save", "write"} => q.config = Merged(q.input, Current(q.row, secrets[d], ssh[d]))
        /\ q.pc = "write" => q.stored # NoRow /\ q.stored.mode = rows[d].mode /\ q.stored.host = rows[d].host

\* An initialization has read the tables as they are, or an invalidation will
\* wait for it.
ConnectOK(r) ==
    LET q == requests[r]
        d == q.ds IN
    q.op = "connect" /\ Exists(d) /\ d \notin contended /\ ~BeingSaved(d) =>
        /\ q.row.mode = rows[d].mode /\ q.row.host = rows[d].host
        /\ q.row.status # "DISABLED" => rows[d].status # "DISABLED"
        /\ q.pc = "ssh" => q.sec = secrets[d]
        /\ q.pc = "test" => q.config = Resolved(rows[d], secrets[d], ssh[d]) /\ q.row.status # "DISABLED"

RequestOK(r) == ReqOK(r) /\ FreshOK(r) /\ UpdateOK(r) /\ ConnectOK(r)

DInv ==
    /\ TypeOK
    /\ \A r \in Requests : RequestOK(r)
    /\ OneChange
    /\ NoLeftoverSecrets
    /\ SavedWasTested
    /\ ConnectionIsCurrent

USE ConstantsAssumption DEF Maybe
-----------------------------------------------------------------------------
(* Configurations.                                                         *)

\* What the tables say is a configuration.
LEMMA CurrentTyped ==
    ASSUME NEW row \in Row \cup {NoRow}, NEW sec \in [SecretTypes -> Maybe(Secrets)], NEW s \in Maybe(SshRow)
    PROVE  Current(row, sec, s) \in Config
<1>1. \A t \in SecretTypes : sec[t] \in Maybe(Secrets)
  OBVIOUS
<1>2. {"SSH_PASSWORD", "SSH_PRIVATE_KEY", "SSH_PRIVATE_KEY_PASSPHRASE", "DATABASE_PASSWORD"} \subseteq SecretTypes
  BY DEF SecretTypes, SshSecretTypes
<1>3. row.mode \in Modes /\ row.host \in Maybe(Hosts)
  BY DEF Row, NoRow, Modes
<1>4. CASE row.mode = "SSH_TUNNEL" /\ s # None
  <2>1. [bastion |-> s.bastion, auth |-> s.auth, password |-> sec["SSH_PASSWORD"],
         privateKey |-> sec["SSH_PRIVATE_KEY"],
         passphrase |-> sec["SSH_PRIVATE_KEY_PASSPHRASE"]] \in SshInput
    BY <1>1, <1>2, <1>4 DEF SshRow, SshInput
  <2> QED
    BY <1>1, <1>2, <1>3, <1>4, <2>1 DEF Current, Config
<1>5. CASE ~(row.mode = "SSH_TUNNEL" /\ s # None)
  BY <1>1, <1>2, <1>3, <1>5 DEF Current, Config
<1> QED
  BY <1>4, <1>5

\* The fields of a request body and of its merge with a configuration.
LEMMA InputTyped ==
    ASSUME NEW input \in UpdateDatasourceDto
    PROVE  /\ input.mode \in Maybe(Modes) /\ input.host \in Maybe(Hosts) /\ input.password \in Maybe(Secrets)
           /\ input.status \in {"ACTIVE", "DISABLED", None} /\ input.ssh \in Maybe(SshInput)
           /\ CriticalChange(input)
<1>1. DOMAIN input = {"mode", "host", "password", "status", "ssh"}
  BY DEF UpdateDatasourceDto
<1>2. CriticalChange(input)
  BY <1>1 DEF CriticalChange
<1> QED
  BY <1>2 DEF UpdateDatasourceDto, SshConnectionDto

\* The merge of a body with a configuration is a configuration.
LEMMA MergedTyped ==
    ASSUME NEW input \in UpdateDatasourceDto, NEW current \in Config
    PROVE  /\ Merged(input, current) \in Config
           /\ current.host \in Hosts => Merged(input, current).host \in Hosts
<1>1. /\ current.mode \in Modes /\ current.host \in Maybe(Hosts)
      /\ current.password \in Maybe(Secrets) /\ current.ssh \in Maybe(SshInput)
  BY DEF Config
<1> QED
  BY <1>1, InputTyped DEF Merged, Or, Config

\* connectOptions only drops fields.
LEMMA EffectiveTyped ==
    ASSUME NEW c \in Config
    PROVE  Effective(c) \in Config
<1>1. c.mode \in Modes /\ c.host \in Maybe(Hosts) /\ c.password \in Maybe(Secrets) /\ c.ssh \in Maybe(SshInput)
  BY DEF Config
<1>2. CASE c.ssh = None
  BY <1>2 DEF Effective
<1>3. ASSUME NEW s \in SshInput PROVE [c EXCEPT !.ssh = s] \in Config
  BY <1>1, <1>3 DEF Config
<1>4. CASE c.ssh # None
  <2>1. c.ssh \in SshInput
    BY <1>1, <1>4
  <2>2. /\ [c.ssh EXCEPT !.privateKey = None, !.passphrase = None] \in SshInput
        /\ [c.ssh EXCEPT !.password = None] \in SshInput
    BY <2>1 DEF SshInput
  <2> QED
    BY <1>3, <1>4, <2>2 DEF Effective
<1> QED
  BY <1>2, <1>4

\* Two configurations with the same fields are the same.
LEMMA SameConfig ==
    ASSUME NEW c \in Config, NEW e \in Config,
           c.mode = e.mode, c.host = e.host, c.password = e.password, c.ssh = e.ssh
    PROVE  c = e
BY DEF Config

\* Nor do two descriptions of an SSH server with the same fields differ.
LEMMA SameSsh ==
    ASSUME NEW c \in SshInput, NEW e \in SshInput,
           c.bastion = e.bastion, c.auth = e.auth, c.password = e.password,
           c.privateKey = e.privateKey, c.passphrase = e.passphrase
    PROVE  c = e
BY DEF SshInput

\* Status and error of a row are not part of its configuration.
LEMMA OnlyModeAndHost ==
    ASSUME NEW row, NEW other, NEW sec, NEW s, row.mode = other.mode, row.host = other.host
    PROVE  /\ Current(row, sec, s) = Current(other, sec, s)
           /\ Resolved(row, sec, s) = Resolved(other, sec, s)
           /\ Resolvable(row, sec, s) = Resolvable(other, sec, s)
BY DEF Current, Resolved, Resolvable

\* A direct datasource has no use for an SSH configuration.
LEMMA DirectCurrent ==
    ASSUME NEW row, NEW sec, NEW s, row.mode # "SSH_TUNNEL"
    PROVE  Current(row, sec, s) = Current(row, sec, None)
BY DEF Current

\* The configuration with one SSH server that a row and its secrets spell out.
LEMMA SpelledOut ==
    ASSUME NEW c \in Config, Valid(c), c.password # None,
           NEW row \in Row, row.mode = c.mode, row.host = c.host,
           NEW sec \in [SecretTypes -> Maybe(Secrets)], sec["DATABASE_PASSWORD"] = c.password,
           c.ssh # None => /\ sec["SSH_PASSWORD"] = c.ssh.password
                           /\ sec["SSH_PRIVATE_KEY"] = c.ssh.privateKey
                           /\ sec["SSH_PRIVATE_KEY_PASSPHRASE"] = c.ssh.passphrase
    PROVE  /\ Current(row, sec, SshConfig(c)) = c
           /\ Resolved(row, sec, SshConfig(c)) = Effective(c)
           /\ Resolvable(row, sec, SshConfig(c))
<1>1. c.mode \in Modes /\ c.ssh \in Maybe(SshInput) /\ SshConfig(c) \in Maybe(SshRow)
  BY DEF Config, SshConfig, SshInput, SshRow
<1>2. Current(row, sec, SshConfig(c)) \in Config
  BY <1>1, CurrentTyped
<1>3. CASE c.ssh = None
  <2>1. c.mode # "SSH_TUNNEL"
    BY <1>3 DEF Valid
  <2>2. Current(row, sec, SshConfig(c)) = c
    <3>1. /\ Current(row, sec, SshConfig(c)).mode = c.mode /\ Current(row, sec, SshConfig(c)).host = c.host
          /\ Current(row, sec, SshConfig(c)).password = c.password
          /\ Current(row, sec, SshConfig(c)).ssh = c.ssh
      BY <1>3, <2>1 DEF Current
    <3> QED
      BY <1>2, <3>1, SameConfig
  <2> QED
    BY <2>1, <2>2 DEF Resolved, Resolvable
<1>4. CASE c.ssh # None
  <2>1. c.mode = "SSH_TUNNEL" /\ ValidSshAuthentication(c.ssh) /\ c.ssh \in SshInput
    BY <1>1, <1>4 DEF Valid
  <2>2. /\ SshConfig(c) # None /\ SshConfig(c).auth = c.ssh.auth /\ SshConfig(c).bastion = c.ssh.bastion
    BY <1>1, <1>4, <2>1 DEF SshConfig, SshInput, SshRow
  <2>3. Current(row, sec, SshConfig(c)) = c
    <3> DEFINE e == Current(row, sec, SshConfig(c))
    <3>1. /\ e.ssh.bastion = c.ssh.bastion /\ e.ssh.auth = c.ssh.auth /\ e.ssh.password = c.ssh.password
          /\ e.ssh.privateKey = c.ssh.privateKey /\ e.ssh.passphrase = c.ssh.passphrase
          /\ e.ssh # None
      <4>1. e.ssh = [bastion |-> SshConfig(c).bastion, auth |-> SshConfig(c).auth, password |-> sec["SSH_PASSWORD"],
                     privateKey |-> sec["SSH_PRIVATE_KEY"],
                     passphrase |-> sec["SSH_PRIVATE_KEY_PASSPHRASE"]]
        BY <2>1, <2>2 DEF Current
      <4>2. e.ssh \in SshInput
        BY <1>4, <2>1, <2>2, <4>1 DEF SshInput
      <4> QED
        BY <1>4, <2>2, <4>1, <4>2
    <3>2. e.ssh = c.ssh
      <4>1. e.ssh \in SshInput
        BY <1>2, <3>1 DEF Config
      <4> QED
        BY <2>1, <3>1, <4>1, SameSsh
    <3>3. e.mode = c.mode /\ e.host = c.host /\ e.password = c.password
      BY DEF Current
    <3> QED
      BY <1>2, <3>2, <3>3, SameConfig
  <2>4. Resolvable(row, sec, SshConfig(c))
    BY <1>4, <2>1, <2>2 DEF Resolvable, ValidSshAuthentication
  <2> QED
    BY <2>3, <2>4 DEF Resolved
<1> QED
  BY <1>3, <1>4

\* The secrets that a creation stores.
LEMMA CreatedSecrets ==
    ASSUME NEW c \in Config, Valid(c)
    PROVE  /\ SecretsFromInput(c) \in [SecretTypes -> Maybe(Secrets)]
           /\ SecretsFromInput(c)["DATABASE_PASSWORD"] = c.password
           /\ c.ssh # None => /\ SecretsFromInput(c)["SSH_PASSWORD"] = c.ssh.password
                              /\ SecretsFromInput(c)["SSH_PRIVATE_KEY"] = c.ssh.privateKey
                              /\ SecretsFromInput(c)["SSH_PRIVATE_KEY_PASSPHRASE"] = c.ssh.passphrase
           /\ c.ssh = None => \A t \in SshSecretTypes : SecretsFromInput(c)[t] = None
<1>1. c.password \in Maybe(Secrets) /\ c.ssh \in Maybe(SshInput)
  BY DEF Config
<1>2. c.ssh # None => /\ c.ssh.password \in Maybe(Secrets) /\ c.ssh.privateKey \in Maybe(Secrets)
                      /\ c.ssh.passphrase \in Maybe(Secrets)
  BY <1>1 DEF SshInput
<1>3. /\ SecretsFromInput(c)["DATABASE_PASSWORD"] = c.password
      /\ c.ssh # None => /\ SecretsFromInput(c)["SSH_PASSWORD"] = c.ssh.password
                         /\ SecretsFromInput(c)["SSH_PRIVATE_KEY"] = c.ssh.privateKey
                         /\ SecretsFromInput(c)["SSH_PRIVATE_KEY_PASSPHRASE"] = c.ssh.passphrase
      /\ c.ssh = None => \A t \in SshSecretTypes : SecretsFromInput(c)[t] = None
  BY DEF SecretsFromInput, SecretTypes, SshSecretTypes
<1>4. \A t \in SecretTypes : SecretsFromInput(c)[t] \in Maybe(Secrets)
  BY <1>1, <1>2, <1>3 DEF SecretTypes, SshSecretTypes
<1>5. SecretsFromInput(c) \in [SecretTypes -> Maybe(Secrets)]
  BY <1>4 DEF SecretsFromInput
<1> QED
  BY <1>3, <1>5

\* The secrets after an update.
SecretsAfter(input, c, sec) ==
    [t \in SecretTypes |-> IF UpsertedSecrets(input, c)[t] # None THEN UpsertedSecrets(input, c)[t]
                           ELSE IF t \in DeletedTypes(input, c) THEN None ELSE sec[t]]

\* No secret of an SSH server without its configuration, and none of the other
\* authentication type.
Tidy(sec, s) ==
    \A t \in SshSecretTypes :
        sec[t] # None => s # None /\ ((t = "SSH_PASSWORD") <=> (s.auth = "PASSWORD"))

\* A creation leaves the tables tidy.
LEMMA CreationIsTidy ==
    ASSUME NEW c \in Config, Valid(c)
    PROVE  /\ Tidy(SecretsFromInput(c), SshConfig(c))
           /\ c.mode = "DIRECT" => SshConfig(c) = None
<1>1. CASE c.ssh = None
  BY <1>1, CreatedSecrets DEF Tidy, SshConfig
<1>2. CASE c.ssh # None
  <2>1. c.mode = "SSH_TUNNEL" /\ c.ssh \in SshInput /\ ValidSshAuthentication(c.ssh)
    BY <1>2 DEF Config, Valid
  <2>2. SshConfig(c) \in SshRow /\ SshConfig(c).auth = c.ssh.auth
    BY <1>2, <2>1 DEF SshConfig, SshInput, SshRow
  <2>3. \A t \in SshSecretTypes :
          SecretsFromInput(c)[t] # None => ((t = "SSH_PASSWORD") <=> (c.ssh.auth = "PASSWORD"))
    BY <1>2, <2>1, CreatedSecrets DEF SshSecretTypes, ValidSshAuthentication
  <2> QED
    BY <2>1, <2>2, <2>3 DEF Tidy
<1> QED
  BY <1>1, <1>2

\* What an update upserts.
LEMMA Upserted ==
    ASSUME NEW input \in UpdateDatasourceDto, NEW c \in Config, Valid(c)
    PROVE  /\ UpsertedSecrets(input, c) \in [SecretTypes -> Maybe(Secrets)]
           /\ input.ssh # None => UpsertedSecrets(input, c) = SecretsFromInput(c)
           /\ input.ssh = None => /\ UpsertedSecrets(input, c)["DATABASE_PASSWORD"] = input.password
                                  /\ \A t \in SshSecretTypes : UpsertedSecrets(input, c)[t] = None
BY InputTyped, CreatedSecrets DEF UpsertedSecrets, NoSecrets, SecretTypes, SshSecretTypes

\* Whatever an update merges, it leaves the tables tidy, when it does not find
\* an SSH configuration in the way of its own.
LEMMA UpdateIsTidy ==
    ASSUME NEW input \in UpdateDatasourceDto, NEW c \in Config, Valid(c),
           NEW sec \in [SecretTypes -> Maybe(Secrets)], NEW s \in Maybe(SshRow), Tidy(sec, s),
           c.mode = "SSH_TUNNEL" => s = None
    PROVE  /\ SecretsAfter(input, c, sec) \in [SecretTypes -> Maybe(Secrets)]
           /\ Tidy(SecretsAfter(input, c, sec), SshConfig(c))
           /\ c.mode = "DIRECT" => SshConfig(c) = None
<1>1. SecretsAfter(input, c, sec) \in [SecretTypes -> Maybe(Secrets)]
  BY Upserted DEF SecretsAfter
<1>2. SshSecretTypes \subseteq SecretTypes /\ c.mode \in Modes /\ (c.mode = "SSH_TUNNEL" <=> c.ssh # None)
  BY DEF SecretTypes, Valid, Config
<1>3. CASE c.ssh = None
  <2>1. c.mode = "DIRECT"
    BY <1>2, <1>3 DEF Modes
  <2>2. \A t \in SshSecretTypes : UpsertedSecrets(input, c)[t] = None
    BY <1>3, Upserted, CreatedSecrets
  <2>3. \A t \in SshSecretTypes : SecretsAfter(input, c, sec)[t] = None
    BY <1>2, <2>1, <2>2 DEF SecretsAfter, DeletedTypes
  <2> QED
    BY <1>1, <1>3, <2>3 DEF Tidy, SshConfig
<1>4. CASE c.ssh # None
  <2>1. \A t \in SshSecretTypes : sec[t] = None
    BY <1>2, <1>4 DEF Tidy
  <2>2. \A t \in SshSecretTypes : SecretsAfter(input, c, sec)[t] \in {UpsertedSecrets(input, c)[t], None}
    BY <1>2, <2>1 DEF SecretsAfter
  <2>3. \A t \in SshSecretTypes : SecretsAfter(input, c, sec)[t] \in {SecretsFromInput(c)[t], None}
    BY <2>2, Upserted, InputTyped
  <2>4. Tidy(SecretsFromInput(c), SshConfig(c))
    BY CreationIsTidy
  <2> QED
    BY <1>1, <1>2, <1>4, <2>3, <2>4 DEF Tidy
<1> QED
  BY <1>3, <1>4

\* An update of a datasource that nobody else has changed stores what it merged.
LEMMA UpdateStores ==
    ASSUME NEW input \in UpdateDatasourceDto, NEW row \in Row,
           NEW sec \in [SecretTypes -> Maybe(Secrets)], NEW s \in Maybe(SshRow), Tidy(sec, s),
           sec["DATABASE_PASSWORD"] # None,
           NEW c \in Config, c = Merged(input, Current(row, sec, s)), Valid(c),
           c.mode = "SSH_TUNNEL" => s = None
    PROVE  LET after == SecretsAfter(input, c, sec) IN
           /\ c.password # None /\ after["DATABASE_PASSWORD"] = c.password
           /\ c.ssh # None => /\ after["SSH_PASSWORD"] = c.ssh.password
                              /\ after["SSH_PRIVATE_KEY"] = c.ssh.privateKey
                              /\ after["SSH_PRIVATE_KEY_PASSPHRASE"] = c.ssh.passphrase
<1> DEFINE after == SecretsAfter(input, c, sec)
<1>1. Current(row, sec, s).password = sec["DATABASE_PASSWORD"]
  BY DEF Current
<1>2. c.password = Or(input.password, sec["DATABASE_PASSWORD"]) /\ c.password # None
  BY <1>1 DEF Merged, Or
<1>3. after["DATABASE_PASSWORD"] = c.password
  <2>1. "DATABASE_PASSWORD" \in SecretTypes /\ "DATABASE_PASSWORD" \notin DeletedTypes(input, c)
    BY DEF SecretTypes, DeletedTypes, OtherSecretTypes, SshSecretTypes
  <2> QED
    BY <1>2, <2>1, Upserted, CreatedSecrets DEF SecretsAfter, Or
<1>4. CASE c.ssh # None
  <2>1. s = None /\ Current(row, sec, s).ssh = None
    BY <1>4 DEF Valid, Current
  <2>2. input.ssh # None
    BY <1>4, <2>1 DEF Merged, Or
  <2>3. UpsertedSecrets(input, c) = SecretsFromInput(c)
    BY <2>2, Upserted
  <2>4. \A t \in SshSecretTypes : sec[t] = None
    BY <2>1 DEF Tidy
  <2>5. \A t \in SshSecretTypes : after[t] = SecretsFromInput(c)[t]
    <3>1. \A t \in SshSecretTypes : after[t] \in {SecretsFromInput(c)[t], sec[t]} \/ after[t] = None
      BY <2>3 DEF SecretsAfter, SecretTypes
    <3>2. \A t \in SshSecretTypes : SecretsFromInput(c)[t] # None => after[t] = SecretsFromInput(c)[t]
      BY <2>3 DEF SecretsAfter, SecretTypes
    <3> QED
      BY <2>4, <3>1, <3>2
  <2> QED
    BY <1>2, <1>3, <1>4, <2>5, CreatedSecrets DEF SshSecretTypes
<1> QED
  BY <1>2, <1>3, <1>4

-----------------------------------------------------------------------------
(* Steps.                                                                  *)

\* A request that has ended asks for nothing.
LEMMA IdleTyped == Idle \in Request
<1>1. NoConfig \in Config
  BY DEF NoConfig, Config, Modes
<1>2. NoChange \in UpdateDatasourceDto
  BY DEF NoChange, UpdateDatasourceDto
<1>3. NoSecrets \in [SecretTypes -> Maybe(Secrets)]
  BY DEF NoSecrets
<1>4. NoRow \in Row \cup {NoRow}
  OBVIOUS
<1> QED
  BY <1>1, <1>2, <1>3, <1>4 DEF Idle, Request

\* Nothing is promised about a request that is over.
LEMMA IdleOK ==
    ASSUME NEW r \in Requests, requests'[r] = Idle
    PROVE  RequestOK(r)'
BY DEF RequestOK, ReqOK, FreshOK, UpdateOK, ConnectOK, Idle, Awaits

\* The next state of the request that takes a step, and of the others.
LEMMA Going ==
    ASSUME TypeOK, NEW r \in Requests, NEW q \in Request, Goto(r, q)
    PROVE  /\ requests' \in [Requests -> Request]
           /\ requests'[r] = q
           /\ \A s \in Requests \ {r} : requests'[s] = requests[s]
BY DEF TypeOK, Goto

\* A step of one request that leaves the configurations in the tables as they
\* are disturbs no other request.
LEMMA KeepsTables ==
    ASSUME DInv, TypeOK', NEW r \in Requests, RequestOK(r)',
           \A s \in Requests \ {r} : requests'[s] = requests[s],
           UNCHANGED <<ssh, secrets>>,
           \A d \in Datasources : /\ rows'[d].mode = rows[d].mode /\ rows'[d].host = rows[d].host
                                  /\ Exists(d)' = Exists(d)
                                  /\ rows'[d].status \in {rows[d].status, "ACTIVE", "CONNECTION_FAILED"},
           tested \subseteq tested',
           \A d \in contended : d \in contended' \/ (~Exists(d) /\ \A s \in Requests \ {r} : requests[s].ds # d),
           \/ requests'[r].ds \in {requests[r].ds, None}
           \/ requests'[r].ds \in Datasources /\ Exists(requests'[r].ds)
           \/ \A s \in Requests \ {r} : requests[s].ds # requests'[r].ds,
           Changing(r)' =>
             \/ Changing(r) /\ requests'[r].ds = requests[r].ds
             \/ requests'[r].ds \in contended'
             \/ \A s \in Requests \ {r} : Changing(s) => requests[s].ds # requests'[r].ds,
           \A d \in Datasources :
             \/ connection'[d] \in {connection[d], None}
             \/ requests[r].op = "connect" /\ requests[r].pc = "test"
                /\ d = requests[r].ds /\ connection'[d] = requests[r].config,
           \A d \in Datasources : BeingSaved(d) => BeingSaved(d)' \/ (~Initializing(d) /\ connection'[d] = None)
    PROVE  DInv'
<1>1. ASSUME NEW s \in Requests \ {r} PROVE RequestOK(s)'
  <2> DEFINE d == requests[s].ds
  <2>1. requests'[s] = requests[s] /\ RequestOK(s)
    BY DEF DInv
  <2>2. ReqOK(s)'
    BY <2>1 DEF RequestOK, ReqOK
  <2>3. FreshOK(s)'
    <3>1. SUFFICES ASSUME requests[s].op = "create"
                   PROVE  ~Exists(d)' /\ connection'[d] = None /\ \A other \in Requests \ {s} : requests'[other].ds # d
      BY <2>1 DEF FreshOK, Exists
    <3>2. d \in Datasources /\ ~Exists(d) /\ connection[d] = None /\ \A other \in Requests \ {s} : requests[other].ds # d
      BY <2>1, <3>1 DEF RequestOK, ReqOK, FreshOK
    <3>3. ~Exists(d)' /\ connection'[d] = None
      BY <3>2
    <3>4. requests'[r].ds # d
      BY <3>2
    <3> QED
      BY <3>2, <3>3, <3>4
  <2>4. UpdateOK(s)'
    <3>1. requests[s].op = "update" => d \in Datasources
      BY <2>1 DEF RequestOK, ReqOK
    <3>2. d \notin contended' => d \notin contended
      OBVIOUS
    <3> QED
      BY <2>1, <3>1, <3>2 DEF RequestOK, UpdateOK
  <2>5. ConnectOK(s)'
    <3>1. SUFFICES ASSUME requests[s].op = "connect", Exists(d)', d \notin contended', ~BeingSaved(d)'
                   PROVE  ConnectOK(s)'
      BY <2>1 DEF ConnectOK, Exists, BeingSaved
    <3>2. d \in Datasources
      BY <2>1, <3>1 DEF RequestOK, ReqOK
    <3>3. Exists(d) /\ d \notin contended
      BY <3>1, <3>2
    <3>4. Initializing(d)
      BY <3>1 DEF Initializing
    <3>5. ~BeingSaved(d)
      BY <3>1, <3>2, <3>4 DEF BeingSaved
    <3> QED
      BY <2>1, <3>1, <3>2, <3>3, <3>5, OnlyModeAndHost DEF RequestOK, ConnectOK
  <2> QED
    BY <2>2, <2>3, <2>4, <2>5 DEF RequestOK
<1>2. \A s \in Requests : RequestOK(s)'
  BY <1>1
<1>3. OneChange'
  <2>1. SUFFICES ASSUME NEW s \in Requests, NEW t \in Requests, Changing(s)', Changing(t)',
                        requests'[s].ds = requests'[t].ds, requests'[s].ds \notin contended'
                 PROVE  s = t
    BY DEF OneChange
  <2>2. ASSUME NEW a \in Requests \ {r}, Changing(a)' PROVE Changing(a) /\ requests'[a].ds = requests[a].ds
    BY <2>2 DEF Changing
  <2>3. CASE s # r /\ t # r
    <3>1. Changing(s) /\ Changing(t) /\ requests[s].ds = requests[t].ds
      BY <2>1, <2>2, <2>3
    <3>2. requests[s].ds \notin contended
      BY <2>1, <2>2, <2>3
    <3> QED
      BY <3>1, <3>2 DEF DInv, OneChange
  <2>4. ASSUME NEW a \in Requests \ {r}, Changing(a)', Changing(r)', requests'[a].ds = requests'[r].ds,
               requests'[r].ds \notin contended'
        PROVE  FALSE
    <3>1. Changing(a) /\ requests[a].ds = requests'[r].ds
      BY <2>2, <2>4
    <3>2. Changing(r) /\ requests'[r].ds = requests[r].ds
      BY <2>4, <3>1
    <3>3. requests[r].ds \notin contended
      BY <2>4, <3>1, <3>2
    <3> QED
      BY <3>1, <3>2, <3>3 DEF DInv, OneChange
  <2> QED
    BY <2>1, <2>3, <2>4
<1>4. NoLeftoverSecrets'
  <2>1. \A d \in Datasources : (Exists(d)' => d \notin contended') => (Exists(d) => d \notin contended)
    OBVIOUS
  <2> QED
    BY <2>1 DEF DInv, NoLeftoverSecrets
<1>5. ASSUME NEW d \in Datasources, Exists(d)', d \notin contended'
      PROVE  /\ Exists(d) /\ d \notin contended
             /\ Resolvable(rows'[d], secrets'[d], ssh'[d]) = Resolvable(rows[d], secrets[d], ssh[d])
             /\ Resolved(rows'[d], secrets'[d], ssh'[d]) = Resolved(rows[d], secrets[d], ssh[d])
  BY <1>5, OnlyModeAndHost
<1>6. SavedWasTested'
  <2>1. SUFFICES ASSUME NEW d \in Datasources, Exists(d)', d \notin contended'
                 PROVE  /\ Resolvable(rows'[d], secrets'[d], ssh'[d])
                        /\ Resolved(rows'[d], secrets'[d], ssh'[d]) \in tested'
    BY DEF SavedWasTested
  <2> QED
    BY <1>5, <2>1 DEF DInv, SavedWasTested
<1>7. ConnectionIsCurrent'
  <2>1. SUFFICES ASSUME NEW d \in Datasources, Exists(d)', d \notin contended', ~BeingSaved(d)', connection'[d] # None
                 PROVE  /\ connection'[d] = Resolved(rows'[d], secrets'[d], ssh'[d])
                        /\ rows'[d].status # "DISABLED"
    BY DEF ConnectionIsCurrent
  <2>2. Exists(d) /\ d \notin contended /\ ~BeingSaved(d)
    BY <1>5, <2>1
  <2>3. CASE connection'[d] = connection[d]
    BY <1>5, <2>1, <2>2, <2>3 DEF DInv, ConnectionIsCurrent
  <2>4. CASE requests[r].op = "connect" /\ requests[r].pc = "test" /\ d = requests[r].ds /\ connection'[d] = requests[r].config
    <3>1. ConnectOK(r)
      BY DEF DInv, RequestOK
    <3>2. connection'[d] = Resolved(rows[d], secrets[d], ssh[d]) /\ rows[d].status # "DISABLED"
      BY <2>2, <2>4, <3>1 DEF ConnectOK
    <3> QED
      BY <1>5, <2>1, <3>2
  <2> QED
    BY <2>1, <2>3, <2>4
<1> QED
  BY <1>2, <1>3, <1>4, <1>6, <1>7 DEF DInv

\* A creation has an id that no request and no connection knows of.
LEMMA CreateStep ==
    ASSUME DInv, NEW r \in Requests, NEW d \in Datasources, NEW c \in Creations, Create(r, d, c)
    PROVE  DInv'
<1> DEFINE q == [Idle EXCEPT !.pc = "test", !.op = "create", !.ds = d, !.config = c]
<1>1. TypeOK /\ Goto(r, q) /\ calls' = calls + 1 /\ requests[r].pc = "idle"
  BY DEF DInv, Create, Begin
<1>2. c \in Config /\ c.host \in Hosts /\ c.password \in Secrets /\ Valid(c)
  BY DEF Create, Candidate, Config, SshConnectionDto
<1>3. q \in Request /\ q.op = "create" /\ q.pc = "test" /\ q.ds = d /\ q.config = c
  BY <1>2, IdleTyped DEF Request, Idle
<1>4. requests' \in [Requests -> Request] /\ requests'[r] = q /\ \A s \in Requests \ {r} : requests'[s] = requests[s]
  BY <1>1, <1>3, Going
<1> HIDE DEF q
<1>5. UNCHANGED <<rows, ssh, secrets, connection, blocked, tested>> /\ contended' = contended \ {d}
  BY DEF Create, Tables, Connections
<1>6. ~Exists(d) /\ connection[d] = None /\ \A s \in Requests : requests[s].ds # d
  BY DEF Create
<1>7. TypeOK'
  BY <1>1, <1>4, <1>5 DEF TypeOK
<1>8. RequestOK(r)'
  <2>1. ReqOK(r)'
    BY <1>2, <1>3, <1>4 DEF ReqOK, Awaits
  <2>2. FreshOK(r)'
    BY <1>3, <1>4, <1>5, <1>6 DEF FreshOK, Exists
  <2> QED
    BY <1>3, <1>4, <2>1, <2>2 DEF RequestOK, UpdateOK, ConnectOK
<1>9. \A b \in Datasources : BeingSaved(b) => BeingSaved(b)'
  BY <1>1, <1>4 DEF BeingSaved
<1>10. ~Changing(r)'
  BY <1>3, <1>4 DEF Changing
<1>11. \A b \in Datasources : Exists(b)' = Exists(b)
  BY <1>5 DEF Exists
<1> QED
  BY <1>3, <1>4, <1>5, <1>6, <1>7, <1>8, <1>9, <1>10, <1>11, KeepsTables

\* PATCH and DELETE: two at once on a datasource mark it contended.
LEMMA ChangeStep ==
    ASSUME DInv, NEW r \in Requests, NEW d \in Datasources, NEW op, NEW pc, NEW input \in UpdateDatasourceDto,
           (op = "update" /\ pc = "secrets") \/ (op = "remove" /\ pc = "saved"),
           Change(r, d, op, pc, input)
    PROVE  DInv'
<1> DEFINE q == [Idle EXCEPT !.pc = pc, !.op = op, !.ds = d, !.input = input, !.row = rows[d]]
<1>1. TypeOK /\ Goto(r, q) /\ calls' = calls + 1 /\ requests[r].pc = "idle" /\ Exists(d)
  BY DEF DInv, Change, Begin
<1>2. rows[d] \in Row
  BY <1>1 DEF TypeOK, Exists
<1>3. q \in Request /\ q.op = op /\ q.pc = pc /\ q.ds = d /\ q.row = rows[d]
  BY <1>2, IdleTyped DEF Request, Idle
<1>4. requests' \in [Requests -> Request] /\ requests'[r] = q /\ \A s \in Requests \ {r} : requests'[s] = requests[s]
  BY <1>1, <1>3, Going
<1> HIDE DEF q
<1>5. UNCHANGED <<rows, ssh, secrets, connection, blocked, tested>>
  BY DEF Change, Tables, Connections
<1>6. /\ contended \subseteq contended' /\ contended' \subseteq contended \cup {d}
      /\ (\E other \in Requests : Changing(other) /\ requests[other].ds = d) => d \in contended'
  BY DEF Change
<1>7. TypeOK'
  BY <1>1, <1>4, <1>5, <1>6 DEF TypeOK
<1>8. \A b \in Datasources : Exists(b)' = Exists(b)
  BY <1>5 DEF Exists
<1>9. RequestOK(r)'
  <2>1. ReqOK(r)'
    BY <1>2, <1>3, <1>4 DEF ReqOK, Awaits
  <2>2. UpdateOK(r)'
    BY <1>1, <1>3, <1>4, <1>8 DEF UpdateOK
  <2> QED
    BY <1>3, <1>4, <2>1, <2>2 DEF RequestOK, FreshOK, ConnectOK
<1>10. \A b \in Datasources : BeingSaved(b) => BeingSaved(b)'
  BY <1>1, <1>4 DEF BeingSaved
<1> QED
  BY <1>1, <1>3, <1>4, <1>5, <1>6, <1>7, <1>8, <1>9, <1>10, KeepsTables

\* The row that resolve reads.
LEMMA ResolveStep ==
    ASSUME DInv, NEW r \in Requests, NEW d \in Datasources, NEW op \in {"test", "connect"}, Resolve(r, d, op)
    PROVE  DInv'
<1> DEFINE q == [Idle EXCEPT !.pc = "secrets", !.op = op, !.ds = d, !.row = rows[d]]
<1>1. TypeOK /\ Goto(r, q) /\ calls' = calls + 1 /\ requests[r].pc = "idle" /\ Exists(d)
  BY DEF DInv, Resolve, Begin
<1>2. rows[d] \in Row
  BY <1>1 DEF TypeOK, Exists
<1>3. q \in Request /\ q.op = op /\ q.pc = "secrets" /\ q.ds = d /\ q.row = rows[d]
  BY <1>2, IdleTyped DEF Request, Idle
<1>4. requests' \in [Requests -> Request] /\ requests'[r] = q /\ \A s \in Requests \ {r} : requests'[s] = requests[s]
  BY <1>1, <1>3, Going
<1> HIDE DEF q
<1>5. UNCHANGED <<rows, ssh, secrets, connection, blocked, tested, contended>>
  BY DEF Resolve, Tables, Connections
<1>6. TypeOK'
  BY <1>1, <1>4, <1>5 DEF TypeOK
<1>7. \A b \in Datasources : Exists(b)' = Exists(b)
  BY <1>5 DEF Exists
<1>8. RequestOK(r)'
  <2>1. ReqOK(r)'
    BY <1>2, <1>3, <1>4 DEF ReqOK, Awaits
  <2>2. ConnectOK(r)'
    BY <1>3, <1>4, <1>5 DEF ConnectOK
  <2> QED
    BY <1>3, <1>4, <2>1, <2>2 DEF RequestOK, FreshOK, UpdateOK
<1>9. \A b \in Datasources : BeingSaved(b) => BeingSaved(b)'
  BY <1>1, <1>4 DEF BeingSaved
<1>10. ~Changing(r)'
  BY <1>3, <1>4 DEF Changing
<1> QED
  BY <1>1, <1>3, <1>4, <1>5, <1>6, <1>7, <1>8, <1>9, <1>10, KeepsTables

\* What becomes of a request that has read everything.
LEMMA LoadedTyped ==
    ASSUME NEW q \in Request, q.op \in {"update", "test", "connect"}, q.row \in Row, NEW s \in Maybe(SshRow)
    PROVE  LET l == Loaded(q, s) IN
           /\ l \in Request
           /\ \/ l = Idle
              \/ l.op = q.op /\ l.ds = q.ds /\ l.row = q.row /\ l.input = q.input
           /\ l.op = "update" =>
                /\ l.pc = "test" /\ Valid(l.config) /\ l.config.host \in Hosts
                /\ l.config = Merged(q.input, Current(q.row, q.sec, s))
           /\ l.op = "test" => l.pc \in {"test", "outcome"}
           /\ l.op = "connect" => /\ l.pc = "test" /\ l.config = Resolved(q.row, q.sec, s)
                                  /\ q.row.status # "DISABLED"
<1> DEFINE current == Current(q.row, q.sec, s)
           candidate == Merged(q.input, current)
           l == Loaded(q, s)
<1>1. q.input \in UpdateDatasourceDto /\ q.sec \in [SecretTypes -> Maybe(Secrets)] /\ q.row.host \in Hosts
  BY DEF Request, Row
<1>2. current \in Config /\ current.host \in Hosts
  BY <1>1, CurrentTyped DEF Current
<1>3. candidate \in Config /\ candidate.host \in Hosts /\ Effective(current) \in Config /\ CriticalChange(q.input)
  BY <1>1, <1>2, MergedTyped, EffectiveTyped, InputTyped
<1> HIDE DEF current, candidate
<1>4. Idle.op = "none"
  BY DEF Idle
<1>5. ASSUME NEW config \in Config, NEW e, e = [q EXCEPT !.config = config, !.pc = "test"]
      PROVE  /\ e \in Request /\ e.pc = "test" /\ e.config = config
             /\ e.op = q.op /\ e.ds = q.ds /\ e.row = q.row /\ e.input = q.input
  BY <1>5 DEF Request
<1>6. LET e == [q EXCEPT !.pc = "outcome"] IN
      /\ e \in Request /\ e.pc = "outcome"
      /\ e.op = q.op /\ e.ds = q.ds /\ e.row = q.row /\ e.input = q.input
  BY DEF Request
<1>7. CASE q.op = "update"
  <2>1. CASE ~Valid(candidate)
    BY <1>4, <1>7, <2>1, IdleTyped DEF Loaded, current, candidate
  <2>2. CASE Valid(candidate)
    <3>1. l = [q EXCEPT !.config = candidate, !.pc = "test"]
      BY <1>3, <1>7, <2>2 DEF Loaded, current, candidate
    <3>2. l \in Request /\ l.op = q.op /\ l.ds = q.ds /\ l.row = q.row /\ l.input = q.input
          /\ l.pc = "test" /\ l.config = candidate
      <4> HIDE DEF l
      <4> QED
        BY <1>3, <1>5, <3>1
    <3> QED
      BY <1>3, <1>7, <2>2, <3>2 DEF candidate, current
  <2> QED
    BY <2>1, <2>2
<1>8. CASE q.op # "update"
  <2>1. CASE Resolvable(q.row, q.sec, s) /\ q.row.status # "DISABLED"
    <3>1. l = [q EXCEPT !.config = Effective(current), !.pc = "test"]
      BY <1>8, <2>1 DEF Loaded, current
    <3>2. l \in Request /\ l.op = q.op /\ l.ds = q.ds /\ l.row = q.row /\ l.input = q.input
          /\ l.pc = "test" /\ l.config = Effective(current)
      <4> HIDE DEF l
      <4> QED
        BY <1>3, <1>5, <3>1
    <3> QED
      BY <1>8, <2>1, <3>2 DEF current, Resolved
  <2>2. CASE ~(Resolvable(q.row, q.sec, s) /\ q.row.status # "DISABLED")
    <3>1. l = Failed(q)
      BY <1>8, <2>2 DEF Loaded
    <3>2. CASE q.op = "test"
      <4>1. l = [q EXCEPT !.pc = "outcome"]
        BY <3>1, <3>2 DEF Failed
      <4>2. l \in Request /\ l.op = q.op /\ l.ds = q.ds /\ l.row = q.row /\ l.input = q.input /\ l.pc = "outcome"
        BY <1>6, <4>1
      <4> QED
        BY <3>2, <4>2
    <3>3. CASE q.op # "test"
      BY <1>4, <3>1, <3>3, IdleTyped DEF Failed
    <3> QED
      BY <3>2, <3>3
  <2> QED
    BY <2>1, <2>2
<1> QED
  BY <1>7, <1>8

\* A request that has read on, and everything else unchanged.
LEMMA ReadsOn ==
    ASSUME DInv, NEW r \in Requests, requests[r].op \in {"update", "test", "connect"},
           requests[r].pc \in {"secrets", "ssh"},
           requests' \in [Requests -> Request],
           \A s \in Requests \ {r} : requests'[s] = requests[s],
           UNCHANGED <<Tables, Connections, calls, tested, contended>>,
           requests'[r] = Idle \/ (requests'[r].op = requests[r].op /\ requests'[r].ds = requests[r].ds),
           RequestOK(r)'
    PROVE  DInv'
<1>1. UNCHANGED <<rows, ssh, secrets, connection, blocked, calls, tested, contended>>
  BY DEF Tables, Connections
<1>2. TypeOK'
  BY <1>1 DEF DInv, TypeOK
<1>3. \A b \in Datasources : Exists(b)' = Exists(b)
  BY <1>1 DEF Exists
<1>4. \A b \in Datasources : BeingSaved(b) => BeingSaved(b)'
  BY DEF BeingSaved
<1>5. requests'[r].ds \in {requests[r].ds, None} /\ (Changing(r)' => Changing(r) /\ requests'[r].ds = requests[r].ds)
  BY DEF Idle, Changing
<1> QED
  BY <1>1, <1>2, <1>3, <1>4, <1>5, KeepsTables

\* What is loaded comes from the tables as they are, unless somebody else
\* changes them.
LEMMA LoadedOK ==
    ASSUME DInv, NEW r \in Requests, requests[r].op \in {"update", "test", "connect"},
           requests[r].pc \in {"secrets", "ssh"},
           NEW q \in Request, NEW s \in Maybe(SshRow),
           q.op = requests[r].op, q.ds = requests[r].ds, q.row = requests[r].row, q.input = requests[r].input,
           /\ q.op = "update" \/ (q.op = "connect" /\ Exists(q.ds) /\ ~BeingSaved(q.ds))
           /\ q.ds \notin contended
           => Current(q.row, q.sec, s) = Current(q.row, secrets[q.ds], ssh[q.ds]),
           Goto(r, Loaded(q, s)),
           UNCHANGED <<Tables, Connections, calls, tested, contended>>
    PROVE  DInv'
<1> DEFINE n == Loaded(q, s)
           d == q.ds
<1>1. UNCHANGED <<rows, ssh, secrets, contended, tested>>
  BY DEF Tables
<1>2. RequestOK(r) /\ TypeOK
  BY DEF DInv
<1>3. q.row \in Row /\ d \in Datasources
  BY <1>2 DEF RequestOK, ReqOK
<1>4. /\ n \in Request
      /\ n = Idle \/ (n.op = q.op /\ n.ds = d /\ n.row = q.row /\ n.input = q.input)
      /\ n.op = "update" => /\ n.pc = "test" /\ Valid(n.config) /\ n.config.host \in Hosts
                            /\ n.config = Merged(q.input, Current(q.row, q.sec, s))
      /\ n.op = "test" => n.pc \in {"test", "outcome"}
      /\ n.op = "connect" => /\ n.pc = "test" /\ n.config = Resolved(q.row, q.sec, s)
                             /\ q.row.status # "DISABLED"
  BY <1>3, LoadedTyped
<1> HIDE DEF n
<1>5. Goto(r, n)
  BY DEF n
<1>6. requests' \in [Requests -> Request] /\ requests'[r] = n /\ \A t \in Requests \ {r} : requests'[t] = requests[t]
  BY <1>2, <1>4, <1>5, Going
<1>7. CASE n = Idle
  BY <1>6, <1>7, IdleOK, ReadsOn
<1>8. CASE n # Idle
  <2>1. ReqOK(r)'
    BY <1>3, <1>4, <1>6, <1>8 DEF ReqOK, Awaits
  <2>2. FreshOK(r)'
    BY <1>4, <1>6, <1>8 DEF FreshOK
  <2>3. UpdateOK(r)'
    <3>1. SUFFICES ASSUME n.op = "update", d \notin contended
                   PROVE  UpdateOK(r)'
      BY <1>1, <1>4, <1>6, <1>8 DEF UpdateOK
    <3>2. Exists(d)
      BY <1>2, <1>4, <1>8, <3>1 DEF RequestOK, UpdateOK
    <3>3. n.config = Merged(n.input, Current(n.row, secrets[d], ssh[d]))
      BY <1>4, <1>8, <3>1
    <3> QED
      BY <1>1, <1>4, <1>6, <1>8, <3>1, <3>2, <3>3 DEF UpdateOK, Exists
  <2>4. ConnectOK(r)'
    <3>1. SUFFICES ASSUME n.op = "connect", Exists(d), d \notin contended, ~BeingSaved(d)'
                   PROVE  ConnectOK(r)'
      BY <1>1, <1>4, <1>6, <1>8 DEF ConnectOK, Exists, BeingSaved
    <3>2. ~BeingSaved(d)
      BY <1>6, <3>1 DEF BeingSaved
    <3>3. /\ n.row.mode = rows[d].mode /\ n.row.host = rows[d].host
          /\ n.row.status # "DISABLED" => rows[d].status # "DISABLED"
      BY <1>2, <1>4, <1>8, <3>1, <3>2 DEF RequestOK, ConnectOK
    <3>4. n.config = Resolved(rows[d], secrets[d], ssh[d])
      <4>1. n.config = Resolved(n.row, secrets[d], ssh[d])
        BY <1>4, <1>8, <3>1, <3>2 DEF Resolved
      <4> QED
        BY <3>3, <4>1, OnlyModeAndHost
    <3> QED
      BY <1>1, <1>4, <1>6, <1>8, <3>1, <3>3, <3>4 DEF ConnectOK
  <2> QED
    BY <1>4, <1>6, <1>8, <2>1, <2>2, <2>3, <2>4, ReadsOn DEF RequestOK
<1> QED
  BY <1>7, <1>8

\* What becomes of a request whose call throws, or has nothing to read.
LEMMA FailedOK ==
    ASSUME DInv, NEW r \in Requests, requests[r].pc \in {"secrets", "ssh", "test", "save", "write", "delete"},
           NEW q \in Request, q.op = requests[r].op, q.ds = requests[r].ds, q.row = requests[r].row,
           Goto(r, Failed(q)),
           UNCHANGED <<Tables, Connections, calls, tested, contended>>
    PROVE  DInv'
<1> DEFINE n == Failed(q)
<1>1. UNCHANGED <<rows, ssh, secrets, connection, blocked, calls, tested, contended>>
  BY DEF Tables, Connections
<1>2. TypeOK /\ RequestOK(r)
  BY DEF DInv
<1>3. n \in Request /\ (n = Idle \/ (n.op = "test" /\ n.pc = "outcome" /\ n.op = q.op /\ n.ds = q.ds /\ n.row = q.row))
  BY IdleTyped DEF Failed, Request
<1> HIDE DEF n
<1>4. requests' \in [Requests -> Request] /\ requests'[r] = n /\ \A t \in Requests \ {r} : requests'[t] = requests[t]
  <2>1. Goto(r, n)
    BY DEF n
  <2> QED
    BY <1>2, <1>3, <2>1, Going
<1>5. RequestOK(r)'
  <2>1. CASE n = Idle
    BY <1>4, <2>1, IdleOK
  <2>2. CASE n # Idle
    BY <1>2, <1>3, <1>4, <2>2 DEF RequestOK, ReqOK, FreshOK, UpdateOK, ConnectOK, Awaits
  <2> QED
    BY <2>1, <2>2
<1>6. TypeOK'
  BY <1>1, <1>2, <1>4 DEF TypeOK
<1>7. \A b \in Datasources : Exists(b)' = Exists(b)
  BY <1>1 DEF Exists
<1>8. \A b \in Datasources : BeingSaved(b) => BeingSaved(b)'
  BY <1>4 DEF BeingSaved
<1>9. requests'[r].ds \in {requests[r].ds, None} /\ ~Changing(r)'
  BY <1>3, <1>4 DEF Idle, Changing
<1> QED
  BY <1>1, <1>4, <1>5, <1>6, <1>7, <1>8, <1>9, KeepsTables

\* A call throws.
LEMMA ThrowsStep ==
    ASSUME DInv, NEW r \in Requests, Throws(r)
    PROVE  DInv'
<1>1. requests[r] \in Request
  BY DEF DInv, TypeOK
<1> QED
  BY <1>1, FailedOK DEF Throws

\* The secrets are read, and for a direct datasource nothing else.
LEMMA ReadSecretsStep ==
    ASSUME DInv, NEW r \in Requests, ReadSecrets(r)
    PROVE  DInv'
<1>1. TypeOK /\ RequestOK(r) /\ requests[r].pc = "secrets"
  BY DEF DInv, ReadSecrets
<1>2. requests[r].op \in {"update", "test", "connect"}
  BY <1>1 DEF RequestOK, ReqOK, Awaits, TypeOK, Request
<1>3. requests[r].ds \in Datasources /\ requests[r].row \in Row /\ requests[r] \in Request
  BY <1>1, <1>2 DEF RequestOK, ReqOK, TypeOK
<1> DEFINE d == requests[r].ds
<1>4. PICK q \in Request : q = [requests[r] EXCEPT !.sec = secrets[d]]
  BY <1>1, <1>3 DEF TypeOK, Request
<1>5. /\ q.sec = secrets[d] /\ q.op = requests[r].op /\ q.ds = d /\ q.row = requests[r].row
      /\ q.input = requests[r].input /\ q.pc = "secrets"
  BY <1>1, <1>3, <1>4 DEF Request
<1>6. /\ UNCHANGED <<Tables, Connections, calls, tested, contended>>
      /\ Goto(r, IF secrets[d]["DATABASE_PASSWORD"] = None THEN Failed(q)
                 ELSE IF q.row.mode = "SSH_TUNNEL" THEN [q EXCEPT !.pc = "ssh"]
                 ELSE Loaded(q, None))
  BY <1>4 DEF ReadSecrets
<1>7. CASE secrets[d]["DATABASE_PASSWORD"] = None
  <2>1. Goto(r, Failed(q))
    BY <1>6, <1>7
  <2> QED
    BY <1>1, <1>5, <1>6, <2>1, FailedOK
<1>8. CASE secrets[d]["DATABASE_PASSWORD"] # None /\ q.row.mode # "SSH_TUNNEL"
  <2>1. Goto(r, Loaded(q, None))
    BY <1>6, <1>8
  <2>2. Current(q.row, q.sec, None) = Current(q.row, secrets[d], ssh[d])
    BY <1>5, <1>8, DirectCurrent
  <2> QED
    BY <1>1, <1>2, <1>5, <1>6, <2>1, <2>2, LoadedOK
<1>9. CASE secrets[d]["DATABASE_PASSWORD"] # None /\ q.row.mode = "SSH_TUNNEL"
  <2>1. PICK n \in Request : n = [q EXCEPT !.pc = "ssh"]
    BY DEF Request
  <2>2. n.pc = "ssh" /\ n.op = q.op /\ n.ds = d /\ n.row = q.row /\ n.input = q.input /\ n.sec = secrets[d]
    BY <1>5, <2>1 DEF Request
  <2>3. Goto(r, n)
    BY <1>6, <1>9, <2>1
  <2>4. requests' \in [Requests -> Request] /\ requests'[r] = n /\ \A t \in Requests \ {r} : requests'[t] = requests[t]
    BY <1>1, <2>3, Going
  <2>5. UNCHANGED <<rows, ssh, secrets, connection, tested, contended>>
    BY <1>6 DEF Tables, Connections
  <2>6. ReqOK(r)' /\ FreshOK(r)'
    BY <1>2, <1>3, <1>5, <2>2, <2>4 DEF ReqOK, FreshOK, Awaits
  <2>7. UpdateOK(r)'
    BY <1>1, <1>5, <2>2, <2>4, <2>5 DEF RequestOK, UpdateOK, Exists
  <2>8. ConnectOK(r)'
    <3>1. BeingSaved(d) => BeingSaved(d)'
      BY <1>1, <2>2, <2>4 DEF BeingSaved
    <3> QED
      BY <1>1, <1>5, <2>2, <2>4, <2>5, <3>1 DEF RequestOK, ConnectOK, Exists, BeingSaved
  <2> QED
    BY <1>1, <1>2, <1>5, <1>6, <2>2, <2>4, <2>6, <2>7, <2>8, ReadsOn DEF RequestOK
<1> QED
  BY <1>7, <1>8, <1>9

\* The SSH configuration is read.
LEMMA ReadSshStep ==
    ASSUME DInv, NEW r \in Requests, ReadSsh(r)
    PROVE  DInv'
<1>1. TypeOK /\ RequestOK(r) /\ requests[r].pc = "ssh"
  BY DEF DInv, ReadSsh
<1>2. requests[r].op \in {"update", "test", "connect"}
  BY <1>1 DEF RequestOK, ReqOK, Awaits, TypeOK, Request
<1> DEFINE q == requests[r]
           d == q.ds
<1>3. d \in Datasources /\ q \in Request
  BY <1>1, <1>2 DEF RequestOK, ReqOK, TypeOK
<1>4. ssh[d] \in Maybe(SshRow)
  BY <1>1, <1>3 DEF TypeOK
<1>5. /\ UNCHANGED <<Tables, Connections, calls, tested, contended>>
      /\ Goto(r, Loaded(q, ssh[d]))
  BY DEF ReadSsh
<1>6. q.op = "update" /\ d \notin contended => q.sec = secrets[d]
  BY <1>1 DEF RequestOK, UpdateOK
<1>7. q.op = "connect" /\ Exists(d) /\ d \notin contended /\ ~BeingSaved(d) => q.sec = secrets[d]
  BY <1>1 DEF RequestOK, ConnectOK
<1> QED
  BY <1>1, <1>2, <1>3, <1>4, <1>5, <1>6, <1>7, LoadedOK

\* A candidate passes its test, or an initialization registers a connection.
LEMMA PassesStep ==
    ASSUME DInv, NEW r \in Requests, Passes(r)
    PROVE  DInv'
<1>1. TypeOK /\ RequestOK(r) /\ requests[r].pc = "test" /\ requests[r] \in Request
  BY DEF DInv, Passes, TypeOK
<1>2. requests[r].op \in {"create", "update", "test", "connect"} /\ requests[r].ds \in Datasources
  BY <1>1 DEF RequestOK, ReqOK, Awaits, Request
<1>3. UNCHANGED <<rows, ssh, secrets, blocked, calls, contended>>
  BY DEF Passes, Tables
<1>4. requests[r].config \in Config /\ Effective(requests[r].config) \in Config
  BY <1>1, EffectiveTyped DEF Request
<1>5. \A b \in Datasources : Exists(b)' = Exists(b)
  BY <1>3 DEF Exists
<1>6. CASE requests[r].op \in {"create", "update"}
  <2>1. /\ tested' = tested \cup {Effective(requests[r].config)} /\ UNCHANGED connection
        /\ Goto(r, [requests[r] EXCEPT !.pc = "save"])
    BY <1>6 DEF Passes
  <2>2. PICK n \in Request : n = [requests[r] EXCEPT !.pc = "save"]
    BY <1>1 DEF Request
  <2>3. /\ n.pc = "save" /\ n.op = requests[r].op /\ n.ds = requests[r].ds /\ n.row = requests[r].row
        /\ n.input = requests[r].input /\ n.config = requests[r].config
    BY <1>1, <2>2 DEF Request
  <2>4. requests' \in [Requests -> Request] /\ requests'[r] = n /\ \A t \in Requests \ {r} : requests'[t] = requests[t]
    BY <1>1, <2>1, <2>2, Going
  <2>5. ReqOK(r)'
    BY <1>1, <1>2, <1>6, <2>1, <2>3, <2>4 DEF RequestOK, ReqOK, Awaits
  <2>6. FreshOK(r)'
    BY <1>1, <1>3, <2>1, <2>3, <2>4 DEF RequestOK, FreshOK, Exists
  <2>7. UpdateOK(r)'
    BY <1>1, <1>3, <2>3, <2>4 DEF RequestOK, UpdateOK, Exists
  <2>8. ConnectOK(r)'
    BY <1>6, <2>3, <2>4 DEF ConnectOK
  <2>9. TypeOK'
    BY <1>1, <1>3, <1>4, <2>1, <2>4 DEF TypeOK
  <2>10. \A b \in Datasources : BeingSaved(b) => BeingSaved(b)'
    BY <1>1, <2>4 DEF BeingSaved
  <2>11. requests'[r].ds = requests[r].ds /\ (Changing(r)' => Changing(r))
    BY <2>3, <2>4 DEF Changing
  <2> QED
    BY <1>3, <1>5, <2>1, <2>4, <2>5, <2>6, <2>7, <2>8, <2>9, <2>10, <2>11, KeepsTables DEF RequestOK
<1>7. CASE requests[r].op = "test"
  <2>1. /\ UNCHANGED <<connection, tested>>
        /\ Goto(r, [requests[r] EXCEPT !.pc = "outcome", !.passed = TRUE])
    BY <1>7 DEF Passes
  <2>2. PICK n \in Request : n = [requests[r] EXCEPT !.pc = "outcome", !.passed = TRUE]
    BY <1>1 DEF Request
  <2>3. n.pc = "outcome" /\ n.op = "test" /\ n.ds = requests[r].ds /\ n.row = requests[r].row
    BY <1>1, <1>7, <2>2 DEF Request
  <2>4. requests' \in [Requests -> Request] /\ requests'[r] = n /\ \A t \in Requests \ {r} : requests'[t] = requests[t]
    BY <1>1, <2>1, <2>2, Going
  <2>5. RequestOK(r)'
    BY <1>1, <1>7, <2>3, <2>4 DEF RequestOK, ReqOK, FreshOK, UpdateOK, ConnectOK, Awaits
  <2>6. TypeOK'
    BY <1>1, <1>3, <2>1, <2>4 DEF TypeOK
  <2>7. \A b \in Datasources : BeingSaved(b) => BeingSaved(b)'
    BY <1>1, <2>4 DEF BeingSaved
  <2>8. requests'[r].ds = requests[r].ds /\ ~Changing(r)'
    BY <2>3, <2>4 DEF Changing
  <2> QED
    BY <1>3, <1>5, <2>1, <2>4, <2>5, <2>6, <2>7, <2>8, KeepsTables
<1>8. CASE requests[r].op = "connect"
  <2>1. /\ connection' = [connection EXCEPT ![requests[r].ds] = requests[r].config] /\ UNCHANGED tested
        /\ Goto(r, Idle)
    BY <1>8 DEF Passes, End
  <2>2. requests' \in [Requests -> Request] /\ requests'[r] = Idle /\ \A t \in Requests \ {r} : requests'[t] = requests[t]
    BY <1>1, <2>1, IdleTyped, Going
  <2>3. RequestOK(r)'
    BY <2>2, IdleOK
  <2>4. \A b \in Datasources : \/ connection'[b] = connection[b]
                               \/ b = requests[r].ds /\ connection'[b] = requests[r].config
    BY <1>1, <2>1 DEF TypeOK
  <2>5. connection' \in [Datasources -> Maybe(Config)]
    BY <1>1, <1>4, <2>1 DEF TypeOK
  <2>6. TypeOK'
    BY <1>1, <1>3, <2>1, <2>2, <2>5 DEF TypeOK
  <2>7. \A b \in Datasources : BeingSaved(b) => BeingSaved(b)'
    BY <1>1, <2>2 DEF BeingSaved
  <2>8. requests'[r].ds = None /\ ~Changing(r)'
    BY <2>2 DEF Changing, Idle
  <2> QED
    BY <1>1, <1>3, <1>5, <1>8, <2>1, <2>2, <2>3, <2>4, <2>6, <2>7, <2>8, KeepsTables
<1> QED
  BY <1>2, <1>6, <1>7, <1>8

\* invalidateDatasource blocks new initializations.
LEMMA BlockStep ==
    ASSUME DInv, NEW r \in Requests, Block(r)
    PROVE  DInv'
<1>1. TypeOK /\ RequestOK(r) /\ requests[r].pc = "saved" /\ requests[r] \in Request
  BY DEF DInv, Block, TypeOK
<1>2. requests[r].op \in {"update", "remove"} /\ requests[r].ds \in Datasources
  BY <1>1 DEF RequestOK, ReqOK, Awaits, Request
<1>3. UNCHANGED <<rows, ssh, secrets, connection, calls, tested, contended>> /\ blocked' \subseteq Datasources
  BY <1>1, <1>2 DEF Block, Tables, TypeOK
<1>4. PICK n \in Request : n = [requests[r] EXCEPT !.pc = "invalidate"]
  BY <1>1 DEF Request
<1>5. n.pc = "invalidate" /\ n.op = requests[r].op /\ n.ds = requests[r].ds /\ n.row = requests[r].row
  BY <1>1, <1>4 DEF Request
<1>6. requests' \in [Requests -> Request] /\ requests'[r] = n /\ \A t \in Requests \ {r} : requests'[t] = requests[t]
  BY <1>1, <1>4, Going DEF Block
<1>7. RequestOK(r)'
  BY <1>1, <1>2, <1>5, <1>6 DEF RequestOK, ReqOK, FreshOK, UpdateOK, ConnectOK, Awaits
<1>8. TypeOK'
  BY <1>1, <1>3, <1>6 DEF TypeOK
<1>9. \A b \in Datasources : Exists(b)' = Exists(b)
  BY <1>3 DEF Exists
<1>10. \A b \in Datasources : BeingSaved(b) => BeingSaved(b)'
  BY <1>1, <1>5, <1>6 DEF BeingSaved
<1>11. requests'[r].ds = requests[r].ds /\ (Changing(r)' => Changing(r))
  BY <1>5, <1>6 DEF Changing
<1> QED
  BY <1>3, <1>6, <1>7, <1>8, <1>9, <1>10, <1>11, KeepsTables

\* The initialization in flight is over, and what it registered is closed.
LEMMA InvalidateStep ==
    ASSUME DInv, NEW r \in Requests, Invalidate(r)
    PROVE  DInv'
<1> DEFINE d == requests[r].ds
<1>1. TypeOK /\ RequestOK(r) /\ requests[r].pc = "invalidate" /\ requests[r] \in Request
  BY DEF DInv, Invalidate, TypeOK
<1>2. requests[r].op \in {"update", "remove"} /\ d \in Datasources
  BY <1>1 DEF RequestOK, ReqOK, Awaits, Request
<1>3. /\ UNCHANGED <<rows, ssh, secrets, calls, tested, contended>> /\ blocked' \subseteq Datasources
      /\ connection' = [connection EXCEPT ![d] = None] /\ ~Initializing(d)
  BY <1>1, <1>2 DEF Invalidate, Tables, TypeOK
<1>4. PICK n \in Request : /\ Goto(r, n)
                           /\ \/ n = Idle
                              \/ requests[r].op = "remove" /\ n = [requests[r] EXCEPT !.pc = "delete"]
  <2>1. [requests[r] EXCEPT !.pc = "delete"] \in Request
    BY <1>1 DEF Request
  <2> QED
    BY <2>1, IdleTyped DEF Invalidate, End
<1>5. \/ n = Idle
      \/ n.op = "remove" /\ n.op = requests[r].op /\ n.pc = "delete" /\ n.ds = d
  BY <1>1, <1>4 DEF Request
<1>6. requests' \in [Requests -> Request] /\ requests'[r] = n /\ \A t \in Requests \ {r} : requests'[t] = requests[t]
  BY <1>1, <1>4, Going
<1>7. RequestOK(r)'
  <2>1. CASE n = Idle
    BY <1>6, <2>1, IdleOK
  <2>2. CASE n # Idle
    BY <1>2, <1>5, <1>6, <2>2 DEF RequestOK, ReqOK, FreshOK, UpdateOK, ConnectOK, Awaits
  <2> QED
    BY <2>1, <2>2
<1>8. connection' \in [Datasources -> Maybe(Config)]
  BY <1>1, <1>3 DEF TypeOK
<1>9. TypeOK'
  BY <1>1, <1>3, <1>6, <1>8 DEF TypeOK
<1>10. \A b \in Datasources : Exists(b)' = Exists(b)
  BY <1>3 DEF Exists
<1>11. connection'[d] = None /\ \A b \in Datasources : connection'[b] \in {connection[b], None}
  BY <1>1, <1>2, <1>3 DEF TypeOK
<1>12. \A b \in Datasources : BeingSaved(b) => BeingSaved(b)' \/ b = requests[r].ds
  BY <1>6 DEF BeingSaved
<1>13. \A b \in Datasources : BeingSaved(b) => BeingSaved(b)' \/ (~Initializing(b) /\ connection'[b] = None)
  BY <1>3, <1>11, <1>12
<1>14. requests'[r].ds \in {d, None} /\ (Changing(r)' => Changing(r) /\ requests'[r].ds = requests[r].ds)
  BY <1>5, <1>6 DEF Changing, Idle
<1> QED
  BY <1>3, <1>6, <1>7, <1>9, <1>10, <1>11, <1>13, <1>14, KeepsTables

\* testSaved writes its outcome: of the tables, only status and error change.
LEMMA OutcomeStep ==
    ASSUME DInv, NEW r \in Requests, Outcome(r)
    PROVE  DInv'
<1> DEFINE d == requests[r].ds
<1>1. TypeOK /\ RequestOK(r) /\ requests[r].pc = "outcome" /\ requests[r] \in Request
  BY DEF DInv, Outcome, TypeOK
<1>2. requests[r].op = "test" /\ d \in Datasources
  BY <1>1 DEF RequestOK, ReqOK, Awaits, Request
<1>3. UNCHANGED <<ssh, secrets, connection, blocked, calls, tested, contended>>
  BY DEF Outcome, Connections
<1>4. PICK n \in Request : Goto(r, n) /\ (n = Idle \/ n = [requests[r] EXCEPT !.passed = FALSE])
  <2>1. [requests[r] EXCEPT !.passed = FALSE] \in Request
    BY <1>1 DEF Request
  <2> QED
    BY <2>1, IdleTyped DEF Outcome, End
<1>5. \/ n = Idle
      \/ n.op = "test" /\ n.pc = "outcome" /\ n.ds = d /\ n.row = requests[r].row
  BY <1>1, <1>2, <1>4 DEF Request
<1>6. requests' \in [Requests -> Request] /\ requests'[r] = n /\ \A t \in Requests \ {r} : requests'[t] = requests[t]
  BY <1>1, <1>4, Going
<1>7. RequestOK(r)'
  <2>1. CASE n = Idle
    BY <1>6, <2>1, IdleOK
  <2>2. CASE n # Idle
    BY <1>1, <1>2, <1>5, <1>6, <2>2 DEF RequestOK, ReqOK, FreshOK, UpdateOK, ConnectOK, Awaits
  <2> QED
    BY <2>1, <2>2
<1>8. /\ rows' \in [Datasources -> Row \cup {NoRow}]
      /\ \A b \in Datasources : /\ rows'[b].mode = rows[b].mode /\ rows'[b].host = rows[b].host
                                /\ (rows'[b] # NoRow) <=> (rows[b] # NoRow)
                                /\ rows'[b].status \in {rows[b].status, "ACTIVE", "CONNECTION_FAILED"}
  <2>1. CASE ~Exists(d)
    BY <1>1, <2>1 DEF Outcome, TypeOK
  <2>2. CASE Exists(d)
    <3>1. rows[d] \in Row
      BY <1>1, <1>2, <2>2 DEF TypeOK, Exists
    <3>2. PICK new \in Row : /\ new.mode = rows[d].mode /\ new.host = rows[d].host
                             /\ new.status \in {"ACTIVE", "CONNECTION_FAILED"}
                             /\ rows' = [rows EXCEPT ![d] = new]
      <4> DEFINE status == IF requests[r].passed THEN "ACTIVE" ELSE "CONNECTION_FAILED"
                 new == [rows[d] EXCEPT !.status = status, !.failed = ~requests[r].passed]
      <4>1. rows' = [rows EXCEPT ![d].status = status, ![d].failed = ~requests[r].passed]
        BY <2>2 DEF Outcome
      <4>2. rows' = [rows EXCEPT ![d] = new]
        BY <1>1, <1>2, <3>1, <4>1 DEF TypeOK
      <4>3. new \in Row /\ new.mode = rows[d].mode /\ new.host = rows[d].host /\ new.status = status
        BY <1>1, <3>1 DEF Row, Statuses, Request
      <4> QED
        BY <4>2, <4>3
    <3>3. new # NoRow
      BY DEF Row, NoRow
    <3> QED
      BY <1>1, <1>2, <2>2, <3>2, <3>3 DEF TypeOK, Exists
  <2> QED
    BY <2>1, <2>2
<1>9. TypeOK'
  BY <1>1, <1>3, <1>6, <1>8 DEF TypeOK
<1>10. \A b \in Datasources : Exists(b)' = Exists(b)
  BY <1>8 DEF Exists
<1>11. \A b \in Datasources : BeingSaved(b) => BeingSaved(b)'
  BY <1>1, <1>6 DEF BeingSaved
<1>12. requests'[r].ds \in {d, None} /\ ~Changing(r)'
  BY <1>5, <1>6 DEF Changing, Idle
<1> QED
  BY <1>3, <1>6, <1>7, <1>8, <1>9, <1>10, <1>11, <1>12, KeepsTables

\* A connection that is closed is no longer registered.
LEMMA DropStep ==
    ASSUME DInv, NEW d \in Datasources, Drop(d)
    PROVE  DInv'
<1>1. /\ UNCHANGED <<rows, ssh, secrets, blocked, requests, calls, tested, contended>>
      /\ connection' = [connection EXCEPT ![d] = None]
  BY DEF Drop, Tables
<1>2. TypeOK'
  <2>1. connection' \in [Datasources -> Maybe(Config)]
    BY <1>1 DEF DInv, TypeOK
  <2> QED
    BY <1>1, <2>1 DEF DInv, TypeOK
<1>3. \A b \in Datasources : connection'[b] \in {connection[b], None}
  BY <1>1 DEF DInv, TypeOK
<1>4. \A r \in Requests : RequestOK(r)'
  <2>1. TAKE r \in Requests
  <2>2. RequestOK(r)
    BY DEF DInv
  <2>3. ReqOK(r)' /\ UpdateOK(r)' /\ ConnectOK(r)'
    BY <1>1, <2>2 DEF RequestOK, ReqOK, UpdateOK, ConnectOK, Exists, BeingSaved
  <2>4. FreshOK(r)'
    BY <1>1, <1>3, <2>2 DEF RequestOK, ReqOK, FreshOK, Exists
  <2> QED
    BY <2>3, <2>4 DEF RequestOK
<1>5. OneChange' /\ NoLeftoverSecrets' /\ SavedWasTested'
  BY <1>1 DEF DInv, OneChange, NoLeftoverSecrets, SavedWasTested, Changing, Exists
<1>6. ConnectionIsCurrent'
  BY <1>1, <1>3 DEF DInv, ConnectionIsCurrent, Exists, BeingSaved
<1> QED
  BY <1>2, <1>4, <1>5, <1>6 DEF DInv

\* A transaction that rewrites one datasource disturbs no other, and the
\* requests on the same one either change it too, and it is contended, or wait
\* for the invalidation, or find it gone.
LEMMA WritesOne ==
    ASSUME DInv, TypeOK', NEW r \in Requests, RequestOK(r)',
           \A s \in Requests \ {r} : requests'[s] = requests[s],
           NEW d \in Datasources, requests[r].ds = d,
           \A b \in Datasources \ {d} : rows'[b] = rows[b] /\ ssh'[b] = ssh[b] /\ secrets'[b] = secrets[b],
           UNCHANGED <<connection, tested, contended>>,
           requests'[r].ds \in {d, None},
           Changing(r)' => Changing(r) /\ requests'[r].ds = d,
           \A b \in Datasources : BeingSaved(b) => BeingSaved(b)',
           \/ \A s \in Requests \ {r} : requests[s].ds # d
           \/ Changing(r) /\ (~Exists(d)' \/ BeingSaved(d)'),
           rows'[d].mode = "DIRECT" /\ (Exists(d)' => d \notin contended) => ssh'[d] = None,
           Tidy(secrets'[d], ssh'[d]),
           Exists(d)' /\ d \notin contended => /\ Resolvable(rows'[d], secrets'[d], ssh'[d])
                                               /\ Resolved(rows'[d], secrets'[d], ssh'[d]) \in tested,
           ~Exists(d)' \/ BeingSaved(d)' \/ connection[d] = None
    PROVE  DInv'
<1>1. ASSUME NEW s \in Requests \ {r} PROVE RequestOK(s)'
  <2>1. requests'[s] = requests[s] /\ RequestOK(s)
    BY DEF DInv
  <2>2. ReqOK(s)'
    BY <2>1 DEF RequestOK, ReqOK
  <2>3. CASE requests[s].ds # d
    <3>1. requests[s].op # "none" => requests[s].ds \in Datasources \ {d}
      BY <2>1, <2>3 DEF RequestOK, ReqOK
    <3>2. FreshOK(s)' /\ UpdateOK(s)'
      BY <2>1, <3>1 DEF RequestOK, FreshOK, UpdateOK, Exists
    <3>3. ConnectOK(s)'
      <4>1. SUFFICES ASSUME requests[s].op = "connect", ~BeingSaved(requests[s].ds)'
                     PROVE  ConnectOK(s)'
        BY <2>1 DEF ConnectOK
      <4>2. ~BeingSaved(requests[s].ds)
        BY <2>1, <3>1, <4>1 DEF BeingSaved
      <4> QED
        BY <2>1, <3>1, <4>1, <4>2 DEF RequestOK, ConnectOK, Exists
    <3> QED
      BY <2>2, <3>2, <3>3 DEF RequestOK
  <2>4. CASE requests[s].ds = d
    <3>1. Changing(r) /\ (~Exists(d)' \/ BeingSaved(d)')
      BY <2>4
    <3>2. FreshOK(s)'
      BY <2>1, <2>4 DEF RequestOK, FreshOK
    <3>3. UpdateOK(s)'
      <4>1. requests[s].op = "update" => d \in contended
        BY <2>4, <3>1 DEF DInv, OneChange, Changing
      <4> QED
        BY <2>1, <2>4, <4>1 DEF UpdateOK
    <3>4. ConnectOK(s)'
      BY <2>1, <2>4, <3>1 DEF ConnectOK, Exists, BeingSaved
    <3> QED
      BY <2>2, <3>2, <3>3, <3>4 DEF RequestOK
  <2> QED
    BY <2>3, <2>4
<1>2. \A s \in Requests : RequestOK(s)'
  BY <1>1
<1>3. OneChange'
  <2>1. \A s \in Requests : Changing(s)' => Changing(s) /\ requests'[s].ds = requests[s].ds
    BY DEF Changing
  <2> QED
    BY <2>1 DEF DInv, OneChange
<1>4. NoLeftoverSecrets'
  <2>1. SUFFICES ASSUME NEW b \in Datasources
                 PROVE  /\ rows'[b].mode = "DIRECT" /\ (Exists(b)' => b \notin contended') => ssh'[b] = None
                        /\ Tidy(secrets'[b], ssh'[b])
    BY DEF NoLeftoverSecrets, Tidy
  <2>2. CASE b # d
    BY <2>2 DEF DInv, NoLeftoverSecrets, Tidy, Exists
  <2> QED
    BY <2>2
<1>5. SavedWasTested'
  BY DEF DInv, SavedWasTested, Exists
<1>6. ConnectionIsCurrent'
  <2>1. SUFFICES ASSUME NEW b \in Datasources, Exists(b)', b \notin contended, ~BeingSaved(b)', connection[b] # None
                 PROVE  /\ connection[b] = Resolved(rows'[b], secrets'[b], ssh'[b])
                        /\ rows'[b].status # "DISABLED"
    BY DEF ConnectionIsCurrent
  <2>2. b # d /\ ~BeingSaved(b)
    BY <2>1
  <2> QED
    BY <2>1, <2>2 DEF DInv, ConnectionIsCurrent, Exists
<1> QED
  BY <1>2, <1>3, <1>4, <1>5, <1>6 DEF DInv

\* A creation saves what it has tested.
LEMMA SaveCreatedStep ==
    ASSUME DInv, NEW r \in Requests, SaveCreated(r)
    PROVE  DInv'
<1>1. TypeOK /\ RequestOK(r) /\ requests[r].pc = "save" /\ requests[r].op = "create"
  BY DEF DInv, SaveCreated
<1>2. PICK d \in Datasources : d = requests[r].ds
  BY <1>1 DEF RequestOK, ReqOK
<1>3. PICK c \in Config : c = requests[r].config
  BY <1>1 DEF TypeOK, Request
<1>4. Valid(c) /\ c.host \in Hosts /\ c.password \in Secrets /\ Effective(c) \in tested
  BY <1>1, <1>3 DEF RequestOK, ReqOK
<1>5. /\ UNCHANGED <<connection, blocked, calls, tested, contended>>
      /\ Goto(r, Idle)
      /\ rows' = [rows EXCEPT ![d] = [mode |-> c.mode, host |-> c.host, status |-> "ACTIVE", failed |-> FALSE]]
      /\ ssh' = [ssh EXCEPT ![d] = SshConfig(c)]
      /\ secrets' = [secrets EXCEPT ![d] = SecretsFromInput(c)]
  BY <1>2, <1>3 DEF SaveCreated, End, Connections
<1>6. PICK row \in Row : row = [mode |-> c.mode, host |-> c.host, status |-> "ACTIVE", failed |-> FALSE]
  BY <1>4 DEF Row, Config, Statuses
<1>7. SecretsFromInput(c) \in [SecretTypes -> Maybe(Secrets)]
  BY <1>4, CreatedSecrets
<1>8. SshConfig(c) \in Maybe(SshRow)
  BY DEF SshConfig, SshRow, Config, SshInput
<1>9. rows'[d] = row /\ ssh'[d] = SshConfig(c) /\ secrets'[d] = SecretsFromInput(c)
  BY <1>1, <1>5, <1>6 DEF TypeOK
<1>10. requests' \in [Requests -> Request] /\ requests'[r] = Idle /\ \A t \in Requests \ {r} : requests'[t] = requests[t]
  BY <1>1, <1>5, IdleTyped, Going
<1>11. TypeOK'
  BY <1>1, <1>5, <1>6, <1>7, <1>8, <1>10 DEF TypeOK
<1>12. connection[d] = None /\ \A s \in Requests \ {r} : requests[s].ds # d
  BY <1>1, <1>2 DEF RequestOK, FreshOK
<1>13. /\ Resolvable(row, SecretsFromInput(c), SshConfig(c))
       /\ Resolved(row, SecretsFromInput(c), SshConfig(c)) \in tested
  <2>1. row.mode = c.mode /\ row.host = c.host /\ c.password # None
    BY <1>4, <1>6
  <2> QED
    BY <1>4, <1>7, <2>1, CreatedSecrets, SpelledOut
<1>14. (rows'[d].mode = "DIRECT" => ssh'[d] = None) /\ Tidy(secrets'[d], ssh'[d])
  <2>1. rows'[d].mode = c.mode
    BY <1>6, <1>9
  <2> QED
    BY <1>4, <1>9, <2>1, CreationIsTidy
<1>15. \A b \in Datasources : BeingSaved(b) => BeingSaved(b)'
  BY <1>1, <1>10 DEF BeingSaved
<1>16. requests'[r].ds = None /\ ~Changing(r)'
  BY <1>10 DEF Idle, Changing
<1>17. \A b \in Datasources \ {d} : rows'[b] = rows[b] /\ ssh'[b] = ssh[b] /\ secrets'[b] = secrets[b]
  BY <1>1, <1>5 DEF TypeOK
<1> QED
  BY <1>2, <1>5, <1>9, <1>10, <1>11, <1>12, <1>13, <1>14, <1>15, <1>16, <1>17, IdleOK, WritesOne

\* The row that an update leaves: as tested, unless another change came between.
LEMMA RowAfterOK ==
    ASSUME DInv, NEW r \in Requests, requests[r].op = "update", requests[r].pc = "write",
           NEW d \in Datasources, d = requests[r].ds
    PROVE  LET row == RowAfter(requests[r], rows[d])
               c == requests[r].config IN
           /\ row \in Row \cup {NoRow}
           /\ d \notin contended => row \in Row /\ row.mode = c.mode /\ row.host = c.host
<1> DEFINE q == requests[r]
           entity == EntityOf(q)
           row == RowAfter(q, rows[d])
<1>1. TypeOK /\ RequestOK(r) /\ q \in Request /\ rows[d] \in Row \cup {NoRow}
  BY DEF DInv, TypeOK
<1>2. q.row \in Row /\ q.config \in Config /\ q.input \in UpdateDatasourceDto /\ q.stored \in Row \cup {NoRow}
  BY <1>1 DEF RequestOK, ReqOK, Request
<1>3. q.config.host \in Hosts
  BY <1>1 DEF RequestOK, ReqOK
<1>4. entity \in Row /\ entity.mode = q.config.mode /\ entity.host = q.config.host
  BY <1>2, <1>3, InputTyped DEF EntityOf, Row, Config, Statuses, Or
<1>5. NoRow \notin Row
  BY DEF NoRow, Row
<1> HIDE DEF q, entity
<1>6. ASSUME rows[d] \in Row
      PROVE  LET w == Written(entity, q.stored, rows[d]) IN
             /\ w \in Row
             /\ q.stored.mode = rows[d].mode => w.mode = entity.mode
             /\ q.stored.host = rows[d].host => w.host = entity.host
  <2>1. DOMAIN entity = {"mode", "host", "status", "failed"}
    BY <1>4 DEF Row
  <2>2. PICK w : w = Written(entity, q.stored, rows[d])
    OBVIOUS
  <2>3. /\ w = [column \in {"mode", "host", "status", "failed"} |-> w[column]]
        /\ w.mode = IF entity.mode = q.stored.mode THEN rows[d].mode ELSE entity.mode
        /\ w.host = IF entity.host = q.stored.host THEN rows[d].host ELSE entity.host
        /\ w.status \in {rows[d].status, entity.status} /\ w.failed \in {rows[d].failed, entity.failed}
    BY <2>1, <2>2 DEF Written
  <2>4. w = [mode |-> w.mode, host |-> w.host, status |-> w.status, failed |-> w.failed]
    BY <2>3
  <2>5. w \in Row
    BY <1>4, <1>6, <2>3, <2>4 DEF Row
  <2> QED
    BY <2>2, <2>3, <2>5
<1>7. row = IF q.stored = NoRow THEN entity
            ELSE IF rows[d] = NoRow THEN NoRow ELSE Written(entity, q.stored, rows[d])
  BY DEF row, RowAfter, entity
<1> HIDE DEF row
<1>8. row \in Row \cup {NoRow}
  BY <1>1, <1>4, <1>6, <1>7
<1>9. ASSUME d \notin contended
      PROVE  row \in Row /\ row.mode = q.config.mode /\ row.host = q.config.host
  <2>1. rows[d] # NoRow /\ q.stored # NoRow /\ q.stored.mode = rows[d].mode /\ q.stored.host = rows[d].host
    BY <1>1, <1>9 DEF RequestOK, UpdateOK, Exists, q
  <2> QED
    BY <1>1, <1>4, <1>6, <1>7, <2>1
<1> QED
  BY <1>8, <1>9 DEF row, q

\* save() reads the row again, and the update goes on.
LEMMA ReadStoredStep ==
    ASSUME DInv, NEW r \in Requests, ReadStored(r)
    PROVE  DInv'
<1>1. TypeOK /\ RequestOK(r) /\ requests[r] \in Request /\ requests[r].pc = "save" /\ requests[r].op = "update"
  BY DEF DInv, TypeOK, ReadStored
<1>2. PICK d \in Datasources : d = requests[r].ds
  BY <1>1 DEF RequestOK, ReqOK
<1>3. PICK n \in Request : n = [requests[r] EXCEPT !.pc = "write", !.stored = rows[d]]
  BY <1>1, <1>2 DEF TypeOK, Request
<1>4. /\ n.pc = "write" /\ n.op = "update" /\ n.ds = d /\ n.stored = rows[d] /\ n.row = requests[r].row
      /\ n.config = requests[r].config /\ n.input = requests[r].input
  BY <1>1, <1>2, <1>3 DEF Request
<1>5. Goto(r, n) /\ UNCHANGED <<rows, ssh, secrets, connection, blocked, calls, tested, contended>>
  BY <1>2, <1>3 DEF ReadStored, Tables, Connections
<1>6. requests' \in [Requests -> Request] /\ requests'[r] = n /\ \A t \in Requests \ {r} : requests'[t] = requests[t]
  BY <1>1, <1>5, Going
<1>7. TypeOK'
  BY <1>1, <1>5, <1>6 DEF TypeOK
<1>8. ReqOK(r)'
  BY <1>1, <1>2, <1>4, <1>5, <1>6 DEF RequestOK, ReqOK, Awaits
<1>9. UpdateOK(r)'
  BY <1>1, <1>2, <1>4, <1>5, <1>6 DEF RequestOK, UpdateOK, Exists
<1>10. FreshOK(r)' /\ ConnectOK(r)'
  BY <1>4, <1>6 DEF FreshOK, ConnectOK
<1>11. RequestOK(r)'
  BY <1>8, <1>9, <1>10 DEF RequestOK
<1>12. \A b \in Datasources : BeingSaved(b) => BeingSaved(b)'
  BY <1>1, <1>6 DEF BeingSaved
<1>13. \A b \in Datasources : Exists(b)' = Exists(b)
  BY <1>5 DEF Exists
<1>14. Changing(r) /\ requests'[r].ds = requests[r].ds
  BY <1>1, <1>2, <1>4, <1>6 DEF Changing
<1> QED
  BY <1>5, <1>6, <1>7, <1>11, <1>12, <1>13, <1>14, KeepsTables

\* An update saves what it has tested, unless another change came between.
LEMMA SaveUpdatedStep ==
    ASSUME DInv, NEW r \in Requests, SaveUpdated(r)
    PROVE  DInv'
<1>1. TypeOK /\ RequestOK(r) /\ requests[r].pc = "write" /\ requests[r].op = "update" /\ requests[r] \in Request
  <2>1. TypeOK /\ RequestOK(r) /\ requests[r].pc = "write" /\ requests[r] \in Request
    BY DEF DInv, SaveUpdated, TypeOK
  <2> QED
    BY <2>1 DEF RequestOK, ReqOK, Awaits, Request
<1>2. PICK d \in Datasources : d = requests[r].ds
  BY <1>1 DEF RequestOK, ReqOK
<1>3. PICK c \in Config : c = requests[r].config
  BY <1>1 DEF TypeOK, Request
<1>4. PICK input \in UpdateDatasourceDto : input = requests[r].input
  BY <1>1 DEF Request
<1>5. PICK read \in Row : read = requests[r].row
  BY <1>1 DEF RequestOK, ReqOK
<1>6. Valid(c) /\ c.host \in Hosts /\ Effective(c) \in tested
  BY <1>1, <1>3 DEF RequestOK, ReqOK
<1>7. PICK row \in Row \cup {NoRow} :
        /\ rows' = [rows EXCEPT ![d] = row]
        /\ row = NoRow => c.mode = "DIRECT"
        /\ d \notin contended => row \in Row /\ row.mode = c.mode /\ row.host = c.host
  <2> DEFINE row == RowAfter(requests[r], rows[d])
  <2>1. /\ row \in Row \cup {NoRow}
        /\ d \notin contended => row \in Row /\ row.mode = c.mode /\ row.host = c.host
    BY <1>1, <1>2, <1>3, RowAfterOK
  <2>2. rows' = [rows EXCEPT ![d] = row] /\ (row = NoRow => c.mode = "DIRECT")
    BY <1>2, <1>3 DEF SaveUpdated
  <2> HIDE DEF row
  <2> QED
    BY <2>1, <2>2
<1>8. /\ UNCHANGED <<connection, blocked, calls, tested, contended>>
      /\ ssh' = [ssh EXCEPT ![d] = SshConfig(c)]
      /\ secrets' = [secrets EXCEPT ![d] = SecretsAfter(input, c, secrets[d])]
      /\ c.mode = "SSH_TUNNEL" => ssh[d] = None
      /\ Goto(r, [requests[r] EXCEPT !.pc = "saved"])
  BY <1>2, <1>3, <1>4 DEF SaveUpdated, SecretsAfter, Connections
<1>9. PICK n \in Request : n = [requests[r] EXCEPT !.pc = "saved"]
  BY <1>1 DEF Request
<1>10. n.pc = "saved" /\ n.op = "update" /\ n.ds = d /\ n.row = read
  BY <1>1, <1>2, <1>5, <1>9 DEF Request
<1>11. requests' \in [Requests -> Request] /\ requests'[r] = n /\ \A t \in Requests \ {r} : requests'[t] = requests[t]
  BY <1>1, <1>8, <1>9, Going
<1>12. /\ secrets[d] \in [SecretTypes -> Maybe(Secrets)] /\ ssh[d] \in Maybe(SshRow) /\ Tidy(secrets[d], ssh[d])
  BY <1>1 DEF TypeOK, DInv, NoLeftoverSecrets, Tidy
<1>13. /\ SecretsAfter(input, c, secrets[d]) \in [SecretTypes -> Maybe(Secrets)]
       /\ Tidy(SecretsAfter(input, c, secrets[d]), SshConfig(c))
       /\ c.mode = "DIRECT" => SshConfig(c) = None
  BY <1>6, <1>8, <1>12, UpdateIsTidy
<1>14. SshConfig(c) \in Maybe(SshRow)
  BY DEF SshConfig, SshRow, Config, SshInput
<1>15. rows'[d] = row /\ ssh'[d] = SshConfig(c) /\ secrets'[d] = SecretsAfter(input, c, secrets[d])
  BY <1>1, <1>7, <1>8 DEF TypeOK
<1>16. TypeOK'
  BY <1>1, <1>7, <1>8, <1>11, <1>13, <1>14 DEF TypeOK
<1>17. d \notin contended => /\ Resolvable(rows'[d], secrets'[d], ssh'[d])
                             /\ Resolved(rows'[d], secrets'[d], ssh'[d]) \in tested
  <2>1. SUFFICES ASSUME d \notin contended
                 PROVE  /\ Resolvable(row, secrets'[d], SshConfig(c))
                        /\ Resolved(row, secrets'[d], SshConfig(c)) \in tested
    BY <1>15
  <2>2. Exists(d) /\ c = Merged(input, Current(read, secrets[d], ssh[d]))
    BY <1>1, <1>2, <1>3, <1>4, <1>5, <2>1 DEF RequestOK, UpdateOK
  <2>3. secrets[d]["DATABASE_PASSWORD"] # None
    BY <2>1, <2>2 DEF DInv, SavedWasTested, Resolvable
  <2>4. /\ c.password # None /\ secrets'[d]["DATABASE_PASSWORD"] = c.password
        /\ c.ssh # None => /\ secrets'[d]["SSH_PASSWORD"] = c.ssh.password
                           /\ secrets'[d]["SSH_PRIVATE_KEY"] = c.ssh.privateKey
                           /\ secrets'[d]["SSH_PRIVATE_KEY_PASSPHRASE"] = c.ssh.passphrase
    BY <1>6, <1>8, <1>12, <1>15, <2>2, <2>3, UpdateStores
  <2> QED
    BY <1>6, <1>7, <1>13, <1>15, <2>1, <2>4, SpelledOut
<1>18. rows'[d].mode = "DIRECT" /\ (Exists(d)' => d \notin contended) => ssh'[d] = None
  <2>1. row # NoRow => Exists(d)'
    BY <1>15 DEF Exists
  <2> QED
    BY <1>7, <1>13, <1>15, <2>1
<1>19. BeingSaved(d)' /\ \A b \in Datasources : BeingSaved(b) => BeingSaved(b)'
  BY <1>1, <1>10, <1>11 DEF BeingSaved
<1>20. RequestOK(r)'
  <2>1. ReqOK(r)' /\ FreshOK(r)' /\ UpdateOK(r)' /\ ConnectOK(r)'
    BY <1>10, <1>11 DEF ReqOK, FreshOK, UpdateOK, ConnectOK, Awaits
  <2> QED
    BY <2>1 DEF RequestOK
<1>21. requests'[r].ds = d /\ Changing(r)
  BY <1>1, <1>10, <1>11 DEF Changing
<1>22. \A b \in Datasources \ {d} : rows'[b] = rows[b] /\ ssh'[b] = ssh[b] /\ secrets'[b] = secrets[b]
  BY <1>1, <1>7, <1>8 DEF TypeOK
<1> QED
  BY <1>2, <1>7, <1>8, <1>11, <1>13, <1>15, <1>16, <1>17, <1>18, <1>19, <1>20, <1>21, <1>22, WritesOne

\* A removal leaves nothing.
LEMMA DeleteStep ==
    ASSUME DInv, NEW r \in Requests, Delete(r)
    PROVE  DInv'
<1>1. TypeOK /\ RequestOK(r) /\ requests[r].pc = "delete" /\ requests[r] \in Request
  BY DEF DInv, Delete, TypeOK
<1>2. requests[r].op = "remove" /\ requests[r].ds \in Datasources
  BY <1>1 DEF RequestOK, ReqOK, Awaits, Request
<1>3. PICK d \in Datasources : d = requests[r].ds
  BY <1>2
<1>4. /\ UNCHANGED <<connection, blocked, calls, tested, contended>>
      /\ Goto(r, Idle)
      /\ rows' = [rows EXCEPT ![d] = NoRow]
      /\ ssh' = [ssh EXCEPT ![d] = None]
      /\ secrets' = [secrets EXCEPT ![d] = NoSecrets]
  BY <1>3 DEF Delete, End, Connections
<1>5. requests' \in [Requests -> Request] /\ requests'[r] = Idle /\ \A t \in Requests \ {r} : requests'[t] = requests[t]
  BY <1>1, <1>4, IdleTyped, Going
<1>6. NoSecrets \in [SecretTypes -> Maybe(Secrets)] /\ \A t \in SshSecretTypes : NoSecrets[t] = None
  BY DEF NoSecrets, SecretTypes
<1>7. TypeOK'
  BY <1>1, <1>4, <1>5, <1>6 DEF TypeOK
<1>8. rows'[d] = NoRow /\ ssh'[d] = None /\ secrets'[d] = NoSecrets
  BY <1>1, <1>4 DEF TypeOK
<1>9. ~Exists(d)' /\ Tidy(secrets'[d], ssh'[d])
  BY <1>6, <1>8 DEF Exists, Tidy
<1>10. \A b \in Datasources : BeingSaved(b) => BeingSaved(b)'
  BY <1>1, <1>5 DEF BeingSaved
<1>11. requests'[r].ds = None /\ ~Changing(r)' /\ Changing(r)
  BY <1>2, <1>5 DEF Idle, Changing
<1>12. \A b \in Datasources \ {d} : rows'[b] = rows[b] /\ ssh'[b] = ssh[b] /\ secrets'[b] = secrets[b]
  BY <1>1, <1>4 DEF TypeOK
<1> QED
  BY <1>3, <1>4, <1>5, <1>7, <1>8, <1>9, <1>10, <1>11, <1>12, IdleOK, WritesOne
-----------------------------------------------------------------------------
\* Every step keeps the invariant.
LEMMA Inductive ==
    ASSUME DInv, [Next]_vars
    PROVE  DInv'
<1>1. CASE UNCHANGED vars
  BY <1>1 DEF vars, DInv, TypeOK, RequestOK, ReqOK, FreshOK, UpdateOK, ConnectOK, OneChange, NoLeftoverSecrets,
              SavedWasTested, ConnectionIsCurrent, Exists, Changing, BeingSaved
<1>2. CASE Next
  <2>1. ASSUME NEW r \in Requests, NEW d \in Datasources, NEW c \in Creations, Create(r, d, c)
        PROVE  DInv'
    BY <2>1, CreateStep
  <2>2. ASSUME NEW r \in Requests, NEW d \in Datasources, Update(r, d)
        PROVE  DInv'
    BY <2>2, ChangeStep DEF Update
  <2>3. ASSUME NEW r \in Requests, NEW d \in Datasources, Remove(r, d)
        PROVE  DInv'
    <3>1. NoChange \in UpdateDatasourceDto
      BY DEF NoChange, UpdateDatasourceDto
    <3> QED
      BY <2>3, <3>1, ChangeStep DEF Remove
  <2>4. ASSUME NEW r \in Requests, NEW d \in Datasources, TestSaved(r, d) \/ Connect(r, d)
        PROVE  DInv'
    BY <2>4, ResolveStep DEF TestSaved, Connect
  <2>5. ASSUME NEW r \in Requests, ReadSecrets(r) \/ ReadSsh(r) \/ Passes(r) \/ Throws(r)
        PROVE  DInv'
    BY <2>5, ReadSecretsStep, ReadSshStep, PassesStep, ThrowsStep
  <2>6. ASSUME NEW r \in Requests, SaveCreated(r) \/ ReadStored(r) \/ SaveUpdated(r) \/ Delete(r)
        PROVE  DInv'
    BY <2>6, SaveCreatedStep, ReadStoredStep, SaveUpdatedStep, DeleteStep
  <2>7. ASSUME NEW r \in Requests, Block(r) \/ Invalidate(r) \/ Outcome(r)
        PROVE  DInv'
    BY <2>7, BlockStep, InvalidateStep, OutcomeStep
  <2>8. ASSUME NEW d \in Datasources, Drop(d)
        PROVE  DInv'
    BY <2>8, DropStep
  <2> QED
    BY <1>2, <2>1, <2>2, <2>3, <2>4, <2>5, <2>6, <2>7, <2>8 DEF Next
<1> QED
  BY <1>1, <1>2

\* Nothing is saved, nobody asks for anything.
LEMMA Initially ==
    ASSUME Init
    PROVE  DInv
<1>1. TypeOK
  BY IdleTyped DEF Init, TypeOK, NoSecrets
<1>2. \A r \in Requests : RequestOK(r)
  BY DEF Init, RequestOK, ReqOK, FreshOK, UpdateOK, ConnectOK, Idle, Awaits
<1>3. OneChange /\ SavedWasTested /\ ConnectionIsCurrent
  BY DEF Init, OneChange, SavedWasTested, ConnectionIsCurrent, Changing, Exists, Idle
<1>4. NoLeftoverSecrets
  BY DEF Init, NoLeftoverSecrets, NoSecrets, SecretTypes
<1> QED
  BY <1>1, <1>2, <1>3, <1>4 DEF DInv

\* The invariant holds in every reachable state.
LEMMA Invariance == Spec => []DInv
<1>1. Init => DInv
  BY Initially
<1>2. DInv /\ [Next]_vars => DInv'
  BY Inductive
<1> QED
  BY <1>1, <1>2, PTL DEF Spec

\* Every row, secret, connection and request in flight has its type, whatever
\* requests overlap (the outcome of a test never brings a row back).
THEOREM Typing == Spec => []TypeOK
<1>1. DInv => TypeOK
  BY DEF DInv
<1> QED
  BY <1>1, Invariance, PTL

\* updateSshConfig and updateSecrets leave no secret behind that the SSH
\* configuration does not use, whatever changes overlap, and no SSH configuration
\* under a direct datasource, unless two requests changed it at once.
THEOREM NothingLeftOver == Spec => []NoLeftoverSecrets
<1>1. DInv => NoLeftoverSecrets
  BY DEF DInv
<1> QED
  BY <1>1, Invariance, PTL

\* What create and update save passed the test as a whole, unless two requests
\* changed the datasource at once.
THEOREM TestedBeforeSaved == Spec => []SavedWasTested
<1>1. DInv => SavedWasTested
  BY DEF DInv
<1> QED
  BY <1>1, Invariance, PTL

\* Once the update of a datasource is over, invalidateDatasource has left no
\* connection to its earlier configuration, nor to a mixture of two, unless two
\* requests changed it at once.
THEOREM ConnectedAsSaved == Spec => []ConnectionIsCurrent
<1>1. DInv => ConnectionIsCurrent
  BY DEF DInv
<1> QED
  BY <1>1, Invariance, PTL
===============================================================================
