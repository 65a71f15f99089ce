----------------------------- MODULE MCDatasources -----------------------------
(* A small instance of Datasources for TLC. *)
EXTENDS Datasources, TLC

CONSTANTS d1, d2, r1, r2, r3, h1, h2, b1, s1, s2

Password(s) == [bastion |-> b1, auth |-> "PASSWORD", password |-> s, privateKey |-> None, passphrase |-> None]
Key(s, p) == [bastion |-> b1, auth |-> "PRIVATE_KEY", password |-> None, privateKey |-> s, passphrase |-> p]

SomeCreations ==
    {[mode |-> "DIRECT", host |-> h1, password |-> s1, ssh |-> None],
     [mode |-> "SSH_TUNNEL", host |-> h1, password |-> s1, ssh |-> Password(s1)],
     [mode |-> "SSH_TUNNEL", host |-> h1, password |-> s1, ssh |-> Key(s1, s2)]}

\* One field at a time, and the changes of mode that need an SSH server.
SomeUpdates ==
    {[NoChange EXCEPT !.host = h2], [NoChange EXCEPT !.password = s2],
     [NoChange EXCEPT !.status = "DISABLED"], [NoChange EXCEPT !.status = "ACTIVE"],
     [NoChange EXCEPT !.mode = "DIRECT"],
     [NoChange EXCEPT !.mode = "SSH_TUNNEL", !.ssh = Password(s2)],
     [NoChange EXCEPT !.mode = "SSH_TUNNEL", !.ssh = Key(s2, None)]}

Symmetric == Permutations(Requests)
=============================================================================
