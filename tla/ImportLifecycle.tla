--------------------------- MODULE ImportLifecycle ---------------------------
(***************************************************************************)
(* What the import service promises about imports, without requests,       *)
(* workers, jobs, files or entities in memory: each import follows its     *)
(* status table, its rows reach the target table at once and only while it *)
(* is PROCESSING, it is done exactly when they did, and two imports of the *)
(* same key are never active together.                                     *)
(***************************************************************************)
EXTENDS ImportStatus

CONSTANTS Imports, Key

VARIABLES status, loaded

Init ==
    /\ status = [i \in Imports |-> "NONE"]
    /\ loaded = [i \in Imports |-> FALSE]

KeyIsFree(i) ==
    \A k \in Imports \ {i} : Key[k] = Key[i] => status[k] \notin IndexedStatuses

\* The import takes status s; s is in the index only if its key is free.
Becomes(i, s) ==
    /\ s \in IndexedStatuses => KeyIsFree(i)
    /\ status' = [status EXCEPT ![i] = s]
    /\ UNCHANGED loaded

Upload(i) == status[i] = "NONE" /\ Becomes(i, "UPLOADED")

Advance(i) ==
    /\ status[i] \in Status
    /\ \E s \in allowedTransitions[status[i]] :
         /\ s \in DoneStatuses <=> loaded[i]
         /\ Becomes(i, s)

\* COPY commits.
LoadRows(i) ==
    /\ status[i] = "PROCESSING" /\ ~loaded[i]
    /\ loaded' = [loaded EXCEPT ![i] = TRUE]
    /\ UNCHANGED status

Next == \E i \in Imports : Upload(i) \/ Advance(i) \/ LoadRows(i)

Spec == Init /\ [][Next]_<<status, loaded>>
=============================================================================
