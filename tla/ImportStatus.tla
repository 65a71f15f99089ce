---------------------------- MODULE ImportStatus ----------------------------
(***************************************************************************)
(* The statuses of a CSV import and the sets of them that decide what the  *)
(* services may do with it.  The services do not all use the same set of   *)
(* statuses, so each set here keeps the name of the service that uses it.  *)
(***************************************************************************)

Status == {"UPLOADED", "VALIDATING", "QUEUED", "PROCESSING", "COMPLETED",
           "PARTIALLY_COMPLETED", "FAILED", "CANCELLED"}

\* import-status.ts: the statuses an import may take next.
allowedTransitions ==
  [s \in Status |->
     CASE s = "UPLOADED"   -> {"VALIDATING", "FAILED"}
       [] s = "VALIDATING" -> {"QUEUED", "PROCESSING", "FAILED"}
       [] s = "QUEUED"     -> {"PROCESSING", "FAILED", "CANCELLED"}
       [] s = "PROCESSING" -> {"COMPLETED", "PARTIALLY_COMPLETED", "FAILED"}
       [] s \in {"FAILED", "CANCELLED"} -> {"QUEUED"}
       [] OTHER            -> {}]

canTransition(from, to) == to \in allowedTransitions[from]

\* DuplicateImportService: an upload equal to one of these is a duplicate.
ActiveStatuses == {"QUEUED", "PROCESSING", "COMPLETED"}

\* The partial unique index on (organization, schema, table, file hash).
IndexedStatuses == {"QUEUED", "PROCESSING", "COMPLETED", "PARTIALLY_COMPLETED"}

\* ImportFileCleanupService: the statuses whose file expires.
ExpirableStatuses == {"COMPLETED", "FAILED", "CANCELLED"}

\* ImportsService.remove: the history that may be deleted.
RemovableStatuses == {"COMPLETED", "FAILED", "CANCELLED"}

\* ImportsService.retry: the imports that may be queued again.
RetryableStatuses == {"FAILED", "CANCELLED"}

\* The statuses in which the import has put its rows in the target table.
DoneStatuses == {"COMPLETED", "PARTIALLY_COMPLETED"}
=============================================================================
