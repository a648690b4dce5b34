---------------------------- MODULE MCAuditWorker ----------------------------
(***************************************************************************)
(* AuditWorker with bounds small enough for TLC; the group is lost once,   *)
(* the service stops once.                                                 *)
(***************************************************************************)
EXTENDS AuditWorker
=============================================================================
