------------------------- MODULE MCNotificationWorker -------------------------
(***************************************************************************)
(* NotificationWorker with bounds small enough for TLC; the group is lost  *)
(* once, the service stops twice.                                          *)
(***************************************************************************)
EXTENDS NotificationWorker
=============================================================================
