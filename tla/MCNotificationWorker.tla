----------------------- MODULE MCNotificationWorker -----------------------
(* Small instances of NotificationWorker for TLC. *)
EXTENDS NotificationWorker

CONSTANTS p1, p2

NoPoison == {}
OnePoison == {<<p1, 0>>}
=============================================================================
