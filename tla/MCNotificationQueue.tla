------------------------- MODULE MCNotificationQueue -------------------------
(***************************************************************************)
(* NotificationQueue for TLC; the configurations give the constants.       *)
(***************************************************************************)
EXTENDS NotificationQueue

=============================================================================
