----------------------- MODULE MCNotificationDelivery -----------------------
(***************************************************************************)
(* NotificationDelivery with its constants left to the configuration: rows *)
(* of one subscription, more of them than a batch holds.                   *)
(***************************************************************************)
EXTENDS NotificationDelivery
=============================================================================
