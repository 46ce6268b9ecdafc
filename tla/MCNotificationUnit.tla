-------------------------- MODULE MCNotificationUnit --------------------------
(* Small instances of NotificationUnit.                                     *)
EXTENDS NotificationUnit

TwoDestinations == <<"d1", "d2">>
=============================================================================
