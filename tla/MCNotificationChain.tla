------------------------- MODULE MCNotificationChain -------------------------
(* Small instances of NotificationChain.                                    *)
EXTENDS NotificationChain

TwoDestinations == <<"d1", "d2">>
TwoTargets == <<<<"d1", "r1">>, <<"d2", "r1">>>>
=============================================================================
