------------------------ MODULE MCNotificationStore ------------------------
EXTENDS NotificationStore, TLC
=============================================================================
