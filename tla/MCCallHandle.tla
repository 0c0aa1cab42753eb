---------------------------- MODULE MCCallHandle ----------------------------
(* One handle; the broadcast channel overflows after two notifications.    *)
EXTENDS CallHandle
=============================================================================
