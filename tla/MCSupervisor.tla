---------------------------- MODULE MCSupervisor ----------------------------
(* One service, and one request or one orphan.                             *)
EXTENDS Supervisor
=============================================================================
