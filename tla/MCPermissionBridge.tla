-------------------------- MODULE MCPermissionBridge --------------------------
(* A small instance of PermissionBridge: the run is stopped, settled by     *)
(* somebody else, and its server dies, each at most once.                   *)
EXTENDS PermissionBridge

Troubles == [e \in Events |-> 1]
=============================================================================
